--------------------------- MODULE GatewayProofs ---------------------------
(***************************************************************************)
(* Proofs about Gateway: type correctness, the plans and reports that      *)
(* conversions work with, the counters, and that the gateway runs the      *)
(* limiter of RateLimiterProofs and so has its properties, for any number  *)
(* of requests, versions and workloads.                                    *)
(***************************************************************************)
EXTENDS Gateway, RateLimiterProofs

-----------------------------------------------------------------------------
(* The inductive invariant.                                                *)

Converting == {"load", "compile", "publish", "apply"}

(* Where a handler is, and what it has set by then.                        *)
Progress(r) ==
    /\ pc[r] \in {"source", "target", "decode", "encode"} => kind[r] = "morph"
    /\ pc[r] \in {"source", "target"} => form[r] \in Forms
    /\ pc[r] \in Converting => target[r] \in Versions
    /\ pc[r] \in {"publish", "apply"} => /\ plan[r] \in Plan
                                         /\ plan[r].target = target[r]
    /\ pc[r] = "waiting" => /\ source[r] = None /\ target[r] = None
                            /\ applied[r] = None

(* The cached plan of a pair of versions leads to the second one.          *)
CacheSound ==
    \A s \in Versions \cup {None}, t \in Versions :
        planCache[<<s, t>>] # None => planCache[<<s, t>>].target = t

(* The versions a conversion has looked up were active while it was        *)
(* served, and the active one is among those of every running request.     *)
Looked(r) ==
    /\ pc[r] \notin {"waiting", "done"} => active \in current[r]
    /\ kind[r] = "morph" => /\ source[r] \in current[r] \cup {None}
                            /\ target[r] \in current[r] \cup {None}
                            /\ applied[r] # None => applied[r].target \in current[r]

(* The requests with one of the answers S, and the conversions between     *)
(* decoding and their answer.                                              *)
Answered(S) == {r \in Requests : outcome[r] \in S}

Running == {r \in Requests : /\ kind[r] = "morph"
                             /\ pc[r] \in Converting \cup {"encode"}}

Unencoded == {"undecodable", "badtype", "unprojectable", "refused"}
Failed == {"unprojectable", "refused", "unencodable"}

(* The counters, and that they count finitely many requests.               *)
Accounted ==
    /\ IsFiniteSet(Running)
    /\ IsFiniteSet(Answered(Unencoded))
    /\ IsFiniteSet(Answered(Failed))
    /\ metrics.parse = metrics.encode + Cardinality(Running)
                         + Cardinality(Answered(Unencoded))
    /\ metrics.failures = Cardinality(Answered(Failed))

HandlerInv ==
    /\ HandlerTypeOK
    /\ \A r \in Requests : Progress(r) /\ Looked(r)
    /\ CacheSound
    /\ OwnReport
    /\ Accounted

-----------------------------------------------------------------------------
(* Lemmas about the counters.                                              *)

(* One more element.                                                       *)
LEMMA OneMore ==
    ASSUME NEW S, NEW x, IsFiniteSet(S), x \notin S
    PROVE  /\ IsFiniteSet(S \cup {x})
           /\ Cardinality(S) \in Nat
           /\ Cardinality(S \cup {x}) = Cardinality(S) + 1
    BY FS_AddElement, FS_CardinalityType

(* One element less.                                                       *)
LEMMA OneLess ==
    ASSUME NEW S, NEW x, IsFiniteSet(S), x \in S
    PROVE  /\ IsFiniteSet(S \ {x})
           /\ Cardinality(S) \in Nat /\ Cardinality(S \ {x}) \in Nat
           /\ Cardinality(S \ {x}) = Cardinality(S) - 1
    BY FS_RemoveElement, FS_CardinalityType

(* A request that has no answer yet is answered.                           *)
LEMMA AnsweredNext ==
    ASSUME HandlerTypeOK, NEW r \in Requests, NEW o \in Outcomes,
           pc[r] # "done", Answer(r, o), NEW S \in SUBSET Outcomes
    PROVE  /\ r \notin Answered(S)
           /\ Answered(S)' = IF o \in S THEN Answered(S) \cup {r} ELSE Answered(S)
<1>1. outcome[r] = None /\ outcome' = [outcome EXCEPT ![r] = o]
    BY DEF HandlerTypeOK, Answer
<1>2. r \notin Answered(S)
    BY <1>1, GatewayAssumption DEF Answered
<1>3. ASSUME NEW q \in Requests
      PROVE  outcome'[q] \in S <=> IF q = r THEN o \in S ELSE outcome[q] \in S
    BY <1>1 DEF HandlerTypeOK
<1> QED
    BY <1>2, <1>3 DEF Answered

(* Both sets of answers at once.                                           *)
LEMMA AnsweredBoth ==
    ASSUME HandlerTypeOK, NEW r \in Requests, NEW o \in Outcomes,
           pc[r] # "done", Answer(r, o)
    PROVE  /\ r \notin Answered(Unencoded) /\ r \notin Answered(Failed)
           /\ Answered(Unencoded)' = IF o \in Unencoded
                                     THEN Answered(Unencoded) \cup {r}
                                     ELSE Answered(Unencoded)
           /\ Answered(Failed)' = IF o \in Failed THEN Answered(Failed) \cup {r}
                                                  ELSE Answered(Failed)
<1>1. Unencoded \in SUBSET Outcomes /\ Failed \in SUBSET Outcomes
    BY DEF Unencoded, Failed, Outcomes
<1>2. \A S \in SUBSET Outcomes :
        /\ r \notin Answered(S)
        /\ Answered(S)' = IF o \in S THEN Answered(S) \cup {r} ELSE Answered(S)
    BY AnsweredNext
<1>3. /\ r \notin Answered(Unencoded)
      /\ Answered(Unencoded)' = IF o \in Unencoded
                                THEN Answered(Unencoded) \cup {r}
                                ELSE Answered(Unencoded)
    BY <1>1, <1>2 DEF Unencoded
<1>4. /\ r \notin Answered(Failed)
      /\ Answered(Failed)' = IF o \in Failed THEN Answered(Failed) \cup {r}
                                             ELSE Answered(Failed)
    BY <1>1, <1>2 DEF Failed
<1> QED
    BY <1>3, <1>4

(* A request moves to l.                                                   *)
LEMMA RunningNext ==
    ASSUME HandlerTypeOK, NEW r \in Requests, NEW l, Goto(r, l), UNCHANGED kind
    PROVE  Running' = IF kind[r] = "morph" /\ l \in Converting \cup {"encode"}
                      THEN Running \cup {r} ELSE Running \ {r}
    BY DEF HandlerTypeOK, Goto, Running

(* A request that is answered is no running conversion any more.           *)
LEMMA AnswerEndsRunning ==
    ASSUME HandlerTypeOK, NEW r \in Requests, NEW o, Answer(r, o), UNCHANGED kind
    PROVE  Running' = Running \ {r}
    BY RunningNext DEF Answer, Converting

(* Counting keeps the counters natural numbers.                            *)
LEMMA CountersTyped ==
    ASSUME NEW m \in [http : Nat, failures : Nat, parse : Nat, convert : Nat,
                      encode : Nat]
    PROVE  LET T == [http : Nat, failures : Nat, parse : Nat, convert : Nat,
                     encode : Nat]
           IN  /\ [m EXCEPT !.convert = @ + 1] \in T
               /\ [m EXCEPT !.failures = @ + 1] \in T
               /\ [m EXCEPT !.encode = @ + 1] \in T
    OBVIOUS

(* Steps that count nothing.                                               *)
LEMMA AccountedKept ==
    ASSUME Accounted, Running' = Running, UNCHANGED <<metrics.parse,
           metrics.encode, metrics.failures>>,
           Answered(Unencoded)' = Answered(Unencoded),
           Answered(Failed)' = Answered(Failed)
    PROVE  Accounted'
    BY DEF Accounted

(* Answers that are not counted, to requests that are not running.         *)
LEMMA PlainAnswer ==
    ASSUME HandlerTypeOK, Accounted, NEW r \in Requests, UNCHANGED kind,
           pc[r] # "done", r \notin Running,
           NEW o \in Outcomes, o \notin Unencoded \cup Failed, Answer(r, o),
           UNCHANGED <<metrics.parse, metrics.encode, metrics.failures>>
    PROVE  Accounted'
<1>1. Running' = Running
    BY AnswerEndsRunning
<1> QED
    BY <1>1, AnsweredBoth, AccountedKept

(* Steps within a part of a handler.                                       *)
LEMMA PlainMove ==
    ASSUME HandlerTypeOK, Accounted, NEW r \in Requests, NEW l, Goto(r, l),
           UNCHANGED <<kind, outcome>>,
           r \in Running <=> kind[r] = "morph" /\ l \in Converting \cup {"encode"},
           UNCHANGED <<metrics.parse, metrics.encode, metrics.failures>>
    PROVE  Accounted'
<1>1. Running' = Running
    BY RunningNext
<1>2. /\ Answered(Unencoded)' = Answered(Unencoded)
      /\ Answered(Failed)' = Answered(Failed)
    BY DEF Answered, Unencoded, Failed
<1> QED
    BY <1>1, <1>2, AccountedKept

(* A running conversion that fails before it is encoded.                   *)
LEMMA CountedFailure ==
    ASSUME HandlerTypeOK, Accounted, NEW r \in Running, UNCHANGED kind,
           NEW o \in Outcomes, o \in Unencoded, o \in Failed, Answer(r, o),
           pc[r] # "done",
           metrics'.parse = metrics.parse, metrics'.encode = metrics.encode,
           metrics'.failures = metrics.failures + 1
    PROVE  Accounted'
<1>1. r \in Requests
    BY DEF Running
<1>2. /\ Running' = Running \ {r}
      /\ r \notin Answered(Unencoded) /\ r \notin Answered(Failed)
      /\ Answered(Unencoded)' = Answered(Unencoded) \cup {r}
      /\ Answered(Failed)' = Answered(Failed) \cup {r}
    BY <1>1, AnswerEndsRunning, AnsweredBoth
<1>3. /\ IsFiniteSet(Running \ {r}) /\ Cardinality(Running) \in Nat
      /\ Cardinality(Running \ {r}) = Cardinality(Running) - 1
    BY OneLess DEF Accounted
<1>4. /\ IsFiniteSet(Answered(Unencoded) \cup {r})
      /\ Cardinality(Answered(Unencoded)) \in Nat
      /\ Cardinality(Answered(Unencoded) \cup {r})
           = Cardinality(Answered(Unencoded)) + 1
    BY <1>2, OneMore DEF Accounted
<1>5. /\ IsFiniteSet(Answered(Failed) \cup {r})
      /\ Cardinality(Answered(Failed) \cup {r}) = Cardinality(Answered(Failed)) + 1
    BY <1>2, OneMore DEF Accounted
<1>6. metrics.encode \in Nat
    BY DEF HandlerTypeOK
<1> QED
    BY <1>2, <1>3, <1>4, <1>5, <1>6 DEF Accounted

(* The key under which a request looks for a plan.                         *)
LEMMA PlanKeyKnown ==
    ASSUME HandlerTypeOK, NEW r \in Requests, target[r] \in Versions
    PROVE  PlanKey(r) \in PlanKeys
    BY DEF HandlerTypeOK, PlanKey, PlanKeys

-----------------------------------------------------------------------------
(* Preservation by the handlers' steps.                                    *)

(* The middleware hands the request to its handler.                        *)
LEMMA DispatchInv ==
    ASSUME HandlerInv, NEW r \in Requests, Dispatch(r), UNCHANGED <<load, env, kind>>
    PROVE  HandlerInv'
<1>1. HandlerTypeOK'
    BY GatewayAssumption DEF HandlerInv, HandlerTypeOK, Dispatch, Answer, Goto, Outcomes, Kinds
<1>2. \A q \in Requests : Progress(q)'
  <2>1. load.forms \subseteq Forms
    BY GatewayAssumption DEF HandlerInv, HandlerTypeOK
  <2>2. \A q \in Requests \ {r} : Progress(q)'
    BY DEF HandlerInv, Progress, Converting, HandlerTypeOK, Dispatch, Answer, Goto
  <2>3. Progress(r)'
    BY <2>1 DEF HandlerInv, Progress, Converting, HandlerTypeOK, Dispatch, Answer, Goto
  <2> QED
    BY <2>2, <2>3
<1>3. \A q \in Requests : Looked(q)'
  <2>1. \A q \in Requests \ {r} : Looked(q)'
    BY DEF HandlerInv, Looked, HandlerTypeOK, Dispatch, Answer, Goto
  <2>2. source[r] = None /\ target[r] = None /\ applied[r] = None
    BY DEF HandlerInv, Progress, Dispatch
  <2>3. current'[r] = {active}
    BY DEF HandlerInv, HandlerTypeOK, Dispatch
  <2>4. Looked(r)'
    BY <2>2, <2>3 DEF Looked, Dispatch
  <2> QED
    BY <2>1, <2>4
<1>4. CacheSound'
    BY DEF HandlerInv, CacheSound, Dispatch
<1>5. OwnReport'
    BY DEF HandlerInv, OwnReport, HandlerTypeOK, Dispatch, Answer, Goto, Outcomes, Kinds
<1>6. Accounted'
  <2>1. pc[r] = "waiting" /\ r \notin Running /\ UNCHANGED metrics
    BY DEF Dispatch, Running, Converting
  <2>2. CASE \E o \in {"ok", "unauthorized"} : Answer(r, o)
    BY <2>1, <2>2, PlainAnswer DEF HandlerInv, Outcomes, Unencoded, Failed
  <2>3. CASE Goto(r, IF kind[r] = "morph" THEN "source" ELSE "serve") /\ UNCHANGED outcome
    BY <2>1, <2>3, PlainMove DEF HandlerInv, Converting
  <2> QED
    BY <2>2, <2>3 DEF Dispatch
<1> QED
    BY <1>1, <1>2, <1>3, <1>4, <1>5, <1>6 DEF HandlerInv

(* An upload changes the versions and which one is active.                 *)
LEMMA RegisterSchemaInv ==
    ASSUME HandlerInv, NEW r \in Requests, RegisterSchema(r), UNCHANGED <<load, env, kind>>
    PROVE  HandlerInv'
<1>1. HandlerTypeOK'
    BY GatewayAssumption DEF HandlerInv, HandlerTypeOK, RegisterSchema, Answer, Goto, MakeActive, Outcomes
<1>2. \A q \in Requests : Progress(q)'
    BY DEF HandlerInv, Progress, Converting, HandlerTypeOK, RegisterSchema, Answer, Goto
<1>3. \A q \in Requests : Looked(q)'
    BY DEF HandlerInv, Looked, Progress, Converting, HandlerTypeOK, RegisterSchema, Answer, Goto, MakeActive, Outcomes
<1>4. CacheSound'
    BY DEF HandlerInv, CacheSound, RegisterSchema
<1>5. OwnReport'
    BY DEF HandlerInv, OwnReport, HandlerTypeOK, RegisterSchema, Answer, Goto, MakeActive, Outcomes
<1>6. Accounted'
  <2>1. /\ pc[r] = "serve" /\ r \notin Running
        /\ UNCHANGED <<metrics.parse, metrics.encode, metrics.failures>>
    BY DEF HandlerInv, HandlerTypeOK, RegisterSchema, Running, Converting
  <2>2. \E o \in {"ok", "badinput"} : Answer(r, o)
    BY DEF RegisterSchema
  <2> QED
    BY <2>1, <2>2, PlainAnswer DEF HandlerInv, Outcomes, Unencoded, Failed
<1> QED
    BY <1>1, <1>2, <1>3, <1>4, <1>5, <1>6 DEF HandlerInv

(* Activation changes the active version.                                  *)
LEMMA ActivateSchemaInv ==
    ASSUME HandlerInv, NEW r \in Requests, ActivateSchema(r), UNCHANGED <<load, env, kind>>
    PROVE  HandlerInv'
<1>1. HandlerTypeOK'
  <2>1. CASE \E v \in versions : MakeActive(v) /\ Answer(r, "ok")
    BY <2>1, GatewayAssumption
    DEF HandlerInv, HandlerTypeOK, ActivateSchema, Answer, Goto, MakeActive, Outcomes
  <2>2. CASE Answer(r, "badinput") /\ UNCHANGED <<active, current>>
    BY <2>2, GatewayAssumption
    DEF HandlerInv, HandlerTypeOK, ActivateSchema, Answer, Goto, Outcomes
  <2> QED
    BY <2>1, <2>2 DEF ActivateSchema
<1>2. \A q \in Requests : Progress(q)'
    BY DEF HandlerInv, Progress, Converting, HandlerTypeOK, ActivateSchema, Answer, Goto
<1>3. \A q \in Requests : Looked(q)'
  <2>1. pc' = [pc EXCEPT ![r] = "done"]
    BY DEF ActivateSchema, Answer, Goto
  <2>2. CASE \E v \in versions : MakeActive(v)
    BY <2>1, <2>2 DEF HandlerInv, Looked, Progress, HandlerTypeOK, ActivateSchema, MakeActive
  <2>3. CASE UNCHANGED <<active, current>>
    BY <2>1, <2>3 DEF HandlerInv, Looked, HandlerTypeOK, ActivateSchema
  <2> QED
    BY <2>2, <2>3 DEF ActivateSchema
<1>4. CacheSound'
    BY DEF HandlerInv, CacheSound, ActivateSchema
<1>5. OwnReport'
    BY DEF HandlerInv, OwnReport, HandlerTypeOK, ActivateSchema, Answer, Goto, Outcomes
<1>6. Accounted'
  <2>1. /\ pc[r] = "serve" /\ r \notin Running
        /\ UNCHANGED <<metrics.parse, metrics.encode, metrics.failures>>
    BY DEF HandlerInv, HandlerTypeOK, ActivateSchema, Running, Converting
  <2>2. \E o \in {"ok", "badinput"} : Answer(r, o)
    BY DEF ActivateSchema
  <2> QED
    BY <2>1, <2>2, PlainAnswer DEF HandlerInv, Outcomes, Unencoded, Failed
<1> QED
    BY <1>1, <1>2, <1>3, <1>4, <1>5, <1>6 DEF HandlerInv

(* A conversion looks up its source.                                       *)
LEMMA LookupSourceInv ==
    ASSUME HandlerInv, NEW r \in Requests, LookupSource(r), UNCHANGED <<load, env, kind>>
    PROVE  HandlerInv'
<1>1. HandlerTypeOK'
    BY GatewayAssumption DEF HandlerInv, HandlerTypeOK, LookupSource, Goto
<1>2. \A q \in Requests : Progress(q)'
    BY DEF HandlerInv, Progress, Converting, HandlerTypeOK, LookupSource, Goto
<1>3. \A q \in Requests : Looked(q)'
    BY DEF HandlerInv, Looked, Progress, Converting, HandlerTypeOK, LookupSource, Goto
<1>4. CacheSound'
    BY DEF HandlerInv, CacheSound, HandlerTypeOK, LookupSource, Goto
<1>5. OwnReport'
    BY DEF HandlerInv, OwnReport, HandlerTypeOK, LookupSource, Goto
<1>6. Accounted'
  <2>1. /\ pc[r] = "source" /\ r \notin Running
        /\ UNCHANGED <<metrics.parse, metrics.encode, metrics.failures>>
    BY DEF HandlerInv, HandlerTypeOK, LookupSource, Running, Converting
  <2> QED
    BY <2>1, PlainMove DEF HandlerInv, LookupSource, Converting
<1> QED
    BY <1>1, <1>2, <1>3, <1>4, <1>5, <1>6 DEF HandlerInv

(* A conversion looks up its target.                                       *)
LEMMA LookupTargetInv ==
    ASSUME HandlerInv, NEW r \in Requests, LookupTarget(r), UNCHANGED <<load, env, kind>>
    PROVE  HandlerInv'
<1>1. HandlerTypeOK'
    BY GatewayAssumption DEF HandlerInv, HandlerTypeOK, LookupTarget, Answer, Goto, Outcomes
<1>2. \A q \in Requests : Progress(q)'
    BY DEF HandlerInv, Progress, Converting, HandlerTypeOK, LookupTarget, Answer, Goto, Outcomes
<1>3. \A q \in Requests : Looked(q)'
    BY DEF HandlerInv, Looked, Progress, Converting, HandlerTypeOK, LookupTarget, Answer, Goto, Outcomes
<1>4. CacheSound'
    BY DEF HandlerInv, CacheSound, HandlerTypeOK, LookupTarget, Answer, Goto, Outcomes
<1>5. OwnReport'
    BY DEF HandlerInv, OwnReport, HandlerTypeOK, LookupTarget, Answer, Goto, Outcomes
<1>6. Accounted'
  <2>1. pc[r] = "target" /\ r \notin Running /\ UNCHANGED metrics
    BY DEF LookupTarget, Running, Converting
  <2>2. CASE Answer(r, "notfound")
    BY <2>1, <2>2, PlainAnswer DEF HandlerInv, Outcomes, Unencoded, Failed
  <2>3. CASE Goto(r, "decode") /\ UNCHANGED outcome
    BY <2>1, <2>3, PlainMove DEF HandlerInv, Converting
  <2> QED
    BY <2>2, <2>3 DEF LookupTarget
<1> QED
    BY <1>1, <1>2, <1>3, <1>4, <1>5, <1>6 DEF HandlerInv

(* A conversion decodes its payload.                                       *)
LEMMA DecodeInv ==
    ASSUME HandlerInv, NEW r \in Requests, Decode(r), UNCHANGED <<load, env, kind>>
    PROVE  HandlerInv'
<1>1. HandlerTypeOK'
    BY GatewayAssumption DEF HandlerInv, HandlerTypeOK, Decode, Answer, Goto, Outcomes
<1>2. \A q \in Requests : Progress(q)'
    BY DEF HandlerInv, Progress, Converting, HandlerTypeOK, Decode, Answer, Goto, Outcomes
<1>3. \A q \in Requests : Looked(q)'
    BY DEF HandlerInv, Looked, Progress, Converting, HandlerTypeOK, Decode, Answer, Goto, Outcomes
<1>4. CacheSound'
    BY DEF HandlerInv, CacheSound, HandlerTypeOK, Decode, Answer, Goto, Outcomes
<1>5. OwnReport'
    BY DEF HandlerInv, OwnReport, HandlerTypeOK, Decode, Answer, Goto, Outcomes
<1>6. Accounted'
  <2>1. /\ pc[r] = "decode" /\ r \notin Running /\ kind[r] = "morph"
        /\ Accounted /\ HandlerTypeOK
    BY DEF Decode, HandlerInv, Progress, Running, Converting
  <2>2. CASE Answer(r, "badinput") /\ UNCHANGED metrics
    BY <2>1, <2>2, PlainAnswer DEF Outcomes, Unencoded, Failed
  <2>3. CASE metrics' = [metrics EXCEPT !.parse = @ + 1]
    <3>1. /\ metrics'.parse = metrics.parse + 1 /\ metrics'.encode = metrics.encode
          /\ metrics'.failures = metrics.failures
          /\ metrics.parse \in Nat /\ metrics.encode \in Nat
      BY <2>1, <2>3 DEF HandlerTypeOK
    <3>2. CASE \E o \in {"undecodable", "badtype"} : Answer(r, o)
      <4>1. PICK o \in {"undecodable", "badtype"} : Answer(r, o)
        BY <3>2
      <4>2. o \in Outcomes /\ o \in Unencoded /\ o \notin Failed
        BY DEF Outcomes, Unencoded, Failed
      <4>3. /\ Running' = Running
            /\ r \notin Answered(Unencoded)
            /\ Answered(Unencoded)' = Answered(Unencoded) \cup {r}
            /\ Answered(Failed)' = Answered(Failed)
        BY <2>1, <4>1, <4>2, AnswerEndsRunning, AnsweredBoth
      <4>4. /\ IsFiniteSet(Answered(Unencoded) \cup {r})
            /\ Cardinality(Answered(Unencoded)) \in Nat
            /\ Cardinality(Answered(Unencoded) \cup {r})
                 = Cardinality(Answered(Unencoded)) + 1
        BY <2>1, <4>3, OneMore DEF Accounted
      <4>5. Cardinality(Running) \in Nat
        BY <2>1, FS_CardinalityType DEF Accounted
      <4> QED
        BY <2>1, <3>1, <4>3, <4>4, <4>5 DEF Accounted
    <3>3. CASE /\ Goto(r, IF target[r] = None THEN "encode" ELSE "load")
               /\ UNCHANGED outcome
      <4>1. /\ Running' = Running \cup {r}
            /\ Answered(Unencoded)' = Answered(Unencoded)
            /\ Answered(Failed)' = Answered(Failed)
        BY <2>1, <3>3, RunningNext DEF Answered, Unencoded, Failed, Converting
      <4>2. /\ IsFiniteSet(Running \cup {r})
            /\ Cardinality(Running) \in Nat
            /\ Cardinality(Running \cup {r}) = Cardinality(Running) + 1
        BY <2>1, OneMore DEF Accounted
      <4>3. Cardinality(Answered(Unencoded)) \in Nat
        BY <2>1, FS_CardinalityType DEF Accounted
      <4> QED
        BY <2>1, <3>1, <4>1, <4>2, <4>3 DEF Accounted
    <3> QED
      BY <2>3, <3>2, <3>3, <2>1 DEF Decode, HandlerTypeOK
  <2> QED
    BY <2>2, <2>3 DEF Decode
<1> QED
    BY <1>1, <1>2, <1>3, <1>4, <1>5, <1>6 DEF HandlerInv

(* An event reaches a subscription.                                        *)
LEMMA ReceiveEventInv ==
    ASSUME HandlerInv, NEW r \in Requests, ReceiveEvent(r), UNCHANGED <<load, env, kind>>
    PROVE  HandlerInv'
<1>1. HandlerTypeOK'
    BY GatewayAssumption DEF HandlerInv, HandlerTypeOK, ReceiveEvent, Answer, Goto, Outcomes
<1>2. \A q \in Requests : Progress(q)'
    BY DEF HandlerInv, Progress, Converting, HandlerTypeOK, ReceiveEvent, Answer, Goto, Outcomes
<1>3. \A q \in Requests : Looked(q)'
    BY DEF HandlerInv, Looked, Progress, Converting, HandlerTypeOK, ReceiveEvent, Answer, Goto, Outcomes
<1>4. CacheSound'
    BY DEF HandlerInv, CacheSound, HandlerTypeOK, ReceiveEvent, Answer, Goto, Outcomes
<1>5. OwnReport'
    BY DEF HandlerInv, OwnReport, HandlerTypeOK, ReceiveEvent, Answer, Goto, Outcomes
<1>6. Accounted'
  <2>1. /\ pc[r] = "serve" /\ kind[r] = "event" /\ r \notin Running
        /\ UNCHANGED <<metrics.parse, metrics.encode, metrics.failures>>
    BY DEF HandlerInv, HandlerTypeOK, ReceiveEvent, Running, Converting
  <2>2. CASE Answer(r, "badinput")
    BY <2>1, <2>2, PlainAnswer DEF HandlerInv, Outcomes, Unencoded, Failed
  <2>3. CASE Goto(r, "load") /\ UNCHANGED outcome
    BY <2>1, <2>3, PlainMove DEF HandlerInv, Converting
  <2> QED
    BY <2>2, <2>3 DEF ReceiveEvent
<1> QED
    BY <1>1, <1>2, <1>3, <1>4, <1>5, <1>6 DEF HandlerInv

(* A request loads a plan from the cache.                                  *)
LEMMA LoadPlanInv ==
    ASSUME HandlerInv, NEW r \in Requests, LoadPlan(r), UNCHANGED <<load, env, kind>>
    PROVE  HandlerInv'
<1>0. /\ target[r] \in Versions /\ PlanKey(r) \in PlanKeys
      /\ planCache[PlanKey(r)] \in Plan \cup {None}
      /\ planCache[PlanKey(r)] # None => planCache[PlanKey(r)].target = target[r]
  <2>1. target[r] \in Versions /\ source[r] \in Versions \cup {None}
    BY DEF HandlerInv, HandlerTypeOK, LoadPlan, Progress, Converting
  <2> QED
    BY <2>1, PlanKeyKnown DEF HandlerInv, HandlerTypeOK, CacheSound, PlanKey
<1>1. HandlerTypeOK'
    BY <1>0, GatewayAssumption DEF HandlerInv, HandlerTypeOK, LoadPlan, Goto
<1>2. \A q \in Requests : Progress(q)'
    BY <1>0 DEF HandlerInv, Progress, Converting, HandlerTypeOK, LoadPlan, Goto
<1>3. \A q \in Requests : Looked(q)'
    BY DEF HandlerInv, Looked, Progress, Converting, HandlerTypeOK, LoadPlan, Goto
<1>4. CacheSound'
    BY DEF HandlerInv, CacheSound, HandlerTypeOK, LoadPlan, Goto
<1>5. OwnReport'
    BY DEF HandlerInv, OwnReport, HandlerTypeOK, LoadPlan, Goto
<1>6. Accounted'
  <2>1. /\ pc[r] = "load" /\ UNCHANGED <<metrics, outcome>>
        /\ r \in Running <=> kind[r] = "morph"
        /\ \E l \in Converting : Goto(r, l)
    BY DEF LoadPlan, Running, Converting
  <2> QED
    BY <2>1, PlainMove DEF HandlerInv
<1> QED
    BY <1>1, <1>2, <1>3, <1>4, <1>5, <1>6 DEF HandlerInv

(* A request compiles a plan and stores it under its names.                *)
LEMMA CompilePlanInv ==
    ASSUME HandlerInv, NEW r \in Requests, CompilePlan(r), UNCHANGED <<load, env, kind>>
    PROVE  HandlerInv'
<1>a. PICK p : p = [target |-> target[r], emitNull |-> EmitNull(r),
                    report |-> IF kind[r] = "morph" THEN r ELSE None]
    OBVIOUS
<1>b. EmitNull(r) \in BOOLEAN
    BY DEF EmitNull
<1>c. target[r] \in Versions
    BY DEF HandlerInv, Progress, Converting, CompilePlan
<1>d. p \in Plan /\ p.target = target[r]
    BY <1>a, <1>b, <1>c DEF Plan
<1>e. /\ pc[r] = "compile"
      /\ plan' = [plan EXCEPT ![r] = p]
      /\ planCache' = [planCache EXCEPT ![NameKey] = p]
      /\ Goto(r, "publish")
      /\ UNCHANGED <<form, versions, active, source, target, applied, reports,
                     outcome, metrics, current>>
    BY <1>a DEF CompilePlan
<1>1. HandlerTypeOK'
    BY <1>d, <1>e DEF HandlerInv, HandlerTypeOK, Goto
<1>2. \A q \in Requests : Progress(q)'
    BY <1>c, <1>d, <1>e DEF HandlerInv, Progress, Converting, HandlerTypeOK, Goto
<1>3. \A q \in Requests : Looked(q)'
    BY DEF HandlerInv, Looked, Progress, Converting, HandlerTypeOK, CompilePlan, Goto
<1>4. CacheSound'
  <2> SUFFICES ASSUME NEW s \in Versions \cup {None}, NEW t \in Versions
               PROVE  planCache'[<<s, t>>] = planCache[<<s, t>>]
    BY DEF HandlerInv, CacheSound
  <2>1. <<s, t>> # NameKey /\ <<s, t>> \in PlanKeys
    BY DEF NameKey, PlanKeys
  <2> QED
    BY <1>e, <2>1 DEF HandlerInv, HandlerTypeOK
<1>5. OwnReport'
    BY DEF HandlerInv, OwnReport, HandlerTypeOK, CompilePlan, Goto
<1>6. Accounted'
  <2>1. /\ pc[r] = "compile" /\ UNCHANGED <<metrics, outcome>>
        /\ r \in Running <=> kind[r] = "morph"
        /\ \E l \in Converting : Goto(r, l)
    BY DEF CompilePlan, Running, Converting
  <2> QED
    BY <2>1, PlainMove DEF HandlerInv
<1> QED
    BY <1>1, <1>2, <1>3, <1>4, <1>5, <1>6 DEF HandlerInv

(* A request stores its plan under its versions.                           *)
LEMMA PublishPlanInv ==
    ASSUME HandlerInv, NEW r \in Requests, PublishPlan(r), UNCHANGED <<load, env, kind>>
    PROVE  HandlerInv'
<1>1. HandlerTypeOK'
    BY GatewayAssumption DEF HandlerInv, HandlerTypeOK, PublishPlan, Goto
<1>2. \A q \in Requests : Progress(q)'
    BY DEF HandlerInv, Progress, Converting, HandlerTypeOK, PublishPlan, Goto
<1>3. \A q \in Requests : Looked(q)'
    BY DEF HandlerInv, Looked, Progress, Converting, HandlerTypeOK, PublishPlan, Goto
<1>4. CacheSound'
  <2> SUFFICES ASSUME NEW s \in Versions \cup {None}, NEW t \in Versions,
                      planCache'[<<s, t>>] # None
               PROVE  planCache'[<<s, t>>].target = t
    BY DEF CacheSound
  <2>1. <<s, t>> \in PlanKeys
    BY DEF PlanKeys
  <2>2. CASE <<s, t>> = PlanKey(r)
    <3>1. t = target[r]
      BY <2>2 DEF PlanKey
    <3>2. planCache'[<<s, t>>] = plan[r] /\ plan[r].target = target[r]
      BY <2>1, <2>2 DEF HandlerInv, HandlerTypeOK, Progress, PublishPlan
    <3> QED
      BY <3>1, <3>2
  <2>3. CASE <<s, t>> # PlanKey(r)
    BY <2>1, <2>3 DEF HandlerInv, HandlerTypeOK, CacheSound, PublishPlan
  <2> QED
    BY <2>2, <2>3
<1>5. OwnReport'
    BY DEF HandlerInv, OwnReport, HandlerTypeOK, PublishPlan, Goto
<1>6. Accounted'
  <2>1. /\ pc[r] = "publish" /\ UNCHANGED <<metrics, outcome>>
        /\ r \in Running <=> kind[r] = "morph"
        /\ \E l \in Converting : Goto(r, l)
    BY DEF PublishPlan, Running, Converting
  <2> QED
    BY <2>1, PlainMove DEF HandlerInv
<1> QED
    BY <1>1, <1>2, <1>3, <1>4, <1>5, <1>6 DEF HandlerInv

(* A request projects with its plan.                                       *)
LEMMA ApplyPlanInv ==
    ASSUME HandlerInv, NEW r \in Requests, ApplyPlan(r), UNCHANGED <<load, env, kind>>
    PROVE  HandlerInv'
<1>a. PICK p : p = RequestPlan(r)
    OBVIOUS
<1>b. /\ pc[r] = "apply" /\ plan[r] \in Plan /\ plan[r].target = target[r]
      /\ target[r] \in Versions
    BY DEF HandlerInv, Progress, Converting, ApplyPlan
<1>c. /\ p \in Plan /\ p.target = target[r]
      /\ kind[r] = "morph" => p.report = r
    BY <1>a, <1>b DEF RequestPlan, Plan
<1>d. /\ applied' = [applied EXCEPT ![r] = p]
      /\ reports' = IF p.report = None THEN reports
                    ELSE [reports EXCEPT ![p.report] = @ \cup {r}]
      /\ UNCHANGED <<form, versions, active, source, target, planCache, plan, current>>
    BY <1>a DEF ApplyPlan
<1>e. \/ /\ kind[r] = "morph" /\ Answer(r, "unprojectable")
         /\ metrics' = [[metrics EXCEPT !.convert = @ + 1] EXCEPT !.failures = @ + 1]
      \/ /\ kind[r] = "morph" /\ Goto(r, "encode")
         /\ metrics' = [metrics EXCEPT !.convert = @ + 1]
         /\ UNCHANGED outcome
      \/ /\ kind[r] = "event" /\ Answer(r, "ok")
         /\ UNCHANGED metrics
    BY DEF ApplyPlan, HandlerInv, HandlerTypeOK
<1>1. HandlerTypeOK'
  <2>1. reports' \in [Requests -> SUBSET Requests]
    BY <1>c, <1>d DEF HandlerInv, HandlerTypeOK, Plan
  <2>2. /\ pc' \in [Requests -> {"waiting", "serve", "source", "target", "decode",
                                 "load", "compile", "publish", "apply", "encode",
                                 "done"}]
        /\ outcome' \in [Requests -> Outcomes \cup {None}]
        /\ \A q \in Requests : pc'[q] = "done" <=> outcome'[q] # None
    BY <1>b, <1>e, GatewayAssumption
    DEF HandlerInv, HandlerTypeOK, Answer, Goto, Outcomes
  <2>3. metrics' \in [http : Nat, failures : Nat, parse : Nat, convert : Nat,
                      encode : Nat]
    BY <1>e, CountersTyped DEF HandlerInv, HandlerTypeOK
  <2> QED
    BY <1>c, <1>d, <2>1, <2>2, <2>3 DEF HandlerInv, HandlerTypeOK
<1>2. \A q \in Requests : Progress(q)'
    BY DEF HandlerInv, Progress, Converting, HandlerTypeOK, ApplyPlan, Answer, Goto, Outcomes
<1>3. \A q \in Requests : Looked(q)'
  <2>1. kind[r] = "morph" => target[r] \in current[r]
    BY <1>b, GatewayAssumption DEF HandlerInv, Looked
  <2>2. applied'[r] = p /\ \A q \in Requests \ {r} : /\ applied'[q] = applied[q]
                                                     /\ pc'[q] = pc[q]
    BY <1>d, <1>e DEF HandlerInv, HandlerTypeOK, Answer, Goto
  <2> QED
    BY <1>b, <1>c, <1>d, <2>1, <2>2 DEF HandlerInv, Looked
<1>4. CacheSound'
    BY <1>d DEF HandlerInv, CacheSound
<1>5. OwnReport'
    BY <1>c, <1>d DEF HandlerInv, OwnReport, HandlerTypeOK
<1>6. Accounted'
  <2>1. Accounted /\ HandlerTypeOK /\ (r \in Running <=> kind[r] = "morph")
    BY <1>b DEF HandlerInv, Running, Converting
  <2>2. CASE kind[r] = "morph" /\ Answer(r, "unprojectable")
             /\ metrics' = [[metrics EXCEPT !.convert = @ + 1] EXCEPT !.failures = @ + 1]
    BY <1>b, <2>1, <2>2, CountedFailure DEF Outcomes, Unencoded, Failed, HandlerTypeOK
  <2>3. CASE /\ kind[r] = "morph" /\ Goto(r, "encode")
             /\ metrics' = [metrics EXCEPT !.convert = @ + 1]
             /\ UNCHANGED outcome
    <3>1. UNCHANGED <<metrics.parse, metrics.encode, metrics.failures>>
      BY <2>1, <2>3 DEF HandlerTypeOK
    <3> QED
      BY <2>1, <2>3, <3>1, PlainMove
  <2>4. CASE kind[r] = "event" /\ Answer(r, "ok") /\ UNCHANGED metrics
    BY <1>b, <2>1, <2>4, PlainAnswer DEF Outcomes, Unencoded, Failed
  <2> QED
    BY <1>e, <2>2, <2>3, <2>4
<1> QED
    BY <1>1, <1>2, <1>3, <1>4, <1>5, <1>6 DEF HandlerInv

(* A conversion encodes its result.                                        *)
LEMMA EncodeInv ==
    ASSUME HandlerInv, NEW r \in Requests, Encode(r), UNCHANGED <<load, env, kind>>
    PROVE  HandlerInv'
<1>a. /\ pc[r] = "encode"
      /\ UNCHANGED <<form, versions, active, source, target, planCache, plan,
                     applied, reports, current>>
      /\ \/ /\ Answer(r, "refused")
            /\ metrics' = [metrics EXCEPT !.failures = @ + 1]
         \/ /\ Answer(r, "unencodable")
            /\ metrics' = [[metrics EXCEPT !.failures = @ + 1] EXCEPT !.encode = @ + 1]
         \/ /\ Answer(r, "ok")
            /\ metrics' = [metrics EXCEPT !.encode = @ + 1]
    BY DEF Encode, HandlerInv, HandlerTypeOK
<1>1. HandlerTypeOK'
  <2>1. \E o \in Outcomes : Answer(r, o)
    BY <1>a DEF Outcomes
  <2>2. metrics' \in [http : Nat, failures : Nat, parse : Nat, convert : Nat,
                      encode : Nat]
    BY <1>a, CountersTyped DEF HandlerInv, HandlerTypeOK
  <2> QED
    BY <1>a, <2>1, <2>2, GatewayAssumption DEF HandlerInv, HandlerTypeOK, Answer, Goto
<1>2. \A q \in Requests : Progress(q)'
    BY DEF HandlerInv, Progress, Converting, HandlerTypeOK, Encode, Answer, Goto, Outcomes
<1>3. \A q \in Requests : Looked(q)'
    BY DEF HandlerInv, Looked, Progress, Converting, HandlerTypeOK, Encode, Answer, Goto, Outcomes
<1>4. CacheSound'
    BY DEF HandlerInv, CacheSound, HandlerTypeOK, Encode, Answer, Goto, Outcomes
<1>5. OwnReport'
    BY DEF HandlerInv, OwnReport, HandlerTypeOK, Encode, Answer, Goto, Outcomes
<1>6. Accounted'
  <2>1. Accounted /\ HandlerTypeOK /\ r \in Running /\ pc[r] = "encode"
    BY <1>a DEF HandlerInv, Progress, Running, Converting
  <2>2. CASE Answer(r, "refused") /\ metrics' = [metrics EXCEPT !.failures = @ + 1]
    BY <2>1, <2>2, CountedFailure DEF Outcomes, Unencoded, Failed, HandlerTypeOK
  <2>3. CASE \/ /\ Answer(r, "unencodable")
                /\ metrics' = [[metrics EXCEPT !.failures = @ + 1] EXCEPT !.encode = @ + 1]
             \/ /\ Answer(r, "ok")
                /\ metrics' = [metrics EXCEPT !.encode = @ + 1]
    <3>1. /\ metrics'.parse = metrics.parse /\ metrics'.encode = metrics.encode + 1
          /\ metrics.encode \in Nat /\ metrics.failures \in Nat
          /\ Answer(r, "unencodable") => metrics'.failures = metrics.failures + 1
          /\ ~Answer(r, "unencodable") => metrics'.failures = metrics.failures
      BY <2>1, <2>3 DEF HandlerTypeOK, Answer
    <3>2. PICK o \in {"unencodable", "ok"} : Answer(r, o)
      BY <2>3
    <3>3. o \in Outcomes /\ o \notin Unencoded /\ (o \in Failed <=> o = "unencodable")
      BY DEF Outcomes, Unencoded, Failed
    <3>4. o = "unencodable" <=> Answer(r, "unencodable")
      BY <2>1, <3>2 DEF Answer, HandlerTypeOK
    <3>5. /\ Running' = Running \ {r}
          /\ r \notin Answered(Failed)
          /\ Answered(Unencoded)' = Answered(Unencoded)
          /\ Answered(Failed)' = IF o \in Failed THEN Answered(Failed) \cup {r}
                                                 ELSE Answered(Failed)
      BY <2>1, <3>2, <3>3, AnswerEndsRunning, AnsweredBoth
    <3>6. /\ IsFiniteSet(Running \ {r}) /\ Cardinality(Running) \in Nat
          /\ Cardinality(Running \ {r}) = Cardinality(Running) - 1
      BY <2>1, OneLess DEF Accounted
    <3>7. /\ IsFiniteSet(Answered(Failed) \cup {r})
          /\ Cardinality(Answered(Failed) \cup {r}) = Cardinality(Answered(Failed)) + 1
      BY <2>1, <3>5, OneMore DEF Accounted
    <3>8. Cardinality(Answered(Unencoded)) \in Nat
      BY <2>1, FS_CardinalityType DEF Accounted
    <3> QED
      BY <2>1, <3>1, <3>3, <3>4, <3>5, <3>6, <3>7, <3>8 DEF Accounted
  <2> QED
    BY <1>a, <2>2, <2>3
<1> QED
    BY <1>1, <1>2, <1>3, <1>4, <1>5, <1>6 DEF HandlerInv

-----------------------------------------------------------------------------
(* The limiter's steps leave the handlers alone.                           *)
LEMMA HandlerKept ==
    HandlerInv /\ UNCHANGED <<load, env, kind, handlerVars>> => HandlerInv'
<1> SUFFICES ASSUME HandlerInv, UNCHANGED <<load, env, kind, handlerVars>>
             PROVE  HandlerInv'
    OBVIOUS
<1>1. UNCHANGED <<load, env, kind, pc, form, versions, active, source, target,
                  planCache, plan, applied, reports, outcome, metrics, current>>
    BY DEF handlerVars
<1>2. HandlerTypeOK'
    BY <1>1 DEF HandlerInv, HandlerTypeOK
<1>3. (\A r \in Requests : Progress(r) /\ Looked(r))' /\ CacheSound' /\ OwnReport'
    BY <1>1 DEF HandlerInv, Progress, Looked, CacheSound, OwnReport
<1>4. Running' = Running /\ Answered(Unencoded)' = Answered(Unencoded)
      /\ Answered(Failed)' = Answered(Failed)
    BY <1>1 DEF Running, Answered, Unencoded, Failed
<1>5. Accounted'
    BY <1>1, <1>4, AccountedKept DEF HandlerInv
<1> QED
    BY <1>2, <1>3, <1>5 DEF HandlerInv

(* A server that has served nothing yet.                                   *)
LEMMA HandlerInitInv == Init => HandlerInv
<1> SUFFICES ASSUME Init PROVE HandlerInv
    OBVIOUS
<1>1. load \in Workloads /\ load.kinds \subseteq Kinds /\ load.stored \subseteq Versions
    BY GatewayAssumption DEF Init
<1>2. HandlerTypeOK
    BY <1>1, GatewayAssumption DEF Init, HandlerTypeOK
<1>3. (\A r \in Requests : Progress(r) /\ Looked(r)) /\ OwnReport
    BY DEF Init, Progress, Looked, OwnReport, Converting
<1>4. CacheSound
    BY DEF Init, CacheSound, PlanKeys
<1>5. Running = {} /\ Answered(Unencoded) = {} /\ Answered(Failed) = {}
    BY GatewayAssumption
    DEF Init, Running, Converting, Answered, Unencoded, Failed, Outcomes
<1>6. Accounted
    BY <1>5, FS_EmptySet DEF Init, Accounted
<1> QED
    BY <1>2, <1>3, <1>4, <1>6 DEF HandlerInv

(* Every step keeps the handlers' invariant.                               *)
LEMMA HandlerNextInv == HandlerInv /\ [Next]_vars => HandlerInv'
<1> SUFFICES ASSUME HandlerInv, [Next]_vars PROVE HandlerInv'
    OBVIOUS
<1>1. CASE UNCHANGED <<load, env, kind, handlerVars>>
    BY <1>1, HandlerKept
<1>2. ASSUME NEW r \in Requests, HandlerStep(r), UNCHANGED <<load, env, kind>>
      PROVE  HandlerInv'
    BY <1>2, DispatchInv, RegisterSchemaInv, ActivateSchemaInv, LookupSourceInv,
       LookupTargetInv, DecodeInv, ReceiveEventInv, LoadPlanInv, CompilePlanInv,
       PublishPlanInv, ApplyPlanInv, EncodeInv DEF HandlerStep
<1> QED
    BY <1>1, <1>2 DEF Next, vars

-----------------------------------------------------------------------------
(* The gateway runs the rate limiter: each of its steps is a step of the   *)
(* limiter or leaves the limiter alone.                                    *)
THEOREM GatewayRunsLimiter == Spec => LimiterSpec
<1>1. Init => LimiterInit
    BY DEF Init
<1>2. [Next]_vars => [LimiterNext]_limiterVars
    BY DEF Next, vars, LimiterNext
<1> QED
    BY <1>1, <1>2, PTL DEF Spec, LimiterSpec

(* Type correctness of the gateway, the limiter and the handlers.          *)
THEOREM GatewayTyped == Spec => []TypeOK
<1>1. HandlerInv /\ LimiterTypeOK => TypeOK
    BY DEF HandlerInv, TypeOK
<1> QED
    BY <1>1, HandlerInitInv, HandlerNextInv, GatewayRunsLimiter, LimiterCorrect,
       PTL DEF Spec

(* However late its requests get the lock, a key is granted at most twice  *)
(* the limit within the length of a window (time read before l.mu.Lock).   *)
THEOREM GatewayBurstBound == Spec => []BurstBound
    BY GatewayRunsLimiter, LimiterCorrect, PTL

(* Whoever is answered 429 has used up the window of its own key.          *)
THEOREM GatewayLimitedByOwnKey == Spec => []LimitedByOwnKey
    BY GatewayRunsLimiter, LimiterCorrect, PTL

(* Whoever waits for the seconds of Retry-After meets a new window.        *)
THEOREM GatewayRetryMeetsNewWindow == Spec => []RetryMeetsNewWindow
    BY GatewayRunsLimiter, LimiterCorrect, PTL

(* Whatever plan it finds in the cache, a conversion projects to a version *)
(* that was active while it was served (GetOrCompilePlan).                 *)
THEOREM GatewayFreshVersions == Spec => []FreshVersions
<1>1. HandlerInv => FreshVersions
    BY DEF HandlerInv, Looked, FreshVersions
<1> QED
    BY <1>1, HandlerInitInv, HandlerNextInv, PTL DEF Spec

(* No conversion writes to the report of another one (the copy of the      *)
(* plan in morphHandler).                                                  *)
THEOREM GatewayOwnReport == Spec => []OwnReport
<1>1. HandlerInv => OwnReport
    BY DEF HandlerInv
<1> QED
    BY <1>1, HandlerInitInv, HandlerNextInv, PTL DEF Spec

(* The counters account for every decoded conversion, however many         *)
(* requests there are and whatever the others do meanwhile.                *)
THEOREM GatewayMetricsAddUp == Spec => []MetricsAddUp
<1>1. HandlerInv => MetricsAddUp
  <2>1. Running = {r \in Requests : /\ kind[r] = "morph"
                                    /\ pc[r] \in {"load", "compile", "publish",
                                                  "apply", "encode"}}
    BY DEF Running, Converting
  <2> QED
    BY <2>1 DEF HandlerInv, Accounted, Answered, Unencoded, Failed, MetricsAddUp
<1> QED
    BY <1>1, HandlerInitInv, HandlerNextInv, PTL DEF Spec

=============================================================================
