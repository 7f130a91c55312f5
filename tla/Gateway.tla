------------------------------ MODULE Gateway ------------------------------
(***************************************************************************)
(* The HTTP requests of cmd/server/main.go behind the rate limiter:        *)
(* authentication, the schema handlers, conversion (morphHandler) with the *)
(* cache of transformation plans (internal/uir/plan.go), and the events    *)
(* whose projection in the broker uses the same cache.  Requests run       *)
(* concurrently; each pc value is a point where others may run.            *)
(*                                                                         *)
(* One schema name with several versions stands for all of them: requests  *)
(* about different names share no state but the counters.  Registry.tla    *)
(* has the registry in detail; here a version is registered and active as  *)
(* soon as its request is served.                                          *)
(***************************************************************************)
EXTENDS RateLimiter, TLC

CONSTANTS
    Versions,   \* versions of the schema that may be registered
    Token,      \* the credential that OMNI_API_TOKEN names
    Workloads   \* what a run includes: the kinds of its requests and what
                \* they ask for, who sends them, the last tick of its clock,
                \* what is stored first, whether the settings vary

Kinds == {"health", "register", "activate", "morph", "event"}

(* What a conversion asks for: its target format, and whether it names a   *)
(* source and a target schema.                                             *)
Forms == [format : {"json", "protobuf"}, source : BOOLEAN, target : BOOLEAN]

(* How a request is answered.                                              *)
Outcomes == {"ok", "unauthorized", "notfound", "badinput", "undecodable",
             "badtype", "unprojectable", "refused", "unencodable"}

ASSUME GatewayAssumption ==
    /\ None \notin Versions /\ None \notin Outcomes
    /\ \A w \in Workloads : /\ w.kinds \subseteq Kinds /\ w.forms \subseteq Forms
                            /\ w.clients \subseteq Clients /\ w.until \in Nat
                            /\ w.stored \subseteq Versions
                            /\ w.settings \in BOOLEAN

VARIABLES
    load,       \* the workload of this behaviour
    env,        \* OMNI_ENV = production, and whether OMNI_API_TOKEN is set
    kind,       \* the route of each request
    pc,         \* where its handler is
    form,       \* what a conversion asks for
    versions,   \* the registered versions
    active,     \* the active one
    source,     \* the source version a conversion has looked up
    target,     \* the target version it, or an event's subscription, uses
    planCache,  \* uir.planCache
    plan,       \* the plan a request works with
    applied,    \* the plan it has projected with
    reports,    \* each conversion's report: the projections that wrote to it
    outcome,    \* how a request was answered
    metrics,    \* the counters and the counts of the histograms
    current     \* history: the versions active while a request was served

handlerVars == <<pc, form, versions, active, source, target, planCache, plan,
                 applied, reports, outcome, metrics, current>>
vars == <<limiterVars, load, env, kind, handlerVars>>

(* PlanCacheKey: names and types are fixed, so the versions tell keys      *)
(* apart.  CompilePlan stores under the names of two nodes besides.        *)
NameKey == <<"names">>
PlanKeys == {NameKey} \cup ((Versions \cup {None}) \X Versions)

Plan == [target : Versions, emitNull : BOOLEAN, report : Requests \cup {None}]

Init ==
    /\ LimiterInit
    /\ load \in Workloads
    /\ env \in [production : BOOLEAN, token : BOOLEAN]
    /\ load.settings \/ env = [production |-> FALSE, token |-> FALSE]
    /\ kind \in [Requests -> load.kinds]
    /\ pc = [r \in Requests |-> "waiting"]
    /\ form = [r \in Requests |-> None]
    /\ versions = load.stored           \* as the registry's file has them
    /\ active \in IF versions = {} THEN {None} ELSE versions
    /\ source = [r \in Requests |-> None]
    /\ target = [r \in Requests |-> None]
    /\ planCache = [k \in PlanKeys |-> None]
    /\ plan = [r \in Requests |-> None]
    /\ applied = [r \in Requests |-> None]
    /\ reports = [r \in Requests |-> {}]
    /\ outcome = [r \in Requests |-> None]
    /\ metrics = [http |-> 0, failures |-> 0, parse |-> 0, convert |-> 0,
                  encode |-> 0]
    /\ current = [r \in Requests |-> {}]

HandlerTypeOK ==
    /\ load \in Workloads
    /\ env \in [production : BOOLEAN, token : BOOLEAN]
    /\ kind \in [Requests -> Kinds]
    /\ pc \in [Requests -> {"waiting", "serve", "source", "target", "decode",
                            "load", "compile", "publish", "apply", "encode",
                            "done"}]
    /\ form \in [Requests -> Forms \cup {None}]
    /\ versions \subseteq Versions
    /\ active \in versions \cup {None}
    /\ source \in [Requests -> Versions \cup {None}]
    /\ target \in [Requests -> Versions \cup {None}]
    /\ planCache \in [PlanKeys -> Plan \cup {None}]
    /\ plan \in [Requests -> Plan \cup {None}]
    /\ applied \in [Requests -> Plan \cup {None}]
    /\ reports \in [Requests -> SUBSET Requests]
    /\ outcome \in [Requests -> Outcomes \cup {None}]
    /\ \A r \in Requests : pc[r] = "done" <=> outcome[r] # None
    /\ metrics \in [http : Nat, failures : Nat, parse : Nat, convert : Nat,
                    encode : Nat]
    /\ current \in [Requests -> SUBSET (Versions \cup {None})]

TypeOK == LimiterTypeOK /\ HandlerTypeOK

-----------------------------------------------------------------------------
Goto(r, l) == pc' = [pc EXCEPT ![r] = l]

Answer(r, o) ==
    /\ Goto(r, "done")
    /\ outcome' = [outcome EXCEPT ![r] = o]

(* A version becomes active; every request in progress may have seen it.   *)
MakeActive(v) ==
    /\ active' = v
    /\ current' = [r \in Requests |-> IF pc[r] \in {"waiting", "done"}
                                      THEN current[r] ELSE current[r] \cup {v}]

(* requireSensitiveAuth with writeAuthOK.  Neither the health routes nor   *)
(* the metrics pass through it.                                            *)
Authorized(c) ==
    /\ env.production => env.token
    /\ env.token => c.credential = Token

(* The mux: the middleware lets the request through to its handler.        *)
Dispatch(r) ==
    /\ stage[r] = "admitted" /\ pc[r] = "waiting"
    /\ \/ kind[r] = "health" /\ Answer(r, "ok")
       \/ /\ kind[r] # "health" /\ ~ Authorized(from[r])
          /\ Answer(r, "unauthorized")
       \/ /\ kind[r] # "health" /\ Authorized(from[r])
          /\ Goto(r, IF kind[r] = "morph" THEN "source" ELSE "serve")
          /\ UNCHANGED outcome
    /\ \E f \in load.forms :
         form' = IF pc'[r] = "source" THEN [form EXCEPT ![r] = f] ELSE form
    /\ current' = [current EXCEPT ![r] = {active}]
    /\ UNCHANGED <<versions, active, source, target, planCache, plan, applied,
                   reports, metrics>>

-----------------------------------------------------------------------------
(* The schema handlers.                                                    *)

(* schemaHandler: an upload that parses is registered and active.          *)
RegisterSchema(r) ==
    /\ kind[r] = "register" /\ pc[r] = "serve"
    /\ \/ /\ Answer(r, "badinput")
          /\ UNCHANGED <<versions, active, current, metrics>>
       \/ \E v \in Versions :
            /\ versions' = versions \cup {v}
            /\ MakeActive(v)
            /\ metrics' = [metrics EXCEPT !.http = @ + 1]
            /\ Answer(r, "ok")
    /\ UNCHANGED <<form, source, target, planCache, plan, applied, reports>>

(* The defect: any version can be activated.                               *)
ActivateSchemaUnchecked(r) ==
    /\ kind[r] = "activate" /\ pc[r] = "serve"
    /\ \E v \in Versions : MakeActive(v) /\ Answer(r, "ok")
    /\ UNCHANGED <<form, versions, source, target, planCache, plan, applied,
                   reports, metrics>>

(* schemaActivateHandler.  Deprecation, listing and comparison of versions *)
(* change neither the versions nor which one is active.                    *)
ActivateSchema(r) ==
    /\ kind[r] = "activate" /\ pc[r] = "serve"
    /\ \E v \in Versions :
         IF v \in versions
         THEN MakeActive(v) /\ Answer(r, "ok")
         ELSE Answer(r, "badinput") /\ UNCHANGED <<active, current>>
    /\ UNCHANGED <<form, versions, source, target, planCache, plan, applied,
                   reports, metrics>>

-----------------------------------------------------------------------------
(* Conversion.                                                             *)

LookupSource(r) ==
    /\ pc[r] = "source"
    /\ source' = [source EXCEPT ![r] = IF form[r].source THEN active ELSE None]
    /\ metrics' = [metrics EXCEPT !.http = @ + 1]
    /\ Goto(r, "target")
    /\ UNCHANGED <<form, versions, active, target, planCache, plan, applied,
                   reports, outcome, current>>

(* The active version may have changed since the first lookup.             *)
LookupTarget(r) ==
    LET t == IF form[r].target THEN active ELSE None
    IN  /\ pc[r] = "target"
        /\ target' = [target EXCEPT ![r] = t]
        /\ IF \/ form[r].source /\ source[r] = None
              \/ form[r].target /\ t = None
           THEN Answer(r, "notfound")
           ELSE Goto(r, "decode") /\ UNCHANGED outcome
        /\ UNCHANGED <<form, versions, active, source, planCache, plan, applied,
                       reports, metrics, current>>

(* readMorphBody, morphFormats, the codecs, and DecodePayload.  With a     *)
(* target schema its payload type must resolve.                            *)
Decode(r) ==
    /\ pc[r] = "decode"
    /\ \/ Answer(r, "badinput") /\ UNCHANGED metrics
       \/ /\ metrics' = [metrics EXCEPT !.parse = @ + 1]
          /\ \/ Answer(r, "undecodable")
             \/ target[r] # None /\ Answer(r, "badtype")
             \/ /\ Goto(r, IF target[r] = None THEN "encode" ELSE "load")
                /\ UNCHANGED outcome
    /\ UNCHANGED <<form, versions, active, source, target, planCache, plan,
                   applied, reports, current>>

(* devEventHandler counts an event after its method and its sender are     *)
(* checked and before its body is read.  The event reaches                 *)
(* projectEventToNode for a subscription bound to one of the registered    *)
(* versions, which may have been any one.                                  *)
ReceiveEvent(r) ==
    /\ kind[r] = "event" /\ pc[r] = "serve"
    /\ \/ Answer(r, "badinput") /\ UNCHANGED <<source, target, metrics>>
       \/ /\ metrics' = [metrics EXCEPT !.http = @ + 1]
          /\ \/ Answer(r, "badinput") /\ UNCHANGED <<source, target>>
             \/ \E v \in versions :
                  /\ source' = [source EXCEPT ![r] = v]
                  /\ target' = [target EXCEPT ![r] = v]
                  /\ Goto(r, "load")
                  /\ UNCHANGED outcome
    /\ UNCHANGED <<form, versions, active, planCache, plan, applied, reports,
                   current>>

(* The defect: the key has the names only.                                 *)
PlanKeyUnversioned(r) == NameKey

PlanKey(r) == <<source[r], target[r]>>

(* The options of a conversion, and those of an event.                     *)
EmitNull(r) == kind[r] = "morph" => form[r].format # "protobuf"

(* GetOrCompilePlan: what is cached under the key is taken as it is.       *)
LoadPlan(r) ==
    LET p == planCache[PlanKey(r)]
    IN  /\ pc[r] = "load"
        /\ plan' = [plan EXCEPT ![r] = p]
        /\ Goto(r, IF p = None THEN "compile" ELSE "apply")
        /\ UNCHANGED <<form, versions, active, source, target, planCache,
                       applied, reports, outcome, metrics, current>>

CompilePlan(r) ==
    LET p == [target |-> target[r], emitNull |-> EmitNull(r),
              report |-> IF kind[r] = "morph" THEN r ELSE None]
    IN  /\ pc[r] = "compile"
        /\ plan' = [plan EXCEPT ![r] = p]
        /\ planCache' = [planCache EXCEPT ![NameKey] = p]
        /\ Goto(r, "publish")
        /\ UNCHANGED <<form, versions, active, source, target, applied, reports,
                       outcome, metrics, current>>

PublishPlan(r) ==
    /\ pc[r] = "publish"
    /\ planCache' = [planCache EXCEPT ![PlanKey(r)] = plan[r]]
    /\ Goto(r, "apply")
    /\ UNCHANGED <<form, versions, active, source, target, plan, applied,
                   reports, outcome, metrics, current>>

(* The defect: conversions use the report of the cached plan.              *)
RequestPlanShared(r) == plan[r]

(* A conversion works on a copy of the plan with a report of its own; an   *)
(* event works on the cached plan itself.                                  *)
RequestPlan(r) ==
    IF kind[r] = "morph" THEN [plan[r] EXCEPT !.report = r] ELSE plan[r]

(* The defect: a failed projection is not counted.                         *)
ApplyPlanUncounted(r) ==
    LET p == RequestPlan(r)
    IN  /\ pc[r] = "apply"
        /\ applied' = [applied EXCEPT ![r] = p]
        /\ reports' = IF p.report = None THEN reports
                      ELSE [reports EXCEPT ![p.report] = @ \cup {r}]
        /\ metrics' = IF kind[r] = "morph"
                      THEN [metrics EXCEPT !.convert = @ + 1] ELSE metrics
        /\ \/ Answer(r, "unprojectable")
           \/ kind[r] = "morph" /\ Goto(r, "encode") /\ UNCHANGED outcome
           \/ kind[r] = "event" /\ Answer(r, "ok")
        /\ UNCHANGED <<form, versions, active, source, target, planCache, plan,
                       current>>

(* ApplyPlan; the report of the plan may be another conversion's.          *)
ApplyPlan(r) ==
    LET p == RequestPlan(r)
        counted == [metrics EXCEPT !.convert = @ + 1]
    IN  /\ pc[r] = "apply"
        /\ applied' = [applied EXCEPT ![r] = p]
        /\ reports' = IF p.report = None THEN reports
                      ELSE [reports EXCEPT ![p.report] = @ \cup {r}]
        /\ \/ /\ kind[r] = "morph" /\ Answer(r, "unprojectable")
              /\ metrics' = [counted EXCEPT !.failures = @ + 1]
           \/ /\ kind[r] = "morph" /\ Goto(r, "encode")
              /\ metrics' = counted
              /\ UNCHANGED outcome
           \/ /\ kind[r] = "event" /\ Answer(r, "ok")
              /\ UNCHANGED metrics
        /\ UNCHANGED <<form, versions, active, source, target, planCache, plan,
                       current>>

(* ValidateCBORTarget refuses before the encoding is timed; an error of    *)
(* the encoder or an empty result is found after it.                       *)
Encode(r) ==
    LET failed == [metrics EXCEPT !.failures = @ + 1]
    IN  /\ pc[r] = "encode"
        /\ \/ Answer(r, "refused") /\ metrics' = failed
           \/ Answer(r, "unencodable") /\ metrics' = [failed EXCEPT !.encode = @ + 1]
           \/ Answer(r, "ok") /\ metrics' = [metrics EXCEPT !.encode = @ + 1]
        /\ UNCHANGED <<form, versions, active, source, target, planCache, plan,
                       applied, reports, current>>

HandlerStep(r) ==
    \/ Dispatch(r)
    \/ RegisterSchema(r)
    \/ ActivateSchema(r)
    \/ LookupSource(r)
    \/ LookupTarget(r)
    \/ Decode(r)
    \/ ReceiveEvent(r)
    \/ LoadPlan(r)
    \/ CompilePlan(r)
    \/ PublishPlan(r)
    \/ ApplyPlan(r)
    \/ Encode(r)

Next ==
    \/ /\ \/ Tick /\ clock < load.until
          \/ \E r \in Requests : LimiterStep(r) /\ from'[r] \in load.clients
       /\ UNCHANGED <<load, env, kind, handlerVars>>
    \/ /\ \E r \in Requests : HandlerStep(r)
       /\ UNCHANGED <<limiterVars, load, env, kind>>

Spec == Init /\ [][Next]_vars

-----------------------------------------------------------------------------
(* A conversion projects to a version of its schema that was active while  *)
(* it was served, whatever plan it finds in the cache (GetOrCompilePlan):  *)
(* once an activation has been answered, no old plan is used.              *)
FreshVersions ==
    \A r \in Requests : kind[r] = "morph" /\ applied[r] # None =>
        /\ applied[r].target \in current[r]
        /\ source[r] \in current[r] \cup {None}

(* "Cached plans must not retain a report shared by concurrent requests":  *)
(* no other conversion writes to the report a conversion answers with.     *)
(* An event may: it works on the cached plan, which keeps the report of    *)
(* the conversion that compiled it.                                        *)
OwnReport ==
    \A q, r \in Requests : kind[q] = "morph" /\ q \in reports[r] => q = r

(* Every conversion that was decoded is accounted for: encoded, refused by *)
(* its type or its projection, refused for its target, or still running;   *)
(* and every failed one is counted once (main.go's counters).              *)
MetricsAddUp ==
    LET Number(S) == Cardinality({r \in Requests : outcome[r] \in S})
        running == {r \in Requests : /\ kind[r] = "morph"
                                     /\ pc[r] \in {"load", "compile", "publish",
                                                   "apply", "encode"}}
    IN  /\ metrics.parse = metrics.encode + Cardinality(running)
             + Number({"undecodable", "badtype", "unprojectable", "refused"})
        /\ metrics.failures = Number({"unprojectable", "refused", "unencodable"})

(* "Missing fields may become null, except for Protobuf and Cap'n Proto    *)
(* output" (API_DOCUMENTATION.md): the plan a Protobuf conversion works    *)
(* with does not ask for nulls.                                            *)
NoNullsForProtobuf ==
    \A r \in Requests :
        kind[r] = "morph" /\ applied[r] # None /\ form[r].format = "protobuf"
          => ~ applied[r].emitNull

=============================================================================
