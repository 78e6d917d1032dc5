----------------------- MODULE RequestPipelineProofs ------------------------
(***************************************************************************)
(* Proofs about RequestPipeline, for any finite number of requests, any    *)
(* clients, inputs and deployments: the gauge, the guards of the services, *)
(* the answers of readiness and the limiter.                               *)
(***************************************************************************)
EXTENDS RequestPipeline, FiniteSetTheorems, TLAPS

USE RequestAssumption

(* What a middleware or a handler knows of the request it goes on with.    *)
Base(q) ==
  /\ q \in RequestType /\ q.in \in InputType /\ MeterShape(q)
  /\ q.pc # "flushed" /\ q.status = 0

(* a is what a step makes of q: the invariant holds of it, the gauge need  *)
(* not change, and it is not refused by the limiter.                       *)
Follows(q, a) ==
  /\ a \in RequestType /\ RequestInv(a)
  /\ Counted(a) <=> Counted(q)
  /\ a.status # 429

(* Readiness checks are of known dependencies.                             *)
LEMMA ChecksAreDependencies == Checks \subseteq Dependencies
BY DEF Checks, HealthChecks, Dependencies, When

(* An answer of any status that readiness may give.                        *)
LEMMA AnsweredShape ==
  ASSUME NEW q, Base(q), NEW status \in Nat, NEW shape \in {"envelope", "plain"},
         q.in.route = "ready" =>
           /\ status = 200 => Checks \subseteq q.met
           /\ status = 503 => q.missed # {}
  PROVE  LET a == Answered(q, status, shape) IN
         /\ a \in RequestType /\ RequestInv(a) /\ (Counted(a) <=> Counted(q))
         /\ a.status = status
<1>. DEFINE a == Answered(q, status, shape)
<1>1. /\ a \in RequestType
      /\ a.pc = (IF q.open THEN "answered" ELSE "over") /\ a.status = status
      /\ a.in = q.in /\ a.open = q.open /\ a.metered = q.metered
      /\ a.late = q.late /\ a.recorded = q.recorded
      /\ a.met = q.met /\ a.missed = q.missed
  BY DEF Answered, Base, RequestType, Steps
<1>. HIDE DEF a
<1>2. StepShape(a) /\ CheckShape(a) /\ ServiceInv(a)
  BY <1>1 DEF Base, StepShape, CheckShape, ServiceInv, Handling
<1>3. MeterShape(a) /\ (Counted(a) <=> Counted(q))
  BY <1>1 DEF Base, MeterShape, Counted, Waiting
<1>4. ReadinessInv(a)
  BY <1>1 DEF ReadinessInv
<1>. QED  BY <1>1, <1>2, <1>3, <1>4 DEF RequestInv, a

Refusals == {400, 401, 403, 404, 409, 422, 500}

(* An error, in the envelope or without: readiness gives none of these.    *)
LEMMA RefusalShape ==
  ASSUME NEW q, Base(q), NEW status \in Refusals,
         NEW shape \in {"envelope", "plain"}
  PROVE  Follows(q, Answered(q, status, shape))
<1>1. status \in Nat /\ status # 200 /\ status # 503 /\ status # 429
  BY DEF Refusals
<1>. QED  BY <1>1, AnsweredShape DEF Follows

(* A request goes on to another await than the readiness checks.           *)
LEMMA MovedShape ==
  ASSUME NEW q, Base(q), NEW pc \in Handling \ {"checks"},
         pc = "cors" => PolicyAwaits,
         pc \in {"cors", "body"} => ~q.metered /\ ~q.late /\ q.failed = {},
         pc \in {"limit", "verify", "service"} =>
           q.in.route \notin Unlimited /\ q.in.body # "malformed",
         pc = "verify" => q.in.route # "auth",
         pc = "render" => q.in.route = "metrics",
         pc = "service" =>
           /\ q.in.route = "createUser" => q.in.token = "admin" /\ q.in.valid
           /\ q.in.route = "getUser" => q.in.token \in {"self", "admin"}
           /\ q.in.route = "me" => q.in.token \in {"other", "self", "admin"}
           /\ q.in.route = "auth" => settings.AUTH_ENABLED /\ q.in.body = "whole"
  PROVE  Follows(q, [q EXCEPT !.pc = pc])
<1>. DEFINE a == [q EXCEPT !.pc = pc]
<1>1. /\ a \in RequestType /\ a.pc = pc
      /\ a.in = q.in /\ a.open = q.open /\ a.metered = q.metered
      /\ a.late = q.late /\ a.recorded = q.recorded /\ a.status = q.status
      /\ a.failed = q.failed
  BY DEF Base, RequestType, Steps, Handling
<1>. HIDE DEF a
<1>2. StepShape(a) /\ CheckShape(a) /\ ServiceInv(a)
  BY <1>1 DEF Base, StepShape, CheckShape, ServiceInv, Handling
<1>3. MeterShape(a) /\ (Counted(a) <=> Counted(q)) /\ ReadinessInv(a)
  BY <1>1 DEF Base, MeterShape, Counted, Waiting, ReadinessInv, Handling
<1>. QED  BY <1>1, <1>2, <1>3 DEF RequestInv, Follows, Base, a

(* validate, for a request that the guards of its route have passed.       *)
LEMMA ValidatedShape ==
  ASSUME NEW q, Base(q),
         q.in.route \notin Unlimited, q.in.body # "malformed",
         q.in.route = "createUser" => q.in.token = "admin",
         q.in.route = "getUser" => q.in.token \in {"self", "admin"},
         q.in.route = "me" => q.in.token \in {"other", "self", "admin"},
         q.in.route = "auth" => settings.AUTH_ENABLED
  PROVE  Follows(q, Validated(q))
<1>1. Follows(q, Errored(q, TRUE, 422))
  BY RefusalShape DEF Errored, Enveloped, Refusals
<1>. DEFINE refused == q.in.route # "me"
              /\ (~q.in.valid \/ (q.in.body = "absent" /\ q.in.route # "getUser"))
<1>2. CASE refused
  BY <1>1, <1>2 DEF Validated
<1>3. CASE ~refused
  <2>1. Validated(q) = [q EXCEPT !.pc = "service"]
    BY <1>3 DEF Validated
  <2>2. q.in.body \in {"absent", "malformed", "whole"}
    BY DEF Base, InputType, Bodies
  <2>3. /\ q.in.route = "createUser" => q.in.valid
        /\ q.in.route = "auth" => q.in.body = "whole"
    BY <1>3, <2>2
  <2>. HIDE DEF refused
  <2>. QED  BY <2>1, <2>3, MovedShape DEF Handling
<1>. QED  BY <1>2, <1>3

(* The router, after the limiter.                                          *)
LEMMA RoutedShape ==
  ASSUME NEW q, Base(q), q.in.route \notin Unlimited, q.in.body # "malformed"
  PROVE  Follows(q, Routed(q))
<1>1. CASE ~Mounted(q.in.route)
  BY <1>1, RefusalShape DEF Routed, Errored, Enveloped, Refusals
<1>2. CASE Mounted(q.in.route) /\ q.in.route = "auth"
  BY <1>2, ValidatedShape DEF Routed, Mounted
<1>3. CASE Mounted(q.in.route) /\ q.in.route # "auth"
  <2>1. Routed(q) = IF q.in.token = "none" THEN Errored(q, TRUE, 401)
                                           ELSE [q EXCEPT !.pc = "verify"]
    BY <1>3 DEF Routed
  <2>2. Follows(q, Errored(q, TRUE, 401))
    BY RefusalShape DEF Errored, Enveloped, Refusals
  <2>3. Follows(q, [q EXCEPT !.pc = "verify"])
    BY <1>3, MovedShape DEF Handling
  <2>. QED  BY <2>1, <2>2, <2>3
<1>. QED  BY <1>1, <1>2, <1>3

(* Readiness begins: what is up answers now, what is not has been down.    *)
LEMMA ReadyBegins ==
  ASSUME NEW q, Base(q), q.failed = {}, q.in.route = "ready"
  PROVE  Follows(q, [q EXCEPT !.pc = "checks", !.pending = Checks,
                              !.met = {d \in Checks : up[d]},
                              !.missed = {d \in Checks : ~up[d]}])
<1>. DEFINE a == [q EXCEPT !.pc = "checks", !.pending = Checks,
                           !.met = {d \in Checks : up[d]},
                           !.missed = {d \in Checks : ~up[d]}]
<1>1. /\ a \in RequestType /\ a.pc = "checks"
      /\ a.in = q.in /\ a.open = q.open /\ a.metered = q.metered
      /\ a.late = q.late /\ a.recorded = q.recorded /\ a.status = q.status
      /\ a.failed = {} /\ a.pending = Checks
      /\ a.met = {d \in Checks : up[d]} /\ a.missed = {d \in Checks : ~up[d]}
  BY ChecksAreDependencies DEF Base, RequestType, Steps
<1>. HIDE DEF a
<1>2. StepShape(a) /\ CheckShape(a) /\ ServiceInv(a)
  BY <1>1 DEF Base, StepShape, CheckShape, ServiceInv, Handling
<1>3. MeterShape(a) /\ (Counted(a) <=> Counted(q)) /\ ReadinessInv(a)
  BY <1>1 DEF Base, MeterShape, Counted, Waiting, ReadinessInv
<1>. QED  BY <1>1, <1>2, <1>3 DEF RequestInv, Follows, Base, a

(* From apiResponse to the first await.                                    *)
LEMMA HandledShape ==
  ASSUME NEW q, Base(q), q.failed = {}, q.in.body # "malformed"
  PROVE  Follows(q, Handled(q))
<1>1. CASE q.in.route = "health"
  BY <1>1, AnsweredShape DEF Handled, Enveloped, Follows
<1>2. CASE q.in.route = "ready"
  BY <1>2, ReadyBegins DEF Handled
<1>3. CASE q.in.route = "metrics"
  <2>1. \A s \in {401, 404} : Follows(q, Answered(q, s, "plain"))
    BY <1>3, AnsweredShape DEF Follows
  <2>2. Follows(q, [q EXCEPT !.pc = "render"])
    BY <1>3, MovedShape DEF Handling
  <2>3. Handled(q) = MetricsRoute(q)
    BY <1>3 DEF Handled
  <2>. QED  BY <2>1, <2>2, <2>3 DEF MetricsRoute
<1>4. CASE q.in.route \notin Unlimited
  <2>1. Handled(q) = [q EXCEPT !.pc = "limit"]
    BY <1>4 DEF Handled, Unlimited
  <2>. QED  BY <1>4, <2>1, MovedShape DEF Handling
<1>. QED  BY <1>1, <1>2, <1>3, <1>4 DEF Unlimited

-----------------------------------------------------------------------------
(* Steps.                                                                  *)

(* The invariant holds initially.                                          *)
LEMMA PipelineInitInv == PipelineInit => PipelineInv
<1>. SUFFICES ASSUME PipelineInit PROVE PipelineInv
  OBVIOUS
<1>1. NewRequest \in RequestType
  BY DEF NewRequest, RequestType, Steps
<1>2. PipelineTypeOK
  BY <1>1, DeploymentAssumption DEF PipelineTypeOK, PipelineInit
<1>3. RequestInv(NewRequest) /\ ~Counted(NewRequest)
  BY DEF RequestInv, NewRequest, StepShape, MeterShape, CheckShape, ServiceInv,
         ReadinessInv, NoInput, Counted, Waiting
<1>4. \A r \in Requests : req[r] = NewRequest
  BY DEF PipelineInit
<1>5. ActiveCountsCounted
  <2>1. {r \in Requests : Counted(req[r])} = {}
    BY <1>3, <1>4
  <2>. QED  BY <2>1, FS_EmptySet DEF ActiveCountsCounted, PipelineInit
<1>6. \A r \in Requests : RequestInv(req[r])
  BY <1>3, <1>4
<1>. QED  BY <1>2, <1>5, <1>6 DEF PipelineInv, PipelineInit

(* The gauge follows one request.                                          *)
LEMMA CountStep ==
  ASSUME ActiveCountsCounted, req \in [Requests -> RequestType],
         NEW r \in Requests, NEW q, req' = [req EXCEPT ![r] = q],
         \/ (Counted(q) <=> Counted(req[r])) /\ active' = active
         \/ Counted(q) /\ ~Counted(req[r]) /\ active' = active + 1
         \/ ~Counted(q) /\ Counted(req[r]) /\ active' = active - 1
  PROVE  ActiveCountsCounted' /\ active' \in Nat
<1>. DEFINE W == {s \in Requests : Counted(req[s])}
            V == {s \in Requests : Counted(req'[s])}
<1>1. IsFiniteSet(W) /\ IsFiniteSet(V)
  BY FS_Subset
<1>2. Cardinality(W) \in Nat /\ Cardinality(V) \in Nat
  BY <1>1, FS_CardinalityType
<1>3. active = Cardinality(W)
  BY DEF ActiveCountsCounted
<1>4. \A s \in Requests : req'[s] = IF s = r THEN q ELSE req[s]
  OBVIOUS
<1>5. active' = Cardinality(V)
  <2>1. CASE (Counted(q) <=> Counted(req[r])) /\ active' = active
    <3>1. V = W
      BY <1>4, <2>1
    <3>. QED  BY <1>3, <2>1, <3>1
  <2>2. CASE Counted(q) /\ ~Counted(req[r]) /\ active' = active + 1
    <3>1. V = W \cup {r} /\ r \notin W
      BY <1>4, <2>2
    <3>. QED  BY <1>1, <1>3, <2>2, <3>1, FS_AddElement
  <2>3. CASE ~Counted(q) /\ Counted(req[r]) /\ active' = active - 1
    <3>1. V = W \ {r} /\ r \in W
      BY <1>4, <2>3
    <3>. QED  BY <1>1, <1>3, <2>3, <3>1, FS_RemoveElement
  <2>. QED  BY <2>1, <2>2, <2>3
<1>. QED  BY <1>2, <1>5 DEF ActiveCountsCounted, Counted, Waiting

(* A step of one request.                                                  *)
LEMMA PutStep ==
  ASSUME PipelineInv, NEW r \in Requests, NEW q \in RequestType, Put(r, q),
         RequestInv(q), UNCHANGED <<settings, up>>,
         \/ (Counted(q) <=> Counted(req[r])) /\ active' = active
         \/ Counted(q) /\ ~Counted(req[r]) /\ active' = active + 1
         \/ ~Counted(q) /\ Counted(req[r]) /\ active' = active - 1,
         hits' \in [Clients \cup {"proxy"} -> Nat], own' \in [Clients -> Nat],
         settings.TRUST_PROXY => \A c \in Clients : hits'[c] <= own'[c]
  PROVE  PipelineInv'
<1>1. req' = [req EXCEPT ![r] = q] /\ req \in [Requests -> RequestType]
  BY DEF Put, PipelineInv, PipelineTypeOK
<1>2. ActiveCountsCounted' /\ active' \in Nat
  BY <1>1, CountStep DEF PipelineInv
<1>3. PipelineTypeOK'
  BY <1>1, <1>2 DEF PipelineInv, PipelineTypeOK
<1>4. ASSUME NEW s \in Requests PROVE RequestInv(req[s])'
  <2>1. RequestInv(req'[s])
    BY <1>1 DEF PipelineInv
  <2>. QED
    BY <2>1 DEF RequestInv, StepShape, MeterShape, CheckShape, ServiceInv,
                ReadinessInv, Checks, PolicyAwaits
<1>. QED  BY <1>2, <1>3, <1>4 DEF PipelineInv

(* The step of r keeps the invariant, is of r alone, and refuses nothing.  *)
Advances(r) ==
  /\ PipelineInv'
  /\ req'[r].status = 429 => req[r].status = 429
  /\ \A s \in Requests \ {r} : req'[s] = req[s]

(* One that leaves gauge and limiter alone.                                *)
LEMMA FollowsStep ==
  ASSUME PipelineInv, NEW r \in Requests, NEW a, Follows(req[r], a), Put(r, a),
         UNCHANGED <<settings, hits, active, up, own>>
  PROVE  Advances(r)
<1>1. PipelineInv'
  BY PutStep DEF Follows, PipelineInv, PipelineTypeOK
<1>. QED  BY <1>1 DEF Advances, Follows, Put, PipelineInv, PipelineTypeOK

(* What is known of a request in the hands of the program.                 *)
LEMMA HandlingBase ==
  ASSUME PipelineInv, NEW r \in Requests, req[r].pc \in Handling
  PROVE  Base(req[r])
BY DEF PipelineInv, PipelineTypeOK, RequestInv, StepShape, Base, Handling

(* What is known of a request before httpMetrics.                          *)
Early(q) ==
  /\ Base(q) /\ ~q.metered /\ ~q.late /\ q.failed = {}
  /\ q.pc \in {"idle", "cors", "body"}
  /\ q.open \/ PolicyAwaits

(* httpMetrics, if it is there, counts a request that did not count before. *)
LEMMA DispatchStep ==
  ASSUME PipelineInv, NEW r \in Requests, ~Counted(req[r]),
         NEW q, Early(q), q.in.body # "malformed", Dispatch(r, q),
         UNCHANGED <<settings, hits, up, own>>
  PROVE  Advances(r)
<1>. DEFINE m == settings.METRICS_ENABLED
            d == [q EXCEPT !.installed = TRUE, !.metered = m,
                           !.late = m /\ ~q.open]
<1>0. m \in BOOLEAN
  BY DEF PipelineInv, PipelineTypeOK, Settings
<1>1. /\ d \in RequestType /\ d.pc = q.pc /\ d.in = q.in /\ d.open = q.open
      /\ d.metered = m /\ d.late = (m /\ ~q.open) /\ d.recorded = q.recorded
      /\ d.status = q.status /\ d.failed = q.failed
  BY <1>0 DEF Early, Base, RequestType
<1>2. Put(r, Handled(d)) /\ active' = IF m THEN active + 1 ELSE active
  BY DEF Dispatch
<1>. HIDE DEF d
<1>3. MeterShape(d) /\ (Counted(d) <=> m)
  BY <1>0, <1>1 DEF Early, Base, MeterShape, Counted, Waiting
<1>4. Follows(d, Handled(d))
  BY <1>1, <1>3, HandledShape DEF Early, Base
<1>5. PipelineInv'
  BY <1>2, <1>3, <1>4, PutStep DEF Follows, PipelineInv, PipelineTypeOK
<1>6. req'[r] = Handled(d) /\ \A s \in Requests \ {r} : req'[s] = req[s]
  BY <1>2 DEF Put, PipelineInv, PipelineTypeOK
<1>. QED  BY <1>4, <1>5, <1>6 DEF Follows, Advances

(* The body parsers, and what comes after them.                            *)
LEMMA ParseStep ==
  ASSUME PipelineInv, NEW r \in Requests, ~Counted(req[r]),
         NEW q, Early(q), Parse(r, q), UNCHANGED <<settings, hits, up, own>>
  PROVE  Advances(r)
<1>1. CASE q.in.body = "absent" \/ ~q.open
  <2>. DEFINE e == [q EXCEPT !.in.body = "absent"]
  <2>1. [q.in EXCEPT !.body = "absent"] \in InputType
    BY DEF Early, Base, InputType, Bodies
  <2>2. /\ e \in RequestType /\ e.in \in InputType /\ e.in.body = "absent"
        /\ e.pc = q.pc /\ e.open = q.open /\ e.metered = q.metered
        /\ e.late = q.late /\ e.recorded = q.recorded
        /\ e.status = q.status /\ e.failed = q.failed
    BY <2>1 DEF Early, Base, RequestType, InputType
  <2>3. Dispatch(r, e)
    BY <1>1 DEF Parse
  <2>. HIDE DEF e
  <2>4. Early(e)
    BY <2>2 DEF Early, Base, MeterShape
  <2>. QED  BY <2>2, <2>3, <2>4, DispatchStep
<1>2. CASE ~(q.in.body = "absent" \/ ~q.open)
  <2>. DEFINE a == [q EXCEPT !.pc = "body"]
  <2>1. Put(r, a) /\ UNCHANGED active
    BY <1>2 DEF Parse
  <2>2. Follows(q, a)
    BY MovedShape DEF Early, Handling
  <2>3. ~Counted(q)
    BY DEF Early, Counted, Waiting
  <2>4. req'[r] = a /\ \A s \in Requests \ {r} : req'[s] = req[s]
    BY <2>1 DEF Put, PipelineInv, PipelineTypeOK
  <2>. HIDE DEF a
  <2>5. PipelineInv'
    BY <2>1, <2>2, <2>3, PutStep DEF Follows, PipelineInv, PipelineTypeOK
  <2>. QED  BY <2>2, <2>4, <2>5 DEF Follows, Advances
<1>. QED  BY <1>1, <1>2

(* The preflight, and requests that the policy let pass.                   *)
LEMMA DecidedStep ==
  ASSUME PipelineInv, NEW r \in Requests, ~Counted(req[r]),
         NEW q, Early(q), Decided(r, q), UNCHANGED <<settings, hits, up, own>>
  PROVE  Advances(r)
<1>1. CASE q.in.route # "preflight"
  BY <1>1, ParseStep DEF Decided
<1>2. CASE q.in.route = "preflight"
  <2>1. CASE Put(r, Answered(q, 204, "plain")) /\ UNCHANGED active
    <3>. DEFINE a == Answered(q, 204, "plain")
    <3>1. Follows(q, a)
      BY <1>2, AnsweredShape DEF Early, Follows
    <3>2. ~Counted(q) /\ Put(r, a)
      BY <2>1 DEF Early, Counted, Waiting
    <3>. HIDE DEF a
    <3>3. PipelineInv'
      BY <2>1, <3>1, <3>2, PutStep DEF Follows, PipelineInv, PipelineTypeOK
    <3>4. req'[r] = a /\ \A s \in Requests \ {r} : req'[s] = req[s]
      BY <3>2 DEF Put, PipelineInv, PipelineTypeOK
    <3>. QED  BY <3>1, <3>3, <3>4 DEF Follows, Advances
  <2>2. CASE Parse(r, [q EXCEPT !.in.route = "unknown"])
    <3>. DEFINE e == [q EXCEPT !.in.route = "unknown"]
    <3>1. [q.in EXCEPT !.route = "unknown"] \in InputType
      BY DEF Early, Base, InputType, Routes
    <3>2. /\ e \in RequestType /\ e.in \in InputType
          /\ e.pc = q.pc /\ e.open = q.open /\ e.metered = q.metered
          /\ e.late = q.late /\ e.recorded = q.recorded
          /\ e.status = q.status /\ e.failed = q.failed
      BY <3>1 DEF Early, Base, RequestType
    <3>3. Parse(r, e)
      BY <2>2
    <3>. HIDE DEF e
    <3>4. Early(e)
      BY <3>2 DEF Early, Base, MeterShape
    <3>. QED  BY <3>3, <3>4, ParseStep
  <2>. QED  BY <1>2, <2>1, <2>2 DEF Decided
<1>. QED  BY <1>1, <1>2

(* A request arrives: it waits for the policy, or is parsed at once.        *)
LEMMA ArriveStep ==
  ASSUME PipelineInv, NEW r \in Requests, NEW i \in Inputs, Arrive(r, i)
  PROVE  Advances(r)
<1>. DEFINE q == [req[r] EXCEPT !.in = i]
<1>1. /\ req[r] \in RequestType /\ req[r].pc = "idle" /\ RequestInv(req[r])
      /\ i \in InputType /\ UNCHANGED <<settings, hits, up, own>>
  BY InputAssumption DEF PipelineInv, PipelineTypeOK, Arrive
<1>2. /\ q \in RequestType /\ q.in = i /\ q.pc = "idle" /\ q.open = req[r].open
      /\ q.metered = req[r].metered /\ q.late = req[r].late
      /\ q.recorded = req[r].recorded /\ q.status = req[r].status
      /\ q.failed = req[r].failed
  BY <1>1 DEF RequestType
<1>3. \/ Put(r, [q EXCEPT !.pc = "cors"]) /\ UNCHANGED active /\ PolicyAwaits
      \/ Decided(r, q)
  BY DEF Arrive
<1>. HIDE DEF q
<1>4. Early(q) /\ ~Counted(req[r]) /\ ~Counted(q)
  BY <1>1, <1>2 DEF Early, Base, RequestInv, StepShape, MeterShape, Counted, Waiting
<1>5. CASE Put(r, [q EXCEPT !.pc = "cors"]) /\ UNCHANGED active /\ PolicyAwaits
  <2>1. Follows(q, [q EXCEPT !.pc = "cors"])
    BY <1>4, <1>5, MovedShape DEF Early, Handling
  <2>2. Follows(req[r], [q EXCEPT !.pc = "cors"])
    BY <1>4, <2>1 DEF Follows
  <2>. QED  BY <1>1, <1>5, <2>2, FollowsStep
<1>. QED  BY <1>1, <1>3, <1>4, <1>5, DecidedStep

(* The policy has answered.                                                 *)
LEMMA CorsStep ==
  ASSUME PipelineInv, NEW r \in Requests, CorsAnswered(r)
  PROVE  Advances(r)
<1>1. Early(req[r]) /\ ~Counted(req[r])
  BY HandlingBase DEF CorsAnswered, Early, PipelineInv, RequestInv, StepShape,
                      Handling, Counted, Waiting
<1>. QED  BY <1>1, DecidedStep DEF CorsAnswered

(* The body is read, or does not parse.                                     *)
LEMMA BodyStep ==
  ASSUME PipelineInv, NEW r \in Requests, BodyRead(r)
  PROVE  Advances(r)
<1>1. Base(req[r]) /\ ~Counted(req[r]) /\ (req[r].open => Early(req[r]))
  BY HandlingBase DEF BodyRead, Early, PipelineInv, RequestInv, StepShape,
                      Handling, Counted, Waiting
<1>2. Follows(req[r], Errored(req[r], FALSE, 400))
  BY <1>1, RefusalShape DEF Errored, Enveloped, Refusals
<1>. QED  BY <1>1, <1>2, FollowsStep, DispatchStep DEF BodyRead

(* Count keeps what a trusted proxy tells of a client within what it sent. *)
LEMMA CountInv ==
  ASSUME PipelineInv, NEW r \in Requests, Count(r)
  PROVE  PipelineInv'
<1>. DEFINE q == req[r]
            k == Key(q.in.client)
            c == q.in.client
            a == IF hits[k] >= settings.RATE_LIMIT_MAX
                   THEN Enveloped(q, 429) ELSE Routed(q)
<1>1. /\ Base(q) /\ q.in.route \notin Unlimited /\ q.in.body # "malformed"
      /\ UNCHANGED <<settings, active, up>> /\ Put(r, a)
      /\ hits' = [hits EXCEPT ![k] = @ + 1] /\ own' = [own EXCEPT ![c] = @ + 1]
  BY HandlingBase DEF Count, Handling, PipelineInv, RequestInv, StepShape
<1>2. c \in Clients /\ k \in Clients \cup {"proxy"}
  BY <1>1 DEF Base, InputType, Key
<1>3. /\ hits' \in [Clients \cup {"proxy"} -> Nat] /\ own' \in [Clients -> Nat]
  BY <1>1, <1>2 DEF PipelineInv, PipelineTypeOK
<1>4. ASSUME settings.TRUST_PROXY, NEW d \in Clients PROVE hits'[d] <= own'[d]
  BY <1>1, <1>2, <1>4 DEF Key, PipelineInv, PipelineTypeOK
<1>5. a \in RequestType /\ RequestInv(a) /\ (Counted(a) <=> Counted(q))
  <2>1. /\ Enveloped(q, 429) \in RequestType /\ RequestInv(Enveloped(q, 429))
        /\ Counted(Enveloped(q, 429)) <=> Counted(q)
    BY <1>1, AnsweredShape DEF Enveloped
  <2>2. Follows(q, Routed(q))
    BY <1>1, RoutedShape
  <2>. QED  BY <2>1, <2>2 DEF Follows
<1>. HIDE DEF q, a
<1>. QED  BY <1>1, <1>3, <1>4, <1>5, PutStep DEF q

(* A token is verified: 401, 403, or on to validation.                      *)
LEMMA VerifyStep ==
  ASSUME PipelineInv, NEW r \in Requests, Verify(r)
  PROVE  Advances(r)
<1>. DEFINE q == req[r]
<1>1. /\ Base(q) /\ q.in.route \notin Unlimited /\ q.in.body # "malformed"
      /\ q.in.route # "auth" /\ UNCHANGED <<settings, hits, active, up, own>>
  BY HandlingBase DEF Verify, Handling, PipelineInv, RequestInv, StepShape
<1>2. CASE ~Verifies(q.in.token)
  <2>1. Put(r, Errored(q, TRUE, 401))
    BY <1>2 DEF Verify
  <2>. QED
    BY <1>1, <2>1, FollowsStep, RefusalShape DEF Errored, Enveloped, Refusals
<1>3. CASE Verifies(q.in.token) /\ ~Permitted(q.in.route, q.in.token)
  <2>1. Put(r, Errored(q, TRUE, 403))
    BY <1>3 DEF Verify
  <2>. QED
    BY <1>1, <2>1, FollowsStep, RefusalShape DEF Errored, Enveloped, Refusals
<1>4. CASE Verifies(q.in.token) /\ Permitted(q.in.route, q.in.token)
  <2>1. Put(r, Validated(q))
    BY <1>4 DEF Verify
  <2>2. /\ q.in.route = "createUser" => q.in.token = "admin"
        /\ q.in.route = "getUser" => q.in.token \in {"self", "admin"}
        /\ q.in.token \in {"other", "self", "admin"}
    BY <1>4 DEF Permitted, Verifies
  <2>3. Follows(q, Validated(q))
    BY <1>1, <2>2, ValidatedShape
  <2>. QED  BY <1>1, <2>1, <2>3, FollowsStep
<1>. QED  BY <1>2, <1>3, <1>4

(* A service succeeds, refuses or breaks.                                   *)
LEMMA ServeStep ==
  ASSUME PipelineInv, NEW r \in Requests, Serve(r)
  PROVE  Advances(r)
<1>. DEFINE q == req[r]
<1>1. /\ Base(q) /\ q.in.route # "ready"
      /\ UNCHANGED <<settings, hits, active, up, own>>
  BY HandlingBase DEF Serve, Handling, PipelineInv, RequestInv, StepShape, Unlimited
<1>2. Follows(q, Enveloped(q, 200))
  BY <1>1, AnsweredShape DEF Enveloped, Follows
<1>3. Follows(q, Errored(q, TRUE, 409)) /\ Follows(q, Errored(q, FALSE, 500))
  BY <1>1, RefusalShape DEF Errored, Enveloped, Refusals
<1>4. \/ Put(r, Enveloped(q, 200)) \/ Put(r, Errored(q, TRUE, 409))
      \/ Put(r, Errored(q, FALSE, 500))
  BY DEF Serve
<1>5. CASE Put(r, Enveloped(q, 200))
  BY <1>1, <1>2, <1>5, FollowsStep
<1>6. CASE Put(r, Errored(q, TRUE, 409))
  BY <1>1, <1>6, FollowsStep, RefusalShape DEF Errored, Enveloped, Refusals
<1>7. CASE Put(r, Errored(q, FALSE, 500))
  BY <1>1, <1>7, FollowsStep, RefusalShape DEF Errored, Enveloped, Refusals
<1>. QED  BY <1>4, <1>5, <1>6, <1>7

(* The registry is rendered, or is not.                                     *)
LEMMA RenderStep ==
  ASSUME PipelineInv, NEW r \in Requests, Render(r)
  PROVE  Advances(r)
<1>. DEFINE q == req[r]
<1>1. /\ Base(q) /\ q.in.route = "metrics"
      /\ UNCHANGED <<settings, hits, active, up, own>>
  BY HandlingBase DEF Render, Handling, PipelineInv, RequestInv, StepShape
<1>2. Follows(q, Answered(q, 200, "plain"))
  BY <1>1, AnsweredShape DEF Follows
<1>3. CASE Put(r, Answered(q, 200, "plain"))
  BY <1>1, <1>2, <1>3, FollowsStep
<1>4. CASE Put(r, Errored(q, FALSE, 500))
  BY <1>1, <1>4, FollowsStep, RefusalShape DEF Errored, Enveloped, Refusals
<1>. QED  BY <1>3, <1>4 DEF Render

(* A check settles: what it adds to `failed' has been missed, what it does *)
(* not has been met.                                                       *)
LEMMA CheckStep ==
  ASSUME PipelineInv, NEW r \in Requests, NEW d \in Dependencies, CheckSettles(r, d)
  PROVE  Advances(r)
<1>. DEFINE q == req[r]
            failed == IF up[d] THEN q.failed ELSE q.failed \cup {d}
            a == [q EXCEPT !.pending = q.pending \ {d}, !.failed = failed]
<1>1. /\ Base(q) /\ q.pc = "checks" /\ RequestInv(q) /\ d \in q.pending
      /\ UNCHANGED <<settings, hits, active, up, own>>
      /\ up \in [Dependencies -> BOOLEAN]
  BY HandlingBase DEF CheckSettles, Handling, PipelineInv, PipelineTypeOK
<1>2. Put(r, IF a.pending = {} THEN Enveloped(a, ReadyStatus(a)) ELSE a)
  <2>1. [q EXCEPT !.pending = @ \ {d},
                  !.failed = IF up[d] THEN @ ELSE @ \cup {d}] = a
    BY <1>1 DEF Base, RequestType
  <2>. QED  BY <2>1 DEF CheckSettles
<1>3. /\ a \in RequestType /\ a.pc = "checks"
      /\ a.in = q.in /\ a.open = q.open /\ a.metered = q.metered
      /\ a.late = q.late /\ a.recorded = q.recorded /\ a.status = q.status
      /\ a.pending = q.pending \ {d} /\ a.failed = failed
      /\ a.met = q.met /\ a.missed = q.missed
  BY <1>1 DEF Base, RequestType
<1>. HIDE DEF a
<1>4. CheckShape(a)
  <2>1. \A e \in Checks : IF up[e] THEN e \in q.met ELSE e \in q.missed
    BY <1>1 DEF RequestInv, CheckShape
  <2>2. /\ Checks \subseteq q.pending \cup q.failed \cup q.met
        /\ q.pending \subseteq Checks /\ q.failed \subseteq q.missed
    BY <1>1 DEF RequestInv, CheckShape
  <2>3. CASE up[d]
    <3>1. d \in Checks => d \in q.met
      BY <2>1, <2>3
    <3>. QED  BY <1>3, <2>1, <2>2, <2>3, <3>1 DEF CheckShape
  <2>4. CASE ~up[d]
    <3>1. d \in q.missed
      BY <1>1, <2>1, <2>2, <2>4
    <3>. QED  BY <1>3, <2>1, <2>2, <2>4, <3>1 DEF CheckShape
  <2>. QED  BY <2>3, <2>4
<1>5. Base(a) /\ (Counted(a) <=> Counted(q))
  BY <1>1, <1>3 DEF Base, MeterShape, Counted, Waiting
<1>6. CASE a.pending = {}
  <2>1. /\ a.failed = {} => Checks \subseteq a.met
        /\ a.failed # {} => a.missed # {}
    BY <1>3, <1>4, <1>6 DEF CheckShape
  <2>2. Follows(a, Enveloped(a, ReadyStatus(a)))
    BY <1>5, <2>1, AnsweredShape DEF Enveloped, ReadyStatus, Follows
  <2>3. Follows(q, Enveloped(a, ReadyStatus(a)))
    BY <1>5, <2>2 DEF Follows
  <2>. QED  BY <1>1, <1>2, <1>6, <2>3, FollowsStep
<1>7. CASE a.pending # {}
  <2>1. StepShape(a) /\ ServiceInv(a) /\ ReadinessInv(a)
    BY <1>1, <1>3 DEF Base, StepShape, ServiceInv, ReadinessInv, Handling
  <2>2. Follows(q, a)
    BY <1>3, <1>4, <1>5, <2>1 DEF Base, Follows, RequestInv
  <2>. QED  BY <1>1, <1>2, <1>7, <2>2, FollowsStep
<1>. QED  BY <1>6, <1>7

-----------------------------------------------------------------------------
(* Connections: finish, close, and the client that leaves.                 *)

(* record counts a request down when, and only when, it has been waiting.  *)
LEMMA RecordedShape ==
  ASSUME NEW q \in RequestType, MeterShape(q), NEW a \in RequestType,
         a.metered = q.metered, a.late = q.late, a.recorded = q.recorded,
         a.status = q.status, Records(q) => q.open /\ q.pc # "flushed",
         ~a.open \/ a.pc = "flushed",
         a.late => ~a.open
  PROVE  LET b == Recorded(a) IN
         /\ b \in RequestType /\ MeterShape(b)
         /\ b.pc = a.pc /\ b.in = a.in /\ b.open = a.open /\ b.status = a.status
         /\ b.metered = a.metered /\ b.late = a.late /\ b.failed = a.failed
         /\ b.pending = a.pending /\ b.met = a.met /\ b.missed = a.missed
         /\ \/ Records(q) /\ Counted(q) /\ ~Counted(b)
            \/ ~Records(q) /\ (Counted(b) <=> Counted(q))
<1>. DEFINE b == Recorded(a)
<1>1. StatusCode(a) \in Nat /\ StatusCode(a) # 0
  BY DEF StatusCode, RequestType
<1>2. /\ b \in RequestType
      /\ b.pc = a.pc /\ b.in = a.in /\ b.open = a.open /\ b.status = a.status
      /\ b.metered = a.metered /\ b.late = a.late /\ b.failed = a.failed
      /\ b.pending = a.pending /\ b.met = a.met /\ b.missed = a.missed
      /\ b.recorded = IF Records(a) THEN StatusCode(a) ELSE a.recorded
  BY <1>1 DEF Recorded, RequestType
<1>3. Records(a) <=> Records(q)
  BY DEF Records
<1>. HIDE DEF b
<1>4. MeterShape(b)
  BY <1>1, <1>2, <1>3 DEF MeterShape, Records
<1>5. \/ Records(q) /\ Counted(q) /\ ~Counted(b)
      \/ ~Records(q) /\ (Counted(b) <=> Counted(q))
  BY <1>2 DEF MeterShape, Records, Counted, Waiting
<1>. QED  BY <1>2, <1>4, <1>5 DEF b

(* The step from record: the gauge goes down with it.                      *)
LEMMA RecordedStep ==
  ASSUME PipelineInv, NEW r \in Requests, NEW a \in RequestType,
         Put(r, Recorded(a)), active' = Decrement(req[r]),
         UNCHANGED <<settings, hits, up, own>>,
         a.metered = req[r].metered, a.late = req[r].late,
         a.recorded = req[r].recorded, a.status = req[r].status,
         a.failed = req[r].failed, a.pending = req[r].pending,
         a.met = req[r].met, a.missed = req[r].missed, a.in = req[r].in,
         ~a.open \/ a.pc = "flushed", a.late => ~a.open,
         StepShape(a), a.pc \in Handling => a.pc = req[r].pc
  PROVE  Advances(r)
<1>. DEFINE q == req[r]
            b == Recorded(a)
<1>1. q \in RequestType /\ RequestInv(q) /\ MeterShape(q)
  BY DEF PipelineInv, PipelineTypeOK, RequestInv
<1>2. Records(q) => q.open /\ q.pc # "flushed"
  BY <1>1 DEF Records, MeterShape
<1>3. /\ b \in RequestType /\ MeterShape(b)
      /\ b.pc = a.pc /\ b.in = a.in /\ b.open = a.open /\ b.status = a.status
      /\ b.metered = a.metered /\ b.late = a.late /\ b.failed = a.failed
      /\ b.pending = a.pending /\ b.met = a.met /\ b.missed = a.missed
      /\ \/ Records(q) /\ Counted(q) /\ ~Counted(b)
         \/ ~Records(q) /\ (Counted(b) <=> Counted(q))
  BY <1>1, <1>2, RecordedShape
<1>4. active' = IF Records(q) THEN active - 1 ELSE active
  BY DEF Decrement
<1>5. Put(r, b)
  OBVIOUS
<1>. HIDE DEF b, q
<1>6. StepShape(b)
  BY <1>3 DEF StepShape
<1>7. CheckShape(b) /\ ServiceInv(b) /\ ReadinessInv(b)
  BY <1>1, <1>3 DEF q, RequestInv, CheckShape, ServiceInv, ReadinessInv, Handling
<1>8. PipelineInv'
  BY <1>3, <1>4, <1>5, <1>6, <1>7, PutStep
     DEF q, RequestInv, PipelineInv, PipelineTypeOK
<1>9. req'[r] = b /\ \A s \in Requests \ {r} : req'[s] = req[s]
  BY <1>5 DEF Put, PipelineInv, PipelineTypeOK
<1>. QED  BY <1>3, <1>8, <1>9 DEF Advances, q

(* The answer is sent: finish.                                              *)
LEMMA FlushStep ==
  ASSUME PipelineInv, NEW r \in Requests, Flush(r)
  PROVE  Advances(r)
<1>. DEFINE q == req[r]
            a == [q EXCEPT !.pc = "flushed"]
<1>1. /\ q \in RequestType /\ q.pc = "answered" /\ StepShape(q) /\ MeterShape(q)
  BY DEF PipelineInv, PipelineTypeOK, RequestInv, Flush
<1>2. /\ a \in RequestType /\ a.pc = "flushed" /\ a.in = q.in /\ a.open = q.open
      /\ a.metered = q.metered /\ a.late = q.late /\ a.recorded = q.recorded
      /\ a.status = q.status /\ a.failed = q.failed /\ a.pending = q.pending
      /\ a.met = q.met /\ a.missed = q.missed
  BY <1>1 DEF RequestType, Steps
<1>3. Put(r, Recorded(a)) /\ active' = Decrement(q)
      /\ UNCHANGED <<settings, hits, up, own>>
  BY DEF Flush
<1>. HIDE DEF a
<1>4. StepShape(a) /\ a.pc \notin Handling
  BY <1>1, <1>2 DEF StepShape, Handling
<1>5. a.late => ~a.open
  BY <1>1, <1>2 DEF MeterShape
<1>. QED  BY <1>2, <1>3, <1>4, <1>5, RecordedStep

(* The connection closes after it: close.                                   *)
LEMMA CloseStep ==
  ASSUME PipelineInv, NEW r \in Requests, Close(r)
  PROVE  Advances(r)
<1>. DEFINE q == req[r]
            a == [q EXCEPT !.pc = "over", !.open = FALSE]
<1>1. /\ q \in RequestType /\ q.pc = "flushed" /\ StepShape(q)
  BY DEF PipelineInv, PipelineTypeOK, RequestInv, Close
<1>2. /\ a \in RequestType /\ a.pc = "over" /\ a.in = q.in /\ ~a.open
      /\ a.metered = q.metered /\ a.late = q.late /\ a.recorded = q.recorded
      /\ a.status = q.status /\ a.failed = q.failed /\ a.pending = q.pending
      /\ a.met = q.met /\ a.missed = q.missed
  BY <1>1 DEF RequestType, Steps
<1>3. Put(r, Recorded(a)) /\ active' = Decrement(q)
      /\ UNCHANGED <<settings, hits, up, own>>
  BY DEF Close
<1>. HIDE DEF a
<1>4. StepShape(a) /\ a.pc \notin Handling
  BY <1>1, <1>2 DEF StepShape, Handling
<1>. QED  BY <1>2, <1>3, <1>4, RecordedStep

(* The client closes the connection first.                                  *)
LEMMA LeaveStep ==
  ASSUME PipelineInv, NEW r \in Requests, ClientLeaves(r)
  PROVE  Advances(r)
<1>. DEFINE q == req[r]
            pc == IF q.pc = "answered" THEN "over" ELSE q.pc
            a == [q EXCEPT !.open = FALSE, !.pc = pc]
<1>1. /\ q \in RequestType /\ q.pc \in Handling \cup {"answered"} /\ StepShape(q)
  BY DEF PipelineInv, PipelineTypeOK, RequestInv, ClientLeaves
<1>2. /\ a \in RequestType /\ a.pc = pc /\ a.in = q.in /\ ~a.open
      /\ a.metered = q.metered /\ a.late = q.late /\ a.recorded = q.recorded
      /\ a.status = q.status /\ a.failed = q.failed /\ a.pending = q.pending
      /\ a.met = q.met /\ a.missed = q.missed
  BY <1>1 DEF RequestType, Steps
<1>3. Put(r, Recorded(a)) /\ active' = Decrement(q)
      /\ UNCHANGED <<settings, hits, up, own>>
  BY <1>1 DEF ClientLeaves, RequestType
<1>. HIDE DEF a
<1>4. StepShape(a) /\ (a.pc \in Handling => a.pc = q.pc)
  BY <1>1, <1>2 DEF StepShape, Handling
<1>. QED  BY <1>2, <1>3, <1>4, RecordedStep

(* A window ends for a key and for all the clients behind it.              *)
LEMMA WindowStep ==
  ASSUME PipelineInv, NEW k \in Clients \cup {"proxy"}, WindowEnds(k)
  PROVE  PipelineInv' /\ req' = req
<1>1. /\ UNCHANGED <<settings, req, active, up>> /\ hits' = [hits EXCEPT ![k] = 0]
      /\ own' = [c \in Clients |-> IF Key(c) = k THEN 0 ELSE own[c]]
  BY DEF WindowEnds
<1>2. PipelineTypeOK'
  BY <1>1 DEF PipelineInv, PipelineTypeOK
<1>3. ASSUME settings.TRUST_PROXY, NEW c \in Clients PROVE hits'[c] <= own'[c]
  BY <1>1, <1>3 DEF PipelineInv, PipelineTypeOK, Key
<1>4. ActiveCountsCounted'
  BY <1>1 DEF PipelineInv, ActiveCountsCounted, Counted, Waiting
<1>5. \A r \in Requests : RequestInv(req[r])'
  BY <1>1 DEF PipelineInv, RequestInv, StepShape, MeterShape, CheckShape,
              ServiceInv, ReadinessInv, Checks, PolicyAwaits
<1>. QED  BY <1>1, <1>2, <1>3, <1>4, <1>5 DEF PipelineInv

(* A dependency turns: every check that runs has now met or missed it.     *)
LEMMA TurnStep ==
  ASSUME PipelineInv, NEW d \in Dependencies, DependencyTurns(d)
  PROVE  PipelineInv' /\ \A r \in Requests : req'[r].status = req[r].status
<1>. DEFINE q(r) == req[r]
            a(r) == IF req[r].pc # "checks" THEN req[r]
                    ELSE IF up[d] THEN [req[r] EXCEPT !.missed = req[r].missed \cup {d}]
                         ELSE [req[r] EXCEPT !.met = req[r].met \cup {d}]
<1>1. /\ UNCHANGED <<settings, hits, active, own>> /\ d \in Checks
      /\ up' = [up EXCEPT ![d] = ~up[d]] /\ up \in [Dependencies -> BOOLEAN]
      /\ req \in [Requests -> RequestType]
  BY DEF DependencyTurns, PipelineInv, PipelineTypeOK
<1>2. req' = [r \in Requests |-> a(r)]
  BY <1>1 DEF DependencyTurns, RequestType
<1>3. ASSUME NEW r \in Requests
      PROVE  /\ a(r) \in RequestType /\ a(r).pc = q(r).pc /\ a(r).in = q(r).in
             /\ a(r).open = q(r).open /\ a(r).metered = q(r).metered
             /\ a(r).late = q(r).late /\ a(r).recorded = q(r).recorded
             /\ a(r).status = q(r).status /\ a(r).failed = q(r).failed
             /\ a(r).pending = q(r).pending
             /\ a(r).met = IF q(r).pc = "checks" /\ ~up[d]
                             THEN q(r).met \cup {d} ELSE q(r).met
             /\ a(r).missed = IF q(r).pc = "checks" /\ up[d]
                                THEN q(r).missed \cup {d} ELSE q(r).missed
  <2>1. q(r) \in RequestType
    BY <1>1
  <2>2. CASE q(r).pc # "checks"
    BY <2>1, <2>2
  <2>3. CASE q(r).pc = "checks" /\ up[d]
    BY <2>1, <2>3 DEF RequestType
  <2>4. CASE q(r).pc = "checks" /\ ~up[d]
    BY <2>1, <2>4 DEF RequestType
  <2>. QED  BY <2>2, <2>3, <2>4
<1>4. \A r \in Requests : req'[r] = a(r)
  BY <1>2
<1>. HIDE DEF a
<1>5. PipelineTypeOK'
  BY <1>1, <1>2, <1>3 DEF PipelineInv, PipelineTypeOK
<1>6. ActiveCountsCounted'
  <2>1. \A r \in Requests : Counted(req'[r]) <=> Counted(req[r])
    BY <1>3, <1>4, ZenonT(40) DEF Counted, Waiting
  <2>2. {r \in Requests : Counted(req'[r])} = {r \in Requests : Counted(req[r])}
    BY <2>1
  <2>. QED  BY <1>1, <2>2 DEF PipelineInv, ActiveCountsCounted, Counted, Waiting
<1>7. Checks' = Checks
  BY <1>1 DEF Checks
<1>8. ASSUME NEW r \in Requests PROVE RequestInv(req[r])'
  <2>1. RequestInv(q(r))
    BY DEF PipelineInv
  <2>2. StepShape(req[r])' /\ MeterShape(req[r])' /\ ServiceInv(req[r])'
    <3>1. req'[r] = a(r) /\ UNCHANGED settings
      BY <1>1, <1>4
    <3>2. StepShape(a(r))
      BY <1>3, <2>1 DEF RequestInv, StepShape
    <3>3. MeterShape(a(r))
      BY <1>3, <2>1 DEF RequestInv, MeterShape
    <3>4. ServiceInv(req[r])'
      BY <1>3, <2>1, <3>1 DEF RequestInv, ServiceInv
    <3>. QED  BY <3>1, <3>2, <3>3, <3>4 DEF StepShape, MeterShape, PolicyAwaits
  <2>3. CheckShape(req[r])'
    <3>. SUFFICES ASSUME q(r).pc = "checks"
                  PROVE  /\ \A e \in Checks : IF up'[e] THEN e \in a(r).met
                                                         ELSE e \in a(r).missed
                         /\ a(r).pending \subseteq Checks
                         /\ Checks \subseteq a(r).pending \cup a(r).failed \cup a(r).met
                         /\ a(r).failed \subseteq a(r).missed
      BY <1>3, <1>4, <1>7 DEF CheckShape
    <3>1. /\ \A e \in Checks : IF up[e] THEN e \in q(r).met ELSE e \in q(r).missed
          /\ q(r).pending \subseteq Checks
          /\ Checks \subseteq q(r).pending \cup q(r).failed \cup q(r).met
          /\ q(r).failed \subseteq q(r).missed
      BY <2>1 DEF RequestInv, CheckShape
    <3>2. \A e \in Checks : e \in Dependencies
                            /\ up'[e] = IF e = d THEN ~up[d] ELSE up[e]
      BY <1>1, ChecksAreDependencies
    <3>3. ASSUME NEW e \in Checks
          PROVE  IF up'[e] THEN e \in a(r).met ELSE e \in a(r).missed
      <4>1. CASE e = d
        BY <1>3, <3>2, <4>1
      <4>2. CASE e # d
        <5>1. q(r).met \subseteq a(r).met /\ q(r).missed \subseteq a(r).missed
          BY <1>3
        <5>. QED  BY <3>1, <3>2, <4>2, <5>1
      <4>. QED  BY <4>1, <4>2
    <3>. QED  BY <1>3, <3>1, <3>3
  <2>4. ReadinessInv(req[r])'
    <3>1. ReadinessInv(q(r))
      BY <2>1 DEF RequestInv
    <3>2. /\ req'[r] = a(r) /\ a(r).in = q(r).in /\ a(r).status = q(r).status
          /\ q(r).met \subseteq a(r).met /\ q(r).missed \subseteq a(r).missed
      BY <1>3, <1>4
    <3>3. /\ q(r).in.route = "ready" /\ q(r).status = 503 => a(r).missed # {}
          /\ q(r).in.route = "ready" /\ q(r).status = 200 =>
               Checks \subseteq a(r).met
      BY <3>1, <3>2 DEF ReadinessInv
    <3>. QED  BY <1>7, <3>2, <3>3 DEF ReadinessInv
  <2>. QED  BY <2>2, <2>3, <2>4 DEF RequestInv
<1>. QED
  BY <1>1, <1>3, <1>4, <1>5, <1>6, <1>8 DEF PipelineInv

-----------------------------------------------------------------------------
(* The steps of one request other than the limiter's.                      *)
LEMMA RequestSteps ==
  ASSUME PipelineInv, NEW r \in Requests,
         \/ \E i \in Inputs : Arrive(r, i)
         \/ Proceed(r) /\ ~Count(r)
         \/ ClientLeaves(r)
  PROVE  Advances(r)
BY ArriveStep, CorsStep, BodyStep, VerifyStep, ServeStep, RenderStep, CheckStep,
   FlushStep, CloseStep, LeaveStep DEF Proceed

(* The gauge, the guards, readiness and the limiter in one invariant.      *)
THEOREM PipelineInvariance == PipelineSpec => []PipelineInv
<1>1. PipelineInv /\ [PipelineNext]_pipelineVars => PipelineInv'
  <2>. SUFFICES ASSUME PipelineInv, [PipelineNext]_pipelineVars
                PROVE  PipelineInv'
    OBVIOUS
  <2>1. CASE UNCHANGED pipelineVars
    <3>. USE <2>1 DEF pipelineVars
    <3>1. PipelineTypeOK'
      BY DEF PipelineInv, PipelineTypeOK
    <3>2. ActiveCountsCounted'
      BY DEF PipelineInv, ActiveCountsCounted, Counted, Waiting
    <3>3. ASSUME NEW r \in Requests PROVE RequestInv(req[r])'
      <4>. USE DEF PipelineInv, RequestInv
      <4>1. StepShape(req[r])' /\ MeterShape(req[r])'
        BY DEF StepShape, MeterShape, PolicyAwaits
      <4>2. CheckShape(req[r])'
        BY DEF CheckShape, Checks
      <4>3. ServiceInv(req[r])' /\ ReadinessInv(req[r])'
        BY DEF ServiceInv, ReadinessInv, Checks
      <4>. QED  BY <4>1, <4>2, <4>3
    <3>. QED  BY <3>1, <3>2, <3>3 DEF PipelineInv
  <2>2. ASSUME NEW r \in Requests,
               \/ \E i \in Inputs : Arrive(r, i)
               \/ Proceed(r)
               \/ ClientLeaves(r)
        PROVE  PipelineInv'
    BY <2>2, CountInv, RequestSteps DEF Advances
  <2>. QED
    BY <2>1, <2>2, WindowStep, TurnStep DEF PipelineNext
<1>. QED  BY <1>1, PipelineInitInv, PTL DEF PipelineSpec

(* Where no asynchronous CORS policy decides, the gauge is the number of   *)
(* requests that wait.                                                     *)
THEOREM GaugeCountsWaiting == PipelineSpec => []ActiveCountsWaiting
<1>1. PipelineInv => ActiveCountsWaiting
  <2>. SUFFICES ASSUME PipelineInv, ~PolicyAwaits PROVE GaugeTellsWaiting
    BY DEF ActiveCountsWaiting
  <2>1. \A r \in Requests : ~req[r].late
    BY DEF PipelineInv, RequestInv, MeterShape
  <2>2. {r \in Requests : Counted(req[r])} = {r \in Requests : Waiting(req[r])}
    BY <2>1 DEF Counted
  <2>. QED  BY <2>2 DEF PipelineInv, ActiveCountsCounted, GaugeTellsWaiting
<1>. QED  BY <1>1, PipelineInvariance, PTL

(* No service runs for a caller its route does not permit.                 *)
THEOREM ServicesStayGuarded == PipelineSpec => []ServicesAreGuarded
<1>1. PipelineInv => ServicesAreGuarded
  BY DEF PipelineInv, RequestInv, ServicesAreGuarded
<1>. QED  BY <1>1, PipelineInvariance, PTL

(* Readiness is true of the time of the request, in every deployment.      *)
THEOREM ReadinessStaysTrue == PipelineSpec => []ReadinessIsTrue
<1>1. PipelineInv => ReadinessIsTrue
  BY DEF PipelineInv, RequestInv, ReadinessIsTrue
<1>. QED  BY <1>1, PipelineInvariance, PTL

(* Behind a trusted proxy only a client's own requests have it refused,    *)
(* for any number of clients and any limit.                                *)
THEOREM RefusalsAreEarned == PipelineSpec => RefusedForOwnRequests
<1>. DEFINE Earned(r) ==
       req'[r].status = 429 /\ req[r].status # 429 =>
         /\ req[r].in.route \notin Unlimited
         /\ settings.TRUST_PROXY =>
              own'[req[r].in.client] > settings.RATE_LIMIT_MAX
<1>1. ASSUME PipelineInv, NEW r \in Requests, Count(r), NEW s \in Requests
      PROVE  Earned(s)
  <2>. DEFINE q == req[r]
              c == q.in.client
  <2>1. /\ Base(q) /\ q.in.route \notin Unlimited /\ q.in.body # "malformed"
        /\ own' = [own EXCEPT ![c] = @ + 1]
        /\ Put(r, IF hits[Key(c)] >= settings.RATE_LIMIT_MAX
                    THEN Enveloped(q, 429) ELSE Routed(q))
    BY <1>1, HandlingBase DEF Count, Handling, PipelineInv, RequestInv, StepShape
  <2>2. c \in Clients
    BY <2>1 DEF Base, InputType
  <2>3. /\ req'[r] = IF hits[Key(c)] >= settings.RATE_LIMIT_MAX
                       THEN Enveloped(q, 429) ELSE Routed(q)
        /\ s # r => req'[s] = req[s]
    BY <1>1, <2>1 DEF Put, PipelineInv, PipelineTypeOK
  <2>4. Routed(q).status # 429
    BY <2>1, RoutedShape DEF Follows
  <2>5. settings.TRUST_PROXY /\ hits[Key(c)] >= settings.RATE_LIMIT_MAX =>
          own'[c] > settings.RATE_LIMIT_MAX
    BY <1>1, <2>1, <2>2 DEF Key, PipelineInv, PipelineTypeOK, Settings
  <2>. QED  BY <2>1, <2>3, <2>4, <2>5
<1>2. ASSUME PipelineInv, [PipelineNext]_pipelineVars, NEW s \in Requests
      PROVE  Earned(s)
  <2>1. ASSUME NEW r \in Requests, Advances(r) PROVE Earned(s)
    BY <2>1 DEF Advances
  <2>2. ASSUME NEW r \in Requests,
               \/ \E i \in Inputs : Arrive(r, i)
               \/ Proceed(r)
               \/ ClientLeaves(r)
        PROVE  Earned(s)
    <3>1. CASE Count(r)
      BY <1>1, <1>2, <3>1
    <3>2. CASE ~Count(r)
      BY <1>2, <2>1, <2>2, <3>2, RequestSteps
    <3>. QED  BY <3>1, <3>2
  <2>3. CASE UNCHANGED pipelineVars
    BY <2>3 DEF pipelineVars
  <2>4. ASSUME NEW k \in Clients \cup {"proxy"}, WindowEnds(k) PROVE Earned(s)
    BY <1>2, <2>4, WindowStep
  <2>5. ASSUME NEW d \in Dependencies, DependencyTurns(d) PROVE Earned(s)
    BY <1>2, <2>5, TurnStep
  <2>. HIDE DEF Earned
  <2>. QED  BY <1>2, <2>2, <2>3, <2>4, <2>5 DEF PipelineNext
<1>3. PipelineInv /\ [PipelineNext]_pipelineVars =>
        [\A r \in Requests :
           req'[r].status = 429 /\ req[r].status # 429 =>
             /\ req[r].in.route \notin Unlimited
             /\ settings.TRUST_PROXY =>
                  own'[req[r].in.client] > settings.RATE_LIMIT_MAX]_pipelineVars
  BY <1>2
<1>. QED
  BY <1>3, PipelineInvariance, PTL DEF PipelineSpec, RefusedForOwnRequests
=============================================================================
