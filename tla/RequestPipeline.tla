--------------------------- MODULE RequestPipeline ---------------------------
(***************************************************************************)
(* app.ts and the middlewares, controllers and routes it installs: what    *)
(* happens to concurrent requests between their arrival and the end of     *)
(* their connection.  Middlewares run in the order of app.use; code        *)
(* between two awaits is one step.  The services behind the controllers    *)
(* are in AuthSessions; here they succeed, refuse or break.                *)
(***************************************************************************)
EXTENDS CompositionRoot, FiniteSets

CONSTANTS
  Requests,     \* the requests of one process, each of them served once
  Clients,
  Inputs,       \* what requests ask for: a subset of InputType
  Deployments,  \* accepted settings
  Awaiting      \* those whose application has an asynchronous CORS policy

VARIABLES
  settings,  \* config: constant once the process runs
  req,       \* the state of each request
  hits,      \* the rate limiter's count of each key in its window
  active,    \* the gauge http_requests_active
  up,        \* which dependencies answer
  own        \* history: requests each client sent in its key's window

pipelineVars == <<settings, req, hits, active, up, own>>

Routes == {"health", "ready", "metrics", "createUser", "getUser", "me",
           "auth", "preflight", "unknown"}
(* No token, one that does not verify, the metrics token, and the access   *)
(* token of: another user, the user named in the path, an administrator.   *)
Tokens == {"none", "invalid", "scrape", "other", "self", "admin"}
Bodies == {"absent", "malformed", "whole"}
(* `valid': what the schema of the route says of the body or the path.     *)
InputType == [client : Clients, route : Routes, token : Tokens, body : Bodies,
              valid : BOOLEAN, origin : BOOLEAN]

ASSUME RequestAssumption == IsFiniteSet(Requests)
ASSUME InputAssumption == Inputs \subseteq InputType
ASSUME PolicyAssumption == Awaiting \subseteq Deployments
ASSUME DeploymentAssumption ==
  \A v \in Deployments : v \in Settings /\ Accepted(v)

Dependencies == {"postgresql", "redis", "storage"}
Checks == HealthChecks(settings, NoOptions)
PolicyAwaits == settings \in Awaiting

(* Suspended in the CORS policy, the body, the limiter's store, the        *)
(* verification of a token, a service, the readiness checks, the registry; *)
(* then answered, flushed to the socket, and over.                         *)
Steps == {"idle", "cors", "body", "limit", "verify", "service", "checks",
          "render", "answered", "flushed", "over"}
Handling == {"cors", "body", "limit", "verify", "service", "checks", "render"}

NoInput == [client |-> "none", route |-> "none", token |-> "none",
            body |-> "absent", valid |-> TRUE, origin |-> FALSE]
(* `recorded' is the status a request is counted under, 0 before that;     *)
(* `late' is history: the client had left before httpMetrics listened.     *)
NewRequest ==
  [pc |-> "idle", in |-> NoInput, open |-> TRUE, installed |-> FALSE,
   metered |-> FALSE, late |-> FALSE, recorded |-> 0, status |-> 0,
   shape |-> "none", pending |-> {}, failed |-> {}, met |-> {}, missed |-> {}]

PipelineInit ==
  /\ settings \in Deployments
  /\ req = [r \in Requests |-> NewRequest]
  /\ hits = [c \in Clients \cup {"proxy"} |-> 0]
  /\ active = 0
  /\ up = [d \in Dependencies |-> TRUE]
  /\ own = [c \in Clients |-> 0]

-----------------------------------------------------------------------------
(* Answers.                                                                *)

Answered(q, status, shape) ==
  [q EXCEPT !.pc = IF q.open THEN "answered" ELSE "over",
            !.status = status, !.shape = shape]

(* res.success and res.fail.                                               *)
Enveloped(q, status) == Answered(q, status, "envelope")

(* next(error): the error handler calls res.fail; before apiResponse there *)
(* is none, and Express answers the TypeError itself.                      *)
Errored(q, isAppError, status) ==
  IF q.installed THEN Enveloped(q, IF isAppError THEN status ELSE 500)
                 ELSE Answered(q, 500, "plain")

-----------------------------------------------------------------------------
(* httpMetrics: `record' runs on finish and on close, whichever is first.  *)

RecordsEach(q) == q.metered /\ ~q.late \* fault: no `completed' flag
Records(q) == q.metered /\ ~q.late /\ q.recorded = 0

StatusCode(q) == IF q.status = 0 THEN 200 ELSE q.status

Recorded(q) ==
  IF Records(q) THEN [q EXCEPT !.recorded = StatusCode(q)] ELSE q
Decrement(q) == IF Records(q) THEN active - 1 ELSE active

-----------------------------------------------------------------------------
(* The routes.                                                             *)

Verifies(token) == token \in {"other", "self", "admin"}

(* authorizeRoles('ADMIN'), authorizeSelfOrRoles('id', 'ADMIN'), none.     *)
AnyToken(route, token) == TRUE \* fault: authorize is not in the route
Permitted(route, token) ==
  CASE route = "createUser" -> token = "admin"
    [] route = "getUser" -> token \in {"self", "admin"}
    [] OTHER -> TRUE

Validated(q) ==
  IF q.in.route # "me"
       /\ (~q.in.valid \/ (q.in.body = "absent" /\ q.in.route # "getUser"))
    THEN Errored(q, TRUE, 422)
    ELSE [q EXCEPT !.pc = "service"]

Mounted(route) ==
  route # "unknown" /\ (route \in {"auth", "me"} => settings.AUTH_ENABLED)

Routed(q) ==
  CASE ~Mounted(q.in.route) -> Errored(q, TRUE, 404)
    [] Mounted(q.in.route) /\ q.in.route = "auth" -> Validated(q)
    [] OTHER -> IF q.in.token = "none" THEN Errored(q, TRUE, 401)
                                       ELSE [q EXCEPT !.pc = "verify"]

MetricsRoute(q) ==
  CASE ~settings.METRICS_ENABLED -> Answered(q, 404, "plain")
    [] settings.METRICS_ENABLED /\ settings.METRICS_TOKEN
         /\ q.in.token # "scrape" -> Answered(q, 401, "plain")
    [] OTHER -> [q EXCEPT !.pc = "render"]

(* From apiResponse to the first await: health, readiness and metrics come *)
(* before the limiter.                                                     *)
Handled(q) ==
  CASE q.in.route = "health" -> Enveloped(q, 200)
    [] q.in.route = "ready" ->
         [q EXCEPT !.pc = "checks", !.pending = Checks,
                   !.met = {d \in Checks : up[d]},
                   !.missed = {d \in Checks : ~up[d]}]
    [] q.in.route = "metrics" -> MetricsRoute(q)
    [] OTHER -> [q EXCEPT !.pc = "limit"]

-----------------------------------------------------------------------------
(* The middleware chain, from await to await.                              *)

Put(r, q) == req' = [req EXCEPT ![r] = q]

Dispatch(r, q) ==
  LET m == settings.METRICS_ENABLED IN
  /\ Put(r, Handled([q EXCEPT !.installed = TRUE, !.metered = m,
                              !.late = m /\ ~q.open]))
  /\ active' = IF m THEN active + 1 ELSE active

(* express.json and urlencoded read a body; without one, or with one that  *)
(* the client took along when it left, they pass.                          *)
Parse(r, q) ==
  IF q.in.body = "absent" \/ ~q.open
    THEN Dispatch(r, [q EXCEPT !.in.body = "absent"])
    ELSE Put(r, [q EXCEPT !.pc = "body"]) /\ UNCHANGED active

(* The policy allows, denies or fails: it decides on headers only, but for *)
(* the preflight, which cors answers when it is allowed and passes on      *)
(* otherwise (to a path that no router knows).                             *)
Decided(r, q) ==
  IF q.in.route # "preflight" THEN Parse(r, q)
  ELSE \/ Put(r, Answered(q, 204, "plain")) /\ UNCHANGED active
       \/ q.in.origin /\ Parse(r, [q EXCEPT !.in.route = "unknown"])

Arrive(r, i) ==
  /\ req[r].pc = "idle"
  /\ LET q == [req[r] EXCEPT !.in = i] IN
     IF PolicyAwaits /\ i.origin
       THEN Put(r, [q EXCEPT !.pc = "cors"]) /\ UNCHANGED active
       ELSE Decided(r, q)
  /\ UNCHANGED <<settings, hits, up, own>>

CorsAnswered(r) ==
  /\ req[r].pc = "cors"
  /\ Decided(r, req[r])
  /\ UNCHANGED <<settings, hits, up, own>>

BodyRead(r) ==
  /\ req[r].pc = "body"
  /\ IF req[r].in.body = "malformed" \/ ~req[r].open
       THEN Put(r, Errored(req[r], FALSE, 400)) /\ UNCHANGED active
       ELSE Dispatch(r, req[r])
  /\ UNCHANGED <<settings, hits, up, own>>

(* The address a request seems to come from, behind a reverse proxy.       *)
AlwaysProxy(c) == "proxy" \* fault: the proxy is not trusted
Key(c) == IF settings.TRUST_PROXY THEN c ELSE "proxy"

Count(r) ==
  LET q == req[r] IN
  LET k == Key(q.in.client) IN
  /\ q.pc = "limit"
  /\ hits' = [hits EXCEPT ![k] = @ + 1]
  /\ own' = [own EXCEPT ![q.in.client] = @ + 1]
  /\ Put(r, IF hits[k] >= settings.RATE_LIMIT_MAX
              THEN Enveloped(q, 429) ELSE Routed(q))
  /\ UNCHANGED <<settings, active, up>>

Verify(r) ==
  LET q == req[r] IN
  /\ q.pc = "verify"
  /\ Put(r, CASE ~Verifies(q.in.token) -> Errored(q, TRUE, 401)
               [] Verifies(q.in.token) /\ ~Permitted(q.in.route, q.in.token)
                    -> Errored(q, TRUE, 403)
               [] OTHER -> Validated(q))
  /\ UNCHANGED <<settings, hits, active, up, own>>

Serve(r) ==
  LET q == req[r] IN
  /\ q.pc = "service"
  /\ \/ Put(r, Enveloped(q, 200))
     \/ Put(r, Errored(q, TRUE, 409))
     \/ Put(r, Errored(q, FALSE, 500))
  /\ UNCHANGED <<settings, hits, active, up, own>>

(* metrics.render; a rejected handler promise goes to next as well.        *)
Render(r) ==
  LET q == req[r] IN
  /\ q.pc = "render"
  /\ Put(r, Answered(q, 200, "plain")) \/ Put(r, Errored(q, FALSE, 500))
  /\ UNCHANGED <<settings, hits, active, up, own>>

(* runCheck: a command to a Redis that is down waits for it to return, the *)
(* other checks fail when their dependency is down.                        *)
AllWait(d) == up[d] \* fault: every client waits for its dependency
Answers(d) == d = "redis" => up[d]

ReadyIfAny(q) == IF q.failed # Checks THEN 200 ELSE 503 \* fault: some, not every
ReadyStatus(q) == IF q.failed = {} THEN 200 ELSE 503

CheckSettles(r, d) ==
  /\ req[r].pc = "checks" /\ d \in req[r].pending
  /\ Answers(d)
  /\ LET q == [req[r] EXCEPT
                 !.pending = @ \ {d},
                 !.failed = IF up[d] THEN @ ELSE @ \cup {d}]
     IN  Put(r, IF q.pending = {} THEN Enveloped(q, ReadyStatus(q)) ELSE q)
  /\ UNCHANGED <<settings, hits, active, up, own>>

-----------------------------------------------------------------------------
(* Events of connections, and the environment.                             *)

(* `finish', then `close'.                                                 *)
Flush(r) ==
  /\ req[r].pc = "answered"
  /\ Put(r, Recorded([req[r] EXCEPT !.pc = "flushed"]))
  /\ active' = Decrement(req[r])
  /\ UNCHANGED <<settings, hits, up, own>>

Close(r) ==
  /\ req[r].pc = "flushed"
  /\ Put(r, Recorded([req[r] EXCEPT !.pc = "over", !.open = FALSE]))
  /\ active' = Decrement(req[r])
  /\ UNCHANGED <<settings, hits, up, own>>

(* `close' without `finish'; a handler goes on.                            *)
ClientLeaves(r) ==
  /\ req[r].open /\ req[r].pc \in Handling \cup {"answered"}
  /\ Put(r, Recorded([req[r] EXCEPT
                !.open = FALSE, !.pc = IF @ = "answered" THEN "over" ELSE @]))
  /\ active' = Decrement(req[r])
  /\ UNCHANGED <<settings, hits, up, own>>

WindowEnds(k) ==
  /\ hits[k] > 0
  /\ hits' = [hits EXCEPT ![k] = 0]
  /\ own' = [c \in Clients |-> IF Key(c) = k THEN 0 ELSE own[c]]
  /\ UNCHANGED <<settings, req, active, up>>

DependencyTurns(d) ==
  /\ d \in Checks
  /\ up' = [up EXCEPT ![d] = ~@]
  /\ req' = [r \in Requests |->
       IF req[r].pc # "checks" THEN req[r]
       ELSE IF up[d] THEN [req[r] EXCEPT !.missed = @ \cup {d}]
            ELSE [req[r] EXCEPT !.met = @ \cup {d}]]
  /\ UNCHANGED <<settings, hits, active, own>>

Proceed(r) ==
  \/ CorsAnswered(r)
  \/ BodyRead(r)
  \/ Count(r)
  \/ Verify(r)
  \/ Serve(r)
  \/ Render(r)
  \/ \E d \in Dependencies : CheckSettles(r, d)
  \/ Flush(r)
  \/ Close(r)

PipelineNext ==
  \/ \E r \in Requests, i \in Inputs : Arrive(r, i)
  \/ \E r \in Requests : Proceed(r)
  \/ \E r \in Requests : ClientLeaves(r)
  \/ \E k \in Clients \cup {"proxy"} : WindowEnds(k)
  \/ \E d \in Dependencies : DependencyTurns(d)

PipelineSpec == PipelineInit /\ [][PipelineNext]_pipelineVars

(* Continuations run; policies, bodies, services and sockets settle.       *)
FairPipelineSpec ==
  PipelineSpec /\ \A r \in Requests : WF_pipelineVars(Proceed(r))

-----------------------------------------------------------------------------
RequestType ==
  [pc : Steps, in : InputType \cup {NoInput}, open : BOOLEAN,
   installed : BOOLEAN, metered : BOOLEAN, late : BOOLEAN,
   recorded : Nat, status : Nat, shape : {"none", "envelope", "plain"},
   pending : SUBSET Dependencies, failed : SUBSET Dependencies,
   met : SUBSET Dependencies, missed : SUBSET Dependencies]

PipelineTypeOK ==
  /\ settings \in Settings /\ Accepted(settings)
  /\ req \in [Requests -> RequestType]
  /\ hits \in [Clients \cup {"proxy"} -> Nat]
  /\ active \in Nat
  /\ up \in [Dependencies -> BOOLEAN]
  /\ own \in [Clients -> Nat]

(* The gauge is the number of requests that wait for their answer on an    *)
(* open connection.                                                        *)
Waiting(q) == q.metered /\ q.open /\ q.pc # "flushed"
GaugeTellsWaiting ==
  active = Cardinality({r \in Requests : Waiting(req[r])})

(* The gauge is right where no asynchronous CORS policy decides: finish    *)
(* and close, an early close and a handler that goes on after it count a   *)
(* request down once, whatever order they come in (httpMetrics.ts).        *)
ActiveCountsWaiting == ~PolicyAwaits => GaugeTellsWaiting

(* A service behind a protected route runs for a caller whose token has    *)
(* been verified and permits it: an administrator creates users, a user or *)
(* an administrator reads one (user.routes.ts, authorize.ts), and never    *)
(* for input its schema refuses.                                           *)
ServiceInv(q) ==
  q.pc = "service" =>
    /\ q.in.route = "createUser" => q.in.token = "admin" /\ q.in.valid
    /\ q.in.route = "getUser" => q.in.token \in {"self", "admin"}
    /\ q.in.route = "me" => q.in.token \in {"other", "self", "admin"}
    /\ q.in.route = "auth" => settings.AUTH_ENABLED /\ q.in.body = "whole"
ServicesAreGuarded == \A r \in Requests : ServiceInv(req[r])

Unlimited == {"health", "ready", "metrics"}

(* With the proxy trusted a client is refused only for requests of its own *)
(* in the window, however many others send; and nobody who asks for        *)
(* health, readiness or metrics is (app.ts:83-85).                         *)
RefusedForOwnRequests ==
  [][\A r \in Requests :
       req'[r].status = 429 /\ req[r].status # 429 =>
         /\ req[r].in.route \notin Unlimited
         /\ settings.TRUST_PROXY =>
              own'[req[r].in.client] > settings.RATE_LIMIT_MAX]_pipelineVars

(* Readiness tells the truth about the time of the request: ready when     *)
(* each dependency has answered at a moment of it, not ready when one has  *)
(* been down at a moment of it (health.service.ts:6-27).                   *)
ReadinessInv(q) ==
  q.in.route = "ready" =>
    /\ q.status = 200 => Checks \subseteq q.met
    /\ q.status = 503 => q.missed # {}
ReadinessIsTrue == \A r \in Requests : ReadinessInv(req[r])

(* What is known of a request at each step of its handling; `pending' and  *)
(* `failed' of a readiness request account for each check.                 *)
StepShape(q) ==
  /\ q.pc = "idle" => q.open
  /\ q.pc = "cors" => PolicyAwaits
  /\ q.pc # "idle" => q.in \in InputType
  /\ q.pc \in {"idle"} \cup Handling => q.status = 0
  /\ q.pc \in {"idle", "cors", "body"} =>
       ~q.metered /\ ~q.late /\ q.failed = {}
  /\ q.pc \in {"answered", "flushed"} => q.open
  /\ q.pc \in {"limit", "verify", "service"} =>
       q.in.route \notin Unlimited /\ q.in.body # "malformed"
  /\ q.pc = "verify" => q.in.route # "auth"
  /\ q.pc = "render" => q.in.route = "metrics"
MeterShape(q) ==
  /\ ~q.metered => q.recorded = 0
  /\ q.late => q.metered /\ ~q.open /\ PolicyAwaits
  /\ q.metered /\ ~q.late => (q.recorded = 0 <=> q.open /\ q.pc # "flushed")
CheckShape(q) ==
  q.pc = "checks" =>
    /\ \A d \in Checks : IF up[d] THEN d \in q.met ELSE d \in q.missed
    /\ q.pending \subseteq Checks
    /\ Checks \subseteq q.pending \cup q.failed \cup q.met
    /\ q.failed \subseteq q.missed
RequestInv(q) ==
  /\ StepShape(q) /\ MeterShape(q) /\ CheckShape(q)
  /\ ServiceInv(q) /\ ReadinessInv(q)

(* What the gauge counts besides: the requests whose client left while an  *)
(* asynchronous CORS policy decided, for ever.                             *)
Counted(q) == Waiting(q) \/ q.late
ActiveCountsCounted ==
  active = Cardinality({r \in Requests : Counted(req[r])})

(* The inductive strengthening: also, the limiter counts for a client, by  *)
(* its own address, no more than the client has sent.                      *)
PipelineInv ==
  /\ PipelineTypeOK
  /\ \A r \in Requests : RequestInv(req[r])
  /\ ActiveCountsCounted
  /\ settings.TRUST_PROXY => \A c \in Clients : hits[c] <= own[c]

(* Once Redis, where it is used, stays up, every request ends: answered,   *)
(* or its handler done after its client has left.                          *)
EveryRequestEnds ==
  <>[]("redis" \in Checks => up["redis"]) =>
    \A r \in Requests : req[r].pc # "idle" ~> req[r].pc = "over"

(* "If any layer throws an error, the global error handler produces the    *)
(* error response" (docs/BEGINNER_GUIDE.md:68), in the standard envelope.  *)
ErrorsHaveEnvelope ==
  \A r \in Requests :
    req[r].in.route # "metrics" /\ req[r].status >= 400 =>
      req[r].shape = "envelope"

(* "HTTP requests currently being processed" (MetricsService.ts:28): the   *)
(* gauge is right at least when no request is being handled, even one      *)
(* whose client has left.                                                  *)
GaugeComesDown ==
  (\A r \in Requests : req[r].pc \in {"idle", "over"}) => GaugeTellsWaiting

(* "A failed required dependency returns HTTP 503"                         *)
(* (docs/OPERATIONS.md:51): when each dependency ends up working or ends   *)
(* up down, a readiness request does not wait for ever.                    *)
FailedDependencyIsReported ==
  (\A d \in Dependencies : <>[]up[d] \/ <>[]~up[d]) =>
    \A r \in Requests : req[r].pc = "checks" ~> req[r].pc # "checks"

=============================================================================
