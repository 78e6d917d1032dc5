-------------------------- MODULE MCRequestPipeline --------------------------
(* Instances of RequestPipeline for TLC: three deployments, one of them    *)
(* with an asynchronous CORS policy, and a request for each path through   *)
(* the chain.                                                              *)
EXTENDS RequestPipeline

Bare ==
  [Defaults EXCEPT !.RATE_LIMIT_MAX = 1, !.AUTH_ENABLED = FALSE,
                   !.METRICS_ENABLED = FALSE]
Staging ==
  [Defaults EXCEPT !.NODE_ENV = "staging", !.TRUST_PROXY = TRUE,
                   !.RATE_LIMIT_MAX = 1, !.QUEUE_PROVIDER = "bullmq",
                   !.REDIS_URL = TRUE, !.METRICS_TOKEN = TRUE]
Guarded ==
  [Defaults EXCEPT !.RATE_LIMIT_MAX = 1, !.AUTH_ENABLED = FALSE]
TheDeployments == {Bare, Staging, Guarded}
TheAwaiting == {Guarded}

Get(c, route, token) ==
  [client |-> c, route |-> route, token |-> token, body |-> "absent",
   valid |-> TRUE, origin |-> FALSE]
Post(c, route, token) == [Get(c, route, token) EXCEPT !.body = "whole"]

TheInputs ==
  {Get("ann", "health", "none"), Get("ann", "metrics", "scrape"),
   Get("ann", "metrics", "none"), Get("ann", "unknown", "none"),
   [Get("ann", "ready", "none") EXCEPT !.origin = TRUE],
   [Get("ann", "preflight", "none") EXCEPT !.origin = TRUE],
   Get("ann", "getUser", "other"), Get("bob", "getUser", "self"),
   Post("bob", "createUser", "admin"), Post("ann", "createUser", "self"),
   [Post("bob", "createUser", "admin") EXCEPT !.valid = FALSE],
   [Post("ann", "auth", "none") EXCEPT !.origin = TRUE],
   [Post("ann", "auth", "none") EXCEPT !.body = "malformed"]}
=============================================================================
