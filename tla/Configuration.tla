---------------------------- MODULE Configuration ----------------------------
(***************************************************************************)
(* config/environment.ts: what the process accepts as its environment.     *)
(* The schema is parsed once, when the module is first imported; a start   *)
(* with settings that are not accepted ends there.  Texts that the program *)
(* only compares with the empty one are BOOLEAN (given or not), and a      *)
(* secret is one of three kinds.                                           *)
(***************************************************************************)
EXTENDS Integers

NodeEnvs == {"development", "test", "staging", "production"}

(* Shorter than 32 characters, the default (which says change-me), or one  *)
(* that the operator chose.                                                *)
Secrets == {"short", "default", "own"}

Settings ==
  [NODE_ENV : NodeEnvs, TRUST_PROXY : BOOLEAN, RATE_LIMIT_MAX : Nat \ {0},
   DATABASE_PROVIDER : {"memory", "prisma"}, DATABASE_URL : BOOLEAN,
   AUTH_ENABLED : BOOLEAN,
   ACCESS_TOKEN_SECRET : Secrets, REFRESH_TOKEN_SECRET : Secrets,
   QUEUE_PROVIDER : {"inline", "bullmq"}, REDIS_URL : BOOLEAN,
   EMAIL_PROVIDER : {"console", "smtp"}, SMTP_HOST : BOOLEAN,
   STORAGE_PROVIDER : {"local", "s3"}, S3_BUCKET : BOOLEAN, S3_KEYS : BOOLEAN,
   METRICS_ENABLED : BOOLEAN, METRICS_TOKEN : BOOLEAN]

(* Nothing set: every field has its default.                               *)
Defaults ==
  [NODE_ENV |-> "development", TRUST_PROXY |-> FALSE, RATE_LIMIT_MAX |-> 300,
   DATABASE_PROVIDER |-> "memory", DATABASE_URL |-> FALSE,
   AUTH_ENABLED |-> TRUE,
   ACCESS_TOKEN_SECRET |-> "default", REFRESH_TOKEN_SECRET |-> "default",
   QUEUE_PROVIDER |-> "inline", REDIS_URL |-> FALSE,
   EMAIL_PROVIDER |-> "console", SMTP_HOST |-> FALSE,
   STORAGE_PROVIDER |-> "local", S3_BUCKET |-> FALSE, S3_KEYS |-> FALSE,
   METRICS_ENABLED |-> TRUE, METRICS_TOKEN |-> FALSE]

-----------------------------------------------------------------------------
(* superRefine.                                                            *)

Production(v) == v.NODE_ENV = "production"

SecretsAre(v, kinds) ==
  v.ACCESS_TOKEN_SECRET \in kinds /\ v.REFRESH_TOKEN_SECRET \in kinds

AdaptersConfigured(v) ==
  /\ v.DATABASE_PROVIDER = "prisma" => v.DATABASE_URL
  /\ v.QUEUE_PROVIDER = "bullmq" => v.REDIS_URL
  /\ v.EMAIL_PROVIDER = "smtp" => v.SMTP_HOST
  /\ v.STORAGE_PROVIDER = "s3" => v.S3_BUCKET /\ v.S3_KEYS
  /\ v.AUTH_ENABLED => SecretsAre(v, {"default", "own"})

FitForProduction(v) ==
  /\ v.METRICS_ENABLED => v.METRICS_TOKEN
  /\ v.DATABASE_PROVIDER = "prisma"
  /\ v.AUTH_ENABLED => SecretsAre(v, {"short", "own"})
  /\ v.EMAIL_PROVIDER # "console"
  /\ v.QUEUE_PROVIDER = "bullmq"
  /\ v.STORAGE_PROVIDER # "local"

Accepted(v) == AdaptersConfigured(v) /\ (Production(v) => FitForProduction(v))

=============================================================================
