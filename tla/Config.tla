-------------------------------- MODULE Config --------------------------------
(***************************************************************************)
(* What config.Load makes of the environment: which environments it        *)
(* accepts, and the values the other components then get.                  *)
(*                                                                         *)
(* A raw value is blank, a number (of milliseconds, if it is a duration),  *)
(* or a word.  A word is taken as trimmed and in lower case; "junk" stands *)
(* for one that the parser of its variable refuses, if it has one, and     *)
(* "nan" is one that strconv.ParseFloat knows.                             *)
(***************************************************************************)
EXTENDS Integers

Word(w) == [word |-> w, number |-> 0]
Number(n) == [word |-> "number", number |-> n]
Blank == Word("")

Second == 1000

\* parsePositiveInt and parsePositiveDuration, and where the same is written out.
PositiveVariables ==
  {"REQUEST_TIMEOUT", "AUDIT_CHANNEL_SIZE", "AUDIT_BATCH_SIZE", "AUDIT_FLUSH_INTERVAL",
   "AUDIT_SHUTDOWN_FLUSH_TIMEOUT", "AUDIT_ENQUEUE_TIMEOUT", "AUDIT_CRITICAL_ENQUEUE_TIMEOUT",
   "AUDIT_RETRY_MAX_ATTEMPTS", "AUDIT_RETRY_INITIAL_BACKOFF", "AUDIT_RETRY_MAX_BACKOFF",
   "RATE_LIMIT_REQUESTS", "RATE_LIMIT_WINDOW"}

\* parseNonNegativeInt and parseNonNegativeDuration, and AUDIT_RETENTION_DAYS.
NonNegativeVariables ==
  {"AUDIT_DB_MAX_OPEN_CONNS", "AUDIT_DB_MAX_IDLE_CONNS", "AUDIT_DB_CONN_MAX_LIFETIME",
   "AUDIT_DB_CONN_MAX_IDLE_TIME", "AUDIT_RETENTION_DAYS", "AUDIT_PRUNE_INTERVAL"}

\* The numbers with bounds of their own.
BoundedVariables == {"APPCHECK_TOKEN_TTL", "VERIFY_SUCCESS_STATUS", "VERIFY_FAILURE_STATUS"}

BooleanVariables ==
  {"TRUST_PROXY_HEADERS", "ADMIN_DASHBOARD_ENABLED", "AUDIT_ENABLED", "AUDIT_ASYNC_ENABLED",
   "AUDIT_DROP_ON_FULL", "RATE_LIMIT_ENABLED"}

\* parseSampleRate.
RateVariables ==
  {"AUDIT_VERIFY_SUCCESS_SAMPLE_RATE", "AUDIT_VERIFY_FAILURE_SAMPLE_RATE",
   "AUDIT_EXCHANGE_SUCCESS_SAMPLE_RATE", "AUDIT_EXCHANGE_FAILURE_SAMPLE_RATE"}

\* The words that are accepted, but for blank, which has a default.
Choices ==
  [v \in {"E2E_UPSTREAM_MODE", "ADMIN_AUTH_MODE", "AUDIT_STORAGE_TYPE", "AUDIT_PUBLIC_MODE"} |->
     CASE v = "E2E_UPSTREAM_MODE" -> {"mock"}
       [] v = "ADMIN_AUTH_MODE" -> {"header", "none"}
       [] v = "AUDIT_STORAGE_TYPE" -> {"sqlite", "postgres", "postgresql", "mariadb", "mysql"}
       [] v = "AUDIT_PUBLIC_MODE" -> {"summary", "step", "failure_step"}]

\* Required outside mock mode; either of the last two is the service account,
\* and FIREBASE_APP_ID may be left out when FIREBASE_APP_RESOURCE is given.
Secrets == {"TURNSTILE_SECRET_KEY", "FIREBASE_PROJECT_ID"}
Accounts == {"GOOGLE_SERVICE_ACCOUNT_JSON_BASE64", "GOOGLE_SERVICE_ACCOUNT_JSON"}

\* Words that any component may get as they are.
FreeVariables ==
  Secrets \cup Accounts \cup
  {"FIREBASE_APP_ID", "FIREBASE_APP_RESOURCE", "ALLOWED_EXCHANGE_ORIGINS", "ADMIN_BASE_PATH",
   "AUDIT_DSN", "E2E_TURNSTILE_PASS_TOKEN", "E2E_TURNSTILE_FAIL_TOKEN"}

NumberVariables == PositiveVariables \cup NonNegativeVariables \cup BoundedVariables
Variables == NumberVariables \cup BooleanVariables \cup RateVariables
               \cup DOMAIN Choices \cup FreeVariables

Default ==
  [v \in Variables |->
     CASE v = "REQUEST_TIMEOUT" -> Number(10 * Second)
       [] v = "APPCHECK_TOKEN_TTL" -> Number(30 * 60 * Second)
       [] v \in {"AUDIT_FLUSH_INTERVAL", "AUDIT_RETRY_INITIAL_BACKOFF"} -> Number(100)
       [] v = "AUDIT_ENQUEUE_TIMEOUT" -> Number(5)
       [] v = "AUDIT_CRITICAL_ENQUEUE_TIMEOUT" -> Number(50)
       [] v = "AUDIT_CHANNEL_SIZE" -> Number(50000)
       [] v = "AUDIT_BATCH_SIZE" -> Number(1000)
       [] v = "AUDIT_SHUTDOWN_FLUSH_TIMEOUT" -> Number(5 * Second)
       [] v = "AUDIT_RETRY_MAX_ATTEMPTS" -> Number(3)
       [] v = "AUDIT_RETRY_MAX_BACKOFF" -> Number(2 * Second)
       [] v = "RATE_LIMIT_REQUESTS" -> Number(120)
       [] v = "RATE_LIMIT_WINDOW" -> Number(60 * Second)
       [] v = "AUDIT_RETENTION_DAYS" -> Number(90)
       [] v = "AUDIT_PRUNE_INTERVAL" -> Number(24 * 3600 * Second)
       [] v \in {"AUDIT_DB_MAX_OPEN_CONNS", "AUDIT_DB_MAX_IDLE_CONNS",
                 "AUDIT_DB_CONN_MAX_LIFETIME", "AUDIT_DB_CONN_MAX_IDLE_TIME"} -> Number(0)
       [] v = "VERIFY_SUCCESS_STATUS" -> Number(204)
       [] v = "VERIFY_FAILURE_STATUS" -> Number(401)
       [] v = "TRUST_PROXY_HEADERS" -> Word("false")
       [] v \in BooleanVariables \ {"TRUST_PROXY_HEADERS"} -> Word("true")
       [] v = "AUDIT_VERIFY_SUCCESS_SAMPLE_RATE" -> Number(0)
       [] v \in RateVariables \ {"AUDIT_VERIFY_SUCCESS_SAMPLE_RATE"} -> Number(1)
       [] v = "ADMIN_AUTH_MODE" -> Word("header")
       [] v = "AUDIT_STORAGE_TYPE" -> Word("sqlite")
       [] v = "AUDIT_PUBLIC_MODE" -> Word("failure_step")
       [] v = "ADMIN_BASE_PATH" -> Word("/admin")
       [] v = "E2E_TURNSTILE_PASS_TOKEN" -> Word("e2e-turnstile-pass")
       [] v = "E2E_TURNSTILE_FAIL_TOKEN" -> Word("e2e-turnstile-fail")
       [] OTHER -> Blank]

\* getOrDefault: a variable that is not set is as good as blank.
Value(env, v) == IF env[v] = Blank THEN Default[v] ELSE env[v]

IsMock(env) == Value(env, "E2E_UPSTREAM_MODE").word = "mock"

\* variant
NumberAcceptedWithZero(v, x) ==
  x.word = "number" /\
    CASE v \in PositiveVariables \cup NonNegativeVariables -> x.number >= 0
      [] v = "APPCHECK_TOKEN_TTL" -> x.number \in 30 * 60 * Second .. 7 * 24 * 3600 * Second
      [] v = "VERIFY_SUCCESS_STATUS" -> x.number \in 200..299
      [] v = "VERIFY_FAILURE_STATUS" -> x.number \in 100..599 \ 200..299

NumberAccepted(v, x) ==
  x.word = "number" /\
    CASE v \in PositiveVariables -> x.number > 0
      [] v \in NonNegativeVariables -> x.number >= 0
      [] v = "APPCHECK_TOKEN_TTL" -> x.number \in 30 * 60 * Second .. 7 * 24 * 3600 * Second
      [] v = "VERIFY_SUCCESS_STATUS" -> x.number \in 200..299
      [] v = "VERIFY_FAILURE_STATUS" -> x.number \in 100..599 \ 200..299

\* strconv.ParseBool.
Yes == {Word("true"), Number(1)}
No == {Word("false"), Number(0)}

\* A comparison with NaN is false: parseSampleRate lets it pass.
RateAccepted(x) == x.word = "nan" \/ (x.word = "number" /\ x.number \in 0..1)

\* What is required only when it is used: in mock mode or outside of it.
UpstreamsAccepted(env) ==
  IF IsMock(env)
  THEN Value(env, "E2E_TURNSTILE_PASS_TOKEN") # Value(env, "E2E_TURNSTILE_FAIL_TOKEN")
  ELSE /\ \A v \in Secrets : env[v] # Blank
       /\ \E v \in Accounts : env[v] # Blank
       /\ env["GOOGLE_SERVICE_ACCOUNT_JSON_BASE64"].word # "junk"
       /\ env["FIREBASE_APP_ID"] # Blank \/ env["FIREBASE_APP_RESOURCE"] # Blank
       /\ env["FIREBASE_APP_RESOURCE"].word # "junk"

Accepts(env) ==
  /\ \A v \in NumberVariables : NumberAccepted(v, Value(env, v))
  /\ \A v \in BooleanVariables : Value(env, v) \in Yes \cup No
  /\ \A v \in RateVariables : RateAccepted(Value(env, v))
  /\ \A v \in DOMAIN Choices : env[v] = Blank \/ env[v].word \in Choices[v]
  /\ Value(env, "ADMIN_BASE_PATH").word # "/"
  /\ env["ALLOWED_EXCHANGE_ORIGINS"].word # "junk"
  /\ UpstreamsAccepted(env)

Enabled(env, v) == Value(env, v) \in Yes

\* What bunrepo.Open needs and Load does not ask for.
StoreNamed(env) == Value(env, "AUDIT_STORAGE_TYPE").word = "sqlite" \/ env["AUDIT_DSN"] # Blank

-----------------------------------------------------------------------------
(* What the other components rely on.                                      *)

\* RecorderAssumption, and that the tickers and timers of the recorder, whose
\* constructor would otherwise panic or fire at once, get a positive duration.
RecorderSound(env) ==
  \A v \in {"AUDIT_CHANNEL_SIZE", "AUDIT_BATCH_SIZE", "AUDIT_RETRY_MAX_ATTEMPTS",
            "AUDIT_FLUSH_INTERVAL", "AUDIT_SHUTDOWN_FLUSH_TIMEOUT", "AUDIT_ENQUEUE_TIMEOUT",
            "AUDIT_CRITICAL_ENQUEUE_TIMEOUT", "AUDIT_RETRY_INITIAL_BACKOFF",
            "AUDIT_RETRY_MAX_BACKOFF"} : Value(env, v).number > 0

\* RateLimiterAssumption.
LimiterSound(env) ==
  Value(env, "RATE_LIMIT_REQUESTS").number > 0 /\ Value(env, "RATE_LIMIT_WINDOW").number > 0

\* GatewayAssumption, except that the statuses 100..199 are not excluded, a request
\* timeout that leaves time for a request, and a token that can be told to expire.
GatewaySound(env) ==
  /\ Value(env, "REQUEST_TIMEOUT").number > 0
  /\ Value(env, "APPCHECK_TOKEN_TTL").number >= 30 * 60 * Second
  /\ Value(env, "VERIFY_SUCCESS_STATUS").number \in 200..299
  /\ Value(env, "VERIFY_FAILURE_STATUS").number \notin 200..299
  /\ Value(env, "AUDIT_PUBLIC_MODE").word \in {"summary", "step", "failure_step"}
  /\ IsMock(env) => Value(env, "E2E_TURNSTILE_PASS_TOKEN") # Value(env, "E2E_TURNSTILE_FAIL_TOKEN")

Sound(env) == RecorderSound(env) /\ LimiterSound(env) /\ GatewaySound(env)
=============================================================================
