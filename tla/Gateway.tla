------------------------------ MODULE Gateway ------------------------------
(***************************************************************************)
(* The public routes of the gateway: POST /exchange, its preflight, and    *)
(* /verify, from the middlewares to the deferred summary event             *)
(* (internal/httpserver, internal/middleware, internal/handlers), with the *)
(* policy that decides what each audit event becomes (internal/audit) and  *)
(* the upstream services they call.                                        *)
(*                                                                         *)
(* Every request runs on a goroutine of its own.  Requests meet at the     *)
(* upstreams: Siteverify accepts a Turnstile token once, and the OAuth     *)
(* token that Firebase wants is cached and fetched under one lock.  The    *)
(* verdict of the rate limiter, modelled in RateLimiter, is an input here; *)
(* what the recorder does with an event is the subject of AsyncRecorder.   *)
(***************************************************************************)
EXTENDS Naturals, FiniteSets

CONSTANTS
    Requests,       \* the requests
    Tokens,         \* Turnstile response tokens
    Configs         \* configurations: AUDIT_PUBLIC_MODE, the sample rates and
                    \* VERIFY_FAILURE_STATUS

Modes == {"summary", "step", "failure_step"}
Rates == {"never", "sometimes", "always"}
Routes == {"preflight", "exchange", "verify"}
Faults == {"content_type", "origin", "body"}
Priorities == {"critical", "normal", "best_effort"}
SuccessStatus == 204    \* VERIFY_SUCCESS_STATUS
NoRequest == "none"

(* Load refuses a VERIFY_FAILURE_STATUS that is 2xx.  It accepts 1xx, which *)
(* net/http sends as an interim answer before a 200: not modelled.         *)
ASSUME GatewayAssumption ==
    /\ NoRequest \notin Requests
    /\ Tokens # {}
    /\ Configs \subseteq [mode : Modes, success : [{"exchange", "verify"} -> Rates],
                          failure : [{"exchange", "verify"} -> Rates],
                          failureStatus : 300..599]

VARIABLES
    config,     \* the configuration, which never changes
    at,         \* at[r]: how far r has come
    input,      \* input[r]: what r carries
    status,     \* status[r]: c.Writer.Status(), 200 until something is written
    trail,      \* trail[r]: the events recorded for r, with their decisions
    ended,      \* ended[r]: r's context has ended: client gone or REQUEST_TIMEOUT
    answer,     \* answer[r]: r's call of Siteverify, or the answer on its way
    redeemed,   \* Siteverify: the tokens it has accepted
    verified,   \* history: verified[r]: r was told that its token is good
    holder,     \* OAuth token source: the request that fetches under its lock
    cached      \* OAuth token source: a valid token is cached

upstream == <<answer, redeemed, verified, holder, cached>>
vars == <<config, at, input, status, trail, ended, upstream>>

Inputs == [route : Routes, faults : SUBSET Faults, token : Tokens]
NoInput == [route |-> "preflight", faults |-> {}, token |-> CHOOSE t \in Tokens : TRUE]
Actions == {"rate_limit.denied", "exchange.request", "verify.request", "turnstile.verify",
            "appcheck.exchange", "appcheck.verify", "forwardauth.denied"}
Decisions == [persist : BOOLEAN, count : BOOLEAN, priority : Priorities]
Events == [action : Actions, status : 100..599, result : {"success", "failure", "denied"},
           decision : Decisions]

TypeOK ==
    /\ config \in Configs
    /\ at \in [Requests -> {"idle", "limiter", "handler", "turnstile", "oauth", "fetching",
                            "firebase", "deferred", "done"}]
    /\ input \in [Requests -> Inputs]
    /\ status \in [Requests -> 100..599]
    /\ trail \in [Requests -> SUBSET Events]
    /\ ended \in [Requests -> BOOLEAN]
    /\ answer \in [Requests -> {"none", "asked", "accepted", "rejected"}]
    /\ redeemed \subseteq Tokens
    /\ verified \in [Requests -> BOOLEAN]
    /\ holder \in Requests \cup {NoRequest}
    /\ cached \in BOOLEAN

Init ==
    /\ config \in Configs
    /\ at = [r \in Requests |-> "idle"]
    /\ input = [r \in Requests |-> NoInput]
    /\ status = [r \in Requests |-> 200]
    /\ trail = [r \in Requests |-> {}]
    /\ ended = [r \in Requests |-> FALSE]
    /\ answer = [r \in Requests |-> "none"]
    /\ redeemed = {}
    /\ verified = [r \in Requests |-> FALSE]
    /\ holder = NoRequest
    /\ cached = FALSE
-----------------------------------------------------------------------------
(* Policy.Decide: what may become of an event, given the random sampling.  *)

Decision(persist, count, priority) ==
    [persist |-> persist, count |-> count, priority |-> priority]

Sample(rate) == CASE rate = "never" -> {FALSE}
                  [] rate = "always" -> {TRUE}
                  [] OTHER -> BOOLEAN

Failed(e) == e.result # "success" \/ e.status >= 400

SuccessPriority(route) == IF route = "verify" THEN "best_effort" ELSE "normal"

decideSummary(e, route) ==
    IF Failed(e)
    THEN {Decision(p, TRUE, "critical") : p \in Sample(config.failure[route])}
    ELSE {Decision(p, TRUE, SuccessPriority(route)) : p \in Sample(config.success[route])}

StepsCounted(e, route) ==       \* variant
    {Decision(TRUE, TRUE, "critical")}
FailedStepsSampled(e, route) == \* variant
    {Decision(p, FALSE, "best_effort") : p \in Sample(config.success[route])}
decideStep(e, route) ==
    IF Failed(e)
    THEN IF config.mode = "summary" THEN {Decision(FALSE, FALSE, "normal")}
                                    ELSE {Decision(TRUE, FALSE, "critical")}
    ELSE IF config.mode # "step" THEN {Decision(FALSE, FALSE, "best_effort")}
         ELSE {Decision(p, FALSE, "best_effort") : p \in Sample(config.success[route])}

Decide(e, route) ==
    CASE e.action = "rate_limit.denied" -> {Decision(TRUE, TRUE, "critical")}
      [] e.action = "forwardauth.denied" -> {Decision(TRUE, FALSE, "critical")}
      [] e.action \in {"exchange.request", "verify.request"} -> decideSummary(e, route)
      [] OTHER -> decideStep(e, route)
-----------------------------------------------------------------------------
(* The steps of a request.                                                 *)

Event(action, code, result) == [action |-> action, status |-> code, result |-> result]

(* The recorder is given the events, each with a decision of the policy.   *)
Record(r, events) ==
    \E choice \in [events -> Decisions] :
        /\ \A e \in events : choice[e] \in Decide(e, input[r].route)
        /\ trail' = [trail EXCEPT ![r] = @ \cup
                {[action |-> e.action, status |-> e.status, result |-> e.result,
                  decision |-> choice[e]] : e \in events}]

Goes(r, from, to) == at[r] = from /\ at' = [at EXCEPT ![r] = to]
Writes(r, code) == status' = [status EXCEPT ![r] = code]
Silent == UNCHANGED trail

Arrive(r, i) ==
    /\ Goes(r, "idle", "limiter")
    /\ input' = [input EXCEPT ![r] = i]
    /\ UNCHANGED <<config, status, trail, ended, upstream>>

(* ExchangeCORS and the OPTIONS route: no limiter, no audit event.         *)
Preflight(r) ==
    /\ input[r].route = "preflight" /\ Goes(r, "limiter", "done")
    /\ \E code \in {204, 403, 405} : Writes(r, code)
    /\ UNCHANGED <<config, input, trail, ended, upstream>>

Limited(r) ==
    /\ input[r].route # "preflight" /\ Goes(r, "limiter", "done")
    /\ Record(r, {Event("rate_limit.denied", 429, "denied")})
    /\ Writes(r, 429)
    /\ UNCHANGED <<config, input, ended, upstream>>

Admitted(r) ==
    /\ input[r].route # "preflight" /\ Goes(r, "limiter", "handler")
    /\ UNCHANGED <<config, input, status, trail, ended, upstream>>

(* The context of a request ends when the client goes away, or when the    *)
(* timeout passes that Handle gives it before it calls an upstream.        *)
ContextEnds(r) ==
    /\ at[r] \in {"turnstile", "oauth", "fetching", "firebase"} /\ ~ended[r]
    /\ ended' = [ended EXCEPT ![r] = TRUE]
    /\ UNCHANGED <<config, at, input, status, trail, upstream>>

(* The first fault in the order of the checks gives the status.            *)
Reject(r) ==
    /\ input[r].route = "exchange" /\ input[r].faults # {}
    /\ Goes(r, "handler", "deferred")
    /\ Writes(r, IF "content_type" \in input[r].faults THEN 415
                 ELSE IF "origin" \in input[r].faults THEN 403 ELSE 400)
    /\ UNCHANGED <<config, input, trail, ended, upstream>>

CallTurnstile(r) ==
    /\ input[r].route = "exchange" /\ input[r].faults = {}
    /\ Goes(r, "handler", "turnstile")
    /\ answer' = [answer EXCEPT ![r] = "asked"]
    /\ UNCHANGED <<config, input, status, trail, ended, redeemed, verified, holder, cached>>

(* Siteverify accepts a token at most once, and none that has expired.  It *)
(* may do so after the call has failed at this end.                        *)
Siteverify(r) ==
    /\ answer[r] = "asked"
    /\ \/ /\ input[r].token \notin redeemed
          /\ redeemed' = redeemed \cup {input[r].token}
          /\ answer' = [answer EXCEPT ![r] = "accepted"]
       \/ /\ answer' = [answer EXCEPT ![r] = "rejected"]
          /\ UNCHANGED redeemed
    /\ UNCHANGED <<config, at, input, status, trail, ended, verified, holder, cached>>

AnyAnswer(r) == answer[r] \in {"accepted", "rejected"}  \* variant
Success(r) == answer[r] = "accepted"

TurnstileAccepts(r) ==
    /\ Success(r) /\ ~ended[r]
    /\ Goes(r, "turnstile", "oauth")
    /\ Record(r, {Event("turnstile.verify", 200, "success")})
    /\ verified' = [verified EXCEPT ![r] = answer[r] = "accepted"]
    /\ UNCHANGED <<config, input, status, ended, answer, redeemed, holder, cached>>

TurnstileRejects(r) ==
    /\ answer[r] = "rejected" /\ ~ended[r]
    /\ Goes(r, "turnstile", "deferred")
    /\ Record(r, {Event("turnstile.verify", 400, "failure")})
    /\ Writes(r, 400)
    /\ UNCHANGED <<config, input, ended, upstream>>

(* The call fails on the way there or back, or with the context: the token *)
(* may have been redeemed all the same.                                    *)
TurnstileFails(r) ==
    /\ Goes(r, "turnstile", "deferred")
    /\ Record(r, {Event("turnstile.verify", 502, "failure")})
    /\ Writes(r, 502)
    /\ UNCHANGED <<config, input, ended, upstream>>

ExchangeFails(r, from) ==
    /\ Goes(r, from, "deferred")
    /\ Record(r, {Event("appcheck.exchange", 502, "failure")})
    /\ Writes(r, 502)
    /\ UNCHANGED <<config, input, ended, answer, redeemed, verified>>

(* BuildCustomToken cannot sign.                                           *)
SigningFails(r) == ExchangeFails(r, "oauth") /\ UNCHANGED <<holder, cached>>

(* tokenSource.Token(): whoever finds no valid token fetches one and keeps *)
(* the lock meanwhile.  The fetch does not run under the request's context *)
(* nor under a timeout of its own.                                         *)
UseCachedToken(r) ==
    /\ cached /\ holder = NoRequest
    /\ Goes(r, "oauth", "firebase")
    /\ UNCHANGED <<config, input, status, trail, ended, upstream>>

BeginFetch(r) ==
    /\ ~cached /\ holder = NoRequest
    /\ Goes(r, "oauth", "fetching")
    /\ holder' = r
    /\ UNCHANGED <<config, input, status, trail, ended, answer, redeemed, verified, cached>>

FetchSucceeds(r) ==
    /\ Goes(r, "fetching", "firebase")
    /\ holder' = NoRequest /\ cached' = TRUE
    /\ UNCHANGED <<config, input, status, trail, ended, answer, redeemed, verified>>

LockKept(r) ==           \* variant
    ExchangeFails(r, "fetching") /\ UNCHANGED <<holder, cached>>
FetchFails(r) ==
    /\ ExchangeFails(r, "fetching")
    /\ holder' = NoRequest /\ UNCHANGED cached

TokenExpires ==
    /\ cached /\ cached' = FALSE
    /\ UNCHANGED <<config, at, input, status, trail, ended, answer, redeemed, verified, holder>>

FirebaseAnswers(r) ==
    /\ ~ended[r]
    /\ Goes(r, "firebase", "deferred")
    /\ Record(r, {Event("appcheck.exchange", 200, "success")})
    /\ Writes(r, 200)
    /\ UNCHANGED <<config, input, ended, upstream>>

FirebaseFails(r) == ExchangeFails(r, "firebase") /\ UNCHANGED <<holder, cached>>

(* VerifyHandler: the denial is recorded twice, as a failed step and as a  *)
(* denied forwardAuth.                                                     *)
VerifyDenied(r) ==
    /\ input[r].route = "verify"
    /\ Goes(r, "handler", "deferred")
    /\ Record(r, {Event("appcheck.verify", config.failureStatus, "failure"),
                  Event("forwardauth.denied", config.failureStatus, "denied")})
    /\ Writes(r, config.failureStatus)
    /\ UNCHANGED <<config, input, ended, upstream>>

VerifyAllowed(r) ==
    /\ input[r].route = "verify"
    /\ Goes(r, "handler", "deferred")
    /\ Record(r, {Event("appcheck.verify", SuccessStatus, "success")})
    /\ Writes(r, SuccessStatus)
    /\ UNCHANGED <<config, input, ended, upstream>>

(* requestAuditEvent: the result is read off the status that was written.  *)
StatusAtStart(r) == 200     \* variant
StatusIfBody(r) == IF status[r] = SuccessStatus THEN 0 ELSE status[r]   \* variant
SummaryStatus(r) == status[r]

Summary(r) ==
    /\ Goes(r, "deferred", "done")
    /\ Record(r, {Event(IF input[r].route = "exchange" THEN "exchange.request"
                                                       ELSE "verify.request",
                        SummaryStatus(r),
                        IF SummaryStatus(r) >= 400 THEN "failure" ELSE "success")})
    /\ UNCHANGED <<config, input, status, ended, upstream>>

Handle(r) ==
    \/ Preflight(r) \/ Limited(r) \/ Admitted(r)
    \/ Reject(r) \/ CallTurnstile(r)
    \/ TurnstileAccepts(r) \/ TurnstileRejects(r) \/ TurnstileFails(r)
    \/ SigningFails(r) \/ UseCachedToken(r) \/ BeginFetch(r)
    \/ FirebaseAnswers(r) \/ FirebaseFails(r)
    \/ VerifyDenied(r) \/ VerifyAllowed(r) \/ Summary(r)

Fetch(r) == FetchSucceeds(r) \/ FetchFails(r)

Next == \/ \E r \in Requests : \/ \E i \in Inputs : Arrive(r, i)
                               \/ Handle(r) \/ Fetch(r) \/ ContextEnds(r) \/ Siteverify(r)
        \/ TokenExpires

Spec == Init /\ [][Next]_vars

(* A handler that can go on does; the timeout passes and ends a call that  *)
(* runs under it; the lock of the token source is fair.  Of the services   *)
(* nothing is assumed.                                                     *)
Fairness == \A r \in Requests :
    /\ WF_vars(at[r] \in {"limiter", "handler", "deferred"} /\ Handle(r))
    /\ WF_vars(ContextEnds(r))
    /\ WF_vars(ended[r] /\ (TurnstileFails(r) \/ FirebaseFails(r)))
    /\ SF_vars(UseCachedToken(r) \/ BeginFetch(r))

FairSpec == Spec /\ Fairness

(* Google's token endpoint answers in the end.                             *)
AnsweringSpec == FairSpec /\ \A r \in Requests : WF_vars(Fetch(r))
-----------------------------------------------------------------------------
(* Properties.                                                             *)

Done(r) == at[r] = "done"
Recorded(r, actions) == {e \in trail[r] : e.action \in actions}
Persisted(r) == {e \in trail[r] : e.decision.persist}
Counted(r) == {e \in trail[r] : e.decision.count}

(* An App Check token is returned only to a request without fault that     *)
(* Siteverify accepted, and its trail shows the two upstream steps.        *)
IssuedTo(r) == Done(r) /\ input[r].route = "exchange" /\ status[r] = 200
IssuedOnlyToVerified ==
    \A r \in Requests : IssuedTo(r) =>
        /\ input[r].faults = {} /\ verified[r]
        /\ \A a \in {"turnstile.verify", "appcheck.exchange"} :
               \E e \in Recorded(r, {a}) : e.result = "success"

(* One Turnstile token buys at most one App Check token, even when two     *)
(* requests carry it at once or a failed exchange is tried again.          *)
OneIssuePerToken ==
    \A q, r \in Requests :
        IssuedTo(q) /\ IssuedTo(r) /\ input[q].token = input[r].token => q = r

(* The dashboard counts every answered request exactly once, however many  *)
(* events it recorded, and with the status the client was sent.            *)
CountedOnce ==
    \A r \in Requests : Done(r) /\ input[r].route # "preflight" =>
        /\ Cardinality(Counted(r)) = 1
        /\ \A e \in Counted(r) : e.status = status[r]

(* A denied or limited request leaves a critical row in every mode and at  *)
(* every sample rate; so does a failed upstream, except in summary mode.   *)
FailuresOnTrail ==
    \A r \in Requests : Done(r) =>
        /\ (\E e \in trail[r] : e.result = "denied") =>
               \E e \in Persisted(r) : e.result = "denied" /\ e.decision.priority = "critical"
        /\ input[r].route = "verify" /\ status[r] \notin 200..299 =>
               \E e \in Persisted(r) : e.result = "denied"
        /\ input[r].route = "exchange" /\ status[r] = 502 /\ config.mode # "summary" =>
               \E e \in Persisted(r) : e.result = "failure" /\ e.decision.priority = "critical"
                                         /\ e.action \in {"turnstile.verify", "appcheck.exchange"}

(* Every request is answered.                                              *)
Answered == \A r \in Requests : at[r] = "limiter" ~> Done(r)

(* README.md: REQUEST_TIMEOUT is the "external request timeout": a request *)
(* whose context has ended does not wait for an upstream.                  *)
TimeoutEndsExchange == \A r \in Requests : ended[r] ~> Done(r)
=============================================================================
