--------------------------- MODULE GatewayProofs ---------------------------
(* Theorems about Gateway, for any requests, tokens and configurations.    *)
EXTENDS Gateway, FiniteSetTheorems, TLAPS

(* What Record adds to a trail: for each event one entry with a decision   *)
(* of the policy, and nothing else.                                        *)
Adds(r, events) ==
    /\ \A q \in Requests : q # r => trail'[q] = trail[q]
    /\ trail[r] \subseteq trail'[r]
    /\ \A f \in trail'[r] \ trail[r] : \E e \in events :
          /\ f.action = e.action /\ f.status = e.status /\ f.result = e.result
          /\ f.decision \in Decide(e, input[r].route)
    /\ \A e \in events : \E f \in trail'[r] :
          /\ f.action = e.action /\ f.status = e.status /\ f.result = e.result
          /\ f.decision \in Decide(e, input[r].route)

(* The events that handlers build.                                         *)
Built == [action : Actions, status : 100..599, result : {"success", "failure", "denied"}]

(* recordAudit adds to the trail of its request what the events call for.  *)
LEMMA RecordAdds ==
    ASSUME TypeOK, NEW r \in Requests, NEW events \in SUBSET Built, Record(r, events)
    PROVE  trail' \in [Requests -> SUBSET Events] /\ Adds(r, events)
<1>1. PICK choice \in [events -> Decisions] :
        /\ \A e \in events : choice[e] \in Decide(e, input[r].route)
        /\ trail' = [trail EXCEPT ![r] = @ \cup
                {[action |-> e.action, status |-> e.status, result |-> e.result,
                  decision |-> choice[e]] : e \in events}]
  BY DEF Record
<1> DEFINE New == {[action |-> e.action, status |-> e.status, result |-> e.result,
                    decision |-> choice[e]] : e \in events}
<1>2. trail'[r] = trail[r] \cup New /\ \A q \in Requests : q # r => trail'[q] = trail[q]
  BY <1>1 DEF TypeOK
<1>3. New \subseteq Events
  BY DEF Built, Events
<1>4. trail' \in [Requests -> SUBSET Events]
  BY <1>1, <1>3 DEF TypeOK
<1>5. \A f \in New : \E e \in events :
          /\ f.action = e.action /\ f.status = e.status /\ f.result = e.result
          /\ f.decision \in Decide(e, input[r].route)
  BY <1>1
<1>6. ASSUME NEW e \in events
      PROVE  \E f \in New :
          /\ f.action = e.action /\ f.status = e.status /\ f.result = e.result
          /\ f.decision \in Decide(e, input[r].route)
  <2> DEFINE f == [action |-> e.action, status |-> e.status, result |-> e.result,
                   decision |-> choice[e]]
  <2>1. f \in New OBVIOUS
  <2>2. f.decision \in Decide(e, input[r].route) BY <1>1
  <2> QED BY <2>1, <2>2
<1> QED BY <1>2, <1>4, <1>5, <1>6 DEF Adds
-----------------------------------------------------------------------------
(* Type correctness.                                                       *)

(* The initial state is well typed.                                        *)
LEMMA TypeInit == Init => TypeOK
<1> SUFFICES ASSUME Init PROVE TypeOK OBVIOUS
<1>1. NoInput \in Inputs
  <2>1. (CHOOSE t \in Tokens : TRUE) \in Tokens BY GatewayAssumption
  <2> QED BY <2>1 DEF NoInput, Inputs, Routes, Faults
<1>2. 200 \in 100..599 OBVIOUS
<1> QED BY <1>1, <1>2 DEF Init, TypeOK

(* The steps that record nothing.                                          *)
LEMMA QuietType ==
    ASSUME TypeOK, NEW r \in Requests,
           \/ \E i \in Inputs : Arrive(r, i)
           \/ Preflight(r) \/ Admitted(r) \/ Reject(r) \/ CallTurnstile(r)
           \/ UseCachedToken(r) \/ BeginFetch(r) \/ FetchSucceeds(r)
           \/ ContextEnds(r) \/ Siteverify(r) \/ TokenExpires
    PROVE  TypeOK'
<1> USE DEF TypeOK, Goes, Writes, upstream
<1>1. CASE \E i \in Inputs : Arrive(r, i) BY <1>1 DEF Arrive
<1>2. CASE Preflight(r) BY <1>2 DEF Preflight
<1>3. CASE Admitted(r) BY <1>3 DEF Admitted
<1>4. CASE Reject(r) BY <1>4 DEF Reject
<1>5. CASE CallTurnstile(r) BY <1>5 DEF CallTurnstile
<1>6. CASE UseCachedToken(r) BY <1>6 DEF UseCachedToken
<1>7. CASE BeginFetch(r) BY <1>7 DEF BeginFetch
<1>8. CASE FetchSucceeds(r) BY <1>8 DEF FetchSucceeds
<1>9. CASE ContextEnds(r) BY <1>9 DEF ContextEnds
<1>10. CASE Siteverify(r) BY <1>10 DEF Siteverify, Inputs
<1>11. CASE TokenExpires BY <1>11 DEF TokenExpires
<1> QED BY <1>1, <1>2, <1>3, <1>4, <1>5, <1>6, <1>7, <1>8, <1>9, <1>10, <1>11

(* The steps of a handler that record events, with what they record.       *)
SummaryAction(r) == IF input[r].route = "exchange" THEN "exchange.request" ELSE "verify.request"
SummaryResult(r) == IF status[r] >= 400 THEN "failure" ELSE "success"

(* What the handlers build is an event.                                    *)
LEMMA BuiltEvents ==
    ASSUME NEW action \in Actions, NEW code \in 100..599,
           NEW result \in {"success", "failure", "denied"}
    PROVE  Event(action, code, result) \in Built
BY DEF Event, Built

(* VERIFY_FAILURE_STATUS is a status.                                      *)
LEMMA FailureStatus == TypeOK => config.failureStatus \in 300..599
BY GatewayAssumption DEF TypeOK

(* Writing a status keeps the type of status.                              *)
LEMMA WritesType ==
    ASSUME TypeOK, NEW r \in Requests, NEW code \in 100..599, Writes(r, code)
    PROVE  status' \in [Requests -> 100..599]
BY DEF TypeOK, Writes

(* The steps that record events keep the types.                            *)
LEMMA RecordingType ==
    ASSUME TypeOK, NEW r \in Requests,
           \/ Limited(r) \/ TurnstileAccepts(r) \/ TurnstileRejects(r) \/ TurnstileFails(r)
           \/ SigningFails(r) \/ FetchFails(r) \/ FirebaseAnswers(r) \/ FirebaseFails(r)
           \/ VerifyDenied(r) \/ VerifyAllowed(r) \/ Summary(r)
    PROVE  TypeOK'
<1> DEFINE A == at' \in [Requests -> {"idle", "limiter", "handler", "turnstile", "oauth", "fetching",
                                    "firebase", "deferred", "done"}]
           S == status' \in [Requests -> 100..599]
           T == trail' \in [Requests -> SUBSET Events]
<1>1. ASSUME NEW events \in SUBSET Built, Record(r, events) PROVE T
  BY <1>1, RecordAdds
<1>2. ASSUME NEW from, ExchangeFails(r, from) PROVE T
  <2>1. {Event("appcheck.exchange", 502, "failure")} \in SUBSET Built
    BY BuiltEvents DEF Actions
  <2> QED BY <1>1, <1>2, <2>1 DEF ExchangeFails
<1>a. ASSUME NEW from, NEW to \in {"oauth", "deferred", "done"}, Goes(r, from, to) PROVE A
  BY <1>a DEF Goes, TypeOK
<1>b. ASSUME A, S, T, UNCHANGED <<config, input, ended, answer, redeemed, verified>>,
             holder' \in {holder, NoRequest}, cached' = cached
      PROVE  TypeOK'
  BY <1>b DEF TypeOK
<1> HIDE DEF A, S, T
<1>3. CASE Limited(r)
  <2>1. {Event("rate_limit.denied", 429, "denied")} \in SUBSET Built
    BY BuiltEvents DEF Actions
  <2>2. T BY <1>1, <1>3, <2>1 DEF Limited
  <2>3. 429 \in 100..599 /\ Writes(r, 429) BY <1>3 DEF Limited
  <2>4. S BY <2>3, WritesType DEF S
  <2>5. A BY <1>a, <1>3 DEF Limited
  <2> QED BY <1>b, <1>3, <2>2, <2>4, <2>5 DEF Limited, upstream
<1>4. CASE TurnstileAccepts(r)
  <2>1. {Event("turnstile.verify", 200, "success")} \in SUBSET Built
    BY BuiltEvents DEF Actions
  <2>2. T BY <1>1, <1>4, <2>1 DEF TurnstileAccepts
  <2> QED BY <1>4, <2>2 DEF TurnstileAccepts, TypeOK, Goes, T
<1>5. CASE TurnstileRejects(r)
  <2>1. {Event("turnstile.verify", 400, "failure")} \in SUBSET Built
    BY BuiltEvents DEF Actions
  <2>2. T BY <1>1, <1>5, <2>1 DEF TurnstileRejects
  <2>3. 400 \in 100..599 /\ Writes(r, 400) BY <1>5 DEF TurnstileRejects
  <2>4. S BY <2>3, WritesType DEF S
  <2>5. A BY <1>a, <1>5 DEF TurnstileRejects
  <2> QED BY <1>b, <1>5, <2>2, <2>4, <2>5 DEF TurnstileRejects, upstream
<1>6. CASE TurnstileFails(r)
  <2>1. {Event("turnstile.verify", 502, "failure")} \in SUBSET Built
    BY BuiltEvents DEF Actions
  <2>2. T BY <1>1, <1>6, <2>1 DEF TurnstileFails
  <2>3. 502 \in 100..599 /\ Writes(r, 502) BY <1>6 DEF TurnstileFails
  <2>4. S BY <2>3, WritesType DEF S
  <2>5. A BY <1>a, <1>6 DEF TurnstileFails
  <2> QED BY <1>b, <1>6, <2>2, <2>4, <2>5 DEF TurnstileFails, upstream
<1>7. CASE SigningFails(r)
  <2>1. T BY <1>2, <1>7 DEF SigningFails
  <2>2. 502 \in 100..599 /\ Writes(r, 502) BY <1>7 DEF SigningFails, ExchangeFails
  <2>3. S BY <2>2, WritesType DEF S
  <2>4. A BY <1>a, <1>7 DEF SigningFails, ExchangeFails
  <2> QED BY <1>b, <1>7, <2>1, <2>3, <2>4 DEF SigningFails, ExchangeFails
<1>8. CASE FetchFails(r)
  <2>1. T BY <1>2, <1>8 DEF FetchFails
  <2>2. 502 \in 100..599 /\ Writes(r, 502) BY <1>8 DEF FetchFails, ExchangeFails
  <2>3. S BY <2>2, WritesType DEF S
  <2>4. A BY <1>a, <1>8 DEF FetchFails, ExchangeFails
  <2> QED BY <1>b, <1>8, <2>1, <2>3, <2>4 DEF FetchFails, ExchangeFails
<1>9. CASE FirebaseAnswers(r)
  <2>1. {Event("appcheck.exchange", 200, "success")} \in SUBSET Built
    BY BuiltEvents DEF Actions
  <2>2. T BY <1>1, <1>9, <2>1 DEF FirebaseAnswers
  <2>3. 200 \in 100..599 /\ Writes(r, 200) BY <1>9 DEF FirebaseAnswers
  <2>4. S BY <2>3, WritesType DEF S
  <2>5. A BY <1>a, <1>9 DEF FirebaseAnswers
  <2> QED BY <1>b, <1>9, <2>2, <2>4, <2>5 DEF FirebaseAnswers, upstream
<1>10. CASE FirebaseFails(r)
  <2>1. T BY <1>2, <1>10 DEF FirebaseFails
  <2>2. 502 \in 100..599 /\ Writes(r, 502) BY <1>10 DEF FirebaseFails, ExchangeFails
  <2>3. S BY <2>2, WritesType DEF S
  <2>4. A BY <1>a, <1>10 DEF FirebaseFails, ExchangeFails
  <2> QED BY <1>b, <1>10, <2>1, <2>3, <2>4 DEF FirebaseFails, ExchangeFails
<1>11. CASE VerifyDenied(r)
  <2>1. {Event("appcheck.verify", config.failureStatus, "failure"),
         Event("forwardauth.denied", config.failureStatus, "denied")} \in SUBSET Built
    BY BuiltEvents, FailureStatus DEF Actions
  <2>2. T BY <1>1, <1>11, <2>1 DEF VerifyDenied
  <2>3. config.failureStatus \in 100..599 /\ Writes(r, config.failureStatus) BY <1>11, FailureStatus DEF VerifyDenied
  <2>4. S BY <2>3, WritesType DEF S
  <2>5. A BY <1>a, <1>11 DEF VerifyDenied
  <2> QED BY <1>b, <1>11, <2>2, <2>4, <2>5 DEF VerifyDenied, upstream
<1>12. CASE VerifyAllowed(r)
  <2>1. {Event("appcheck.verify", SuccessStatus, "success")} \in SUBSET Built
    BY BuiltEvents DEF Actions, SuccessStatus
  <2>2. T BY <1>1, <1>12, <2>1 DEF VerifyAllowed
  <2>3. SuccessStatus \in 100..599 /\ Writes(r, SuccessStatus) BY <1>12 DEF VerifyAllowed, SuccessStatus
  <2>4. S BY <2>3, WritesType DEF S
  <2>5. A BY <1>a, <1>12 DEF VerifyAllowed
  <2> QED BY <1>b, <1>12, <2>2, <2>4, <2>5 DEF VerifyAllowed, upstream
<1>13. CASE Summary(r)
  <2> DEFINE action == SummaryAction(r)
             result == SummaryResult(r)
  <2>1. /\ action \in Actions /\ status[r] \in 100..599
        /\ result \in {"success", "failure", "denied"}
    BY DEF Actions, TypeOK, SummaryAction, SummaryResult
  <2> HIDE DEF action, result
  <2>3. {Event(action, status[r], result)} \in SUBSET Built
    BY <2>1, BuiltEvents
  <2>2. T BY <1>1, <1>13, <2>3 DEF Summary, SummaryStatus, SummaryAction, SummaryResult, action, result
  <2> QED BY <1>13, <2>2 DEF Summary, TypeOK, Goes, upstream, T
<1> QED BY <1>3, <1>4, <1>5, <1>6, <1>7, <1>8, <1>9, <1>10, <1>11, <1>12, <1>13

(* Every step keeps the types.                                             *)
LEMMA StepType == ASSUME TypeOK, [Next]_vars PROVE TypeOK'
<1>1. CASE UNCHANGED vars
  BY <1>1 DEF vars, upstream, TypeOK
<1>2. ASSUME NEW r \in Requests, NEW i \in Inputs, Arrive(r, i) PROVE TypeOK'
  BY <1>2, QuietType
<1>3. ASSUME NEW r \in Requests, Handle(r) \/ Fetch(r) \/ ContextEnds(r) \/ Siteverify(r)
      PROVE  TypeOK'
  BY <1>3, QuietType, RecordingType DEF Handle, Fetch
<1>4. CASE TokenExpires
  BY <1>4 DEF TokenExpires, TypeOK
<1> QED BY <1>1, <1>2, <1>3, <1>4 DEF Next

(* Every variable keeps its type: in particular every status that is       *)
(* written or recorded is a status (WriteError, requestAuditEvent).        *)
THEOREM TypeCorrect == Spec => []TypeOK
<1>1. TypeOK /\ [Next]_vars => TypeOK' BY StepType
<1> QED BY <1>1, TypeInit, PTL DEF Spec
-----------------------------------------------------------------------------
(* The inductive invariant.                                                *)

PastTurnstile == {"oauth", "fetching", "firebase"}
Over == {"deferred", "done"}

(* A request calls the upstreams only without a fault, and Firebase only   *)
(* when Siteverify has accepted, and thereby redeemed, its token.          *)
Progress(r) ==
    /\ at[r] \in {"idle", "limiter", "handler"} =>
           answer[r] = "none" /\ ~verified[r] /\ trail[r] = {}
    /\ at[r] \in {"handler", "deferred"} => input[r].route # "preflight"
    /\ at[r] \in {"turnstile"} \cup PastTurnstile =>
           input[r].route = "exchange" /\ input[r].faults = {}
    /\ at[r] \in PastTurnstile => verified[r]
    /\ verified[r] => answer[r] = "accepted"
    /\ answer[r] = "accepted" => input[r].token \in redeemed

Shows(r, action) == \E e \in Recorded(r, {action}) : e.result = "success"

Evidence(r) ==
    /\ at[r] \in PastTurnstile => Shows(r, "turnstile.verify")
    /\ at[r] \in Over /\ input[r].route = "exchange" /\ status[r] = 200 =>
           /\ input[r].faults = {} /\ verified[r]
           /\ Shows(r, "turnstile.verify") /\ Shows(r, "appcheck.exchange")

(* Nothing is counted before the request is over, and one event then.      *)
Counting(r) ==
    /\ at[r] # "done" => Counted(r) = {}
    /\ at[r] = "done" /\ input[r].route # "preflight" =>
           \E f \in trail[r] : Counted(r) = {f} /\ f.status = status[r]

DenialKept(r) == \E e \in Persisted(r) : e.result = "denied" /\ e.decision.priority = "critical"
FailureKept(r) ==
    \E e \in Persisted(r) : /\ e.result = "failure" /\ e.decision.priority = "critical"
                            /\ e.action \in {"turnstile.verify", "appcheck.exchange"}

OnTrail(r) ==
    /\ (\E e \in trail[r] : e.result = "denied") => DenialKept(r)
    /\ at[r] \in Over /\ input[r].route = "verify" /\ status[r] \notin 200..299 => DenialKept(r)
    /\ at[r] \in Over /\ input[r].route = "exchange" /\ status[r] = 502 /\ config.mode # "summary"
           => FailureKept(r)

LocalInv(r) == Progress(r) /\ Evidence(r) /\ Counting(r) /\ OnTrail(r)

(* No token is accepted twice.                                             *)
AcceptedOnce ==
    \A q, r \in Requests :
        answer[q] = "accepted" /\ answer[r] = "accepted" /\ input[q].token = input[r].token
            => q = r

IInv == TypeOK /\ (\A r \in Requests : LocalInv(r)) /\ AcceptedOnce

(* The invariant holds before the first request.                           *)
LEMMA InvInit == Init => IInv
<1> SUFFICES ASSUME Init PROVE IInv OBVIOUS
<1>1. TypeOK BY TypeInit
<1>2. ASSUME NEW r \in Requests PROVE LocalInv(r)
  BY <1>2 DEF Init, LocalInv, Progress, Evidence, Counting, OnTrail, PastTurnstile, Over, Counted
<1>3. AcceptedOnce BY DEF Init, AcceptedOnce
<1> QED BY <1>1, <1>2, <1>3 DEF IInv

(* A step of one request leaves what is said of the others true.           *)
Same(q) ==
    /\ at'[q] = at[q] /\ input'[q] = input[q] /\ status'[q] = status[q]
    /\ trail'[q] = trail[q] /\ verified'[q] = verified[q] /\ answer'[q] = answer[q]

(* Such a step keeps the invariant of the others.                          *)
LEMMA Frame ==
    ASSUME NEW q \in Requests, LocalInv(q), Same(q), config' = config, redeemed \subseteq redeemed'
    PROVE  LocalInv(q)'
<1>1. Progress(q)' BY DEF LocalInv, Same, Progress
<1>2. Evidence(q)' BY DEF LocalInv, Same, Evidence, Shows, Recorded
<1>3. Counting(q)' BY DEF LocalInv, Same, Counting, Counted
<1>4. OnTrail(q)'
  BY DEF LocalInv, Same, OnTrail, DenialKept, FailureKept, Persisted
<1> QED BY <1>1, <1>2, <1>3, <1>4 DEF LocalInv
-----------------------------------------------------------------------------
(* What the policy decides.                                                *)

Steps == {"turnstile.verify", "appcheck.exchange", "appcheck.verify"}
Denials == {"rate_limit.denied", "forwardauth.denied"}
Summaries == {"exchange.request", "verify.request"}

(* A step is never counted, and kept when it failed and the mode keeps it. *)
LEMMA StepDecision ==
    ASSUME NEW e \in Built, NEW route, e.action \in Steps, NEW d \in Decide(e, route)
    PROVE  /\ ~d.count
           /\ e.result = "failure" /\ config.mode # "summary" => d.persist /\ d.priority = "critical"
<1>1. d \in decideStep(e, route) BY DEF Decide, Steps
<1> QED BY <1>1 DEF decideStep, Decision, Failed

(* A denial is always kept; only that of the limiter is counted.           *)
LEMMA DenialDecision ==
    ASSUME NEW e \in Built, NEW route, e.action \in Denials, NEW d \in Decide(e, route)
    PROVE  d.persist /\ d.priority = "critical" /\ (d.count <=> e.action = "rate_limit.denied")
BY DEF Decide, Denials, Decision

(* A summary is always counted.                                            *)
LEMMA SummaryDecision ==
    ASSUME NEW e \in Built, NEW route, e.action \in Summaries, NEW d \in Decide(e, route)
    PROVE  d.count
<1>1. d \in decideSummary(e, route) BY DEF Decide, Summaries
<1> QED BY <1>1 DEF decideSummary, Decision

(* Recording one event adds one entry.                                     *)
TrailEntry(e, d) == [action |-> e.action, status |-> e.status, result |-> e.result, decision |-> d]

(* The entry carries one of the decisions that the policy allows.          *)
LEMMA RecordOne ==
    ASSUME TypeOK, NEW r \in Requests, NEW e \in Built, Record(r, {e})
    PROVE  \E d \in Decide(e, input[r].route) :
              /\ trail'[r] = trail[r] \cup {TrailEntry(e, d)}
              /\ \A q \in Requests : q # r => trail'[q] = trail[q]
<1>1. PICK choice \in [{e} -> Decisions] :
        /\ \A x \in {e} : choice[x] \in Decide(x, input[r].route)
        /\ trail' = [trail EXCEPT ![r] = @ \cup
                {[action |-> x.action, status |-> x.status, result |-> x.result,
                  decision |-> choice[x]] : x \in {e}}]
  BY DEF Record
<1>2. {[action |-> x.action, status |-> x.status, result |-> x.result,
        decision |-> choice[x]] : x \in {e}} = {TrailEntry(e, choice[e])}
  BY DEF TrailEntry
<1> QED BY <1>1, <1>2 DEF TypeOK

(* Recording a step counts nothing and leaves a failure on the trail.      *)
Extends(r, result) ==
    /\ \A q \in Requests : q # r => trail'[q] = trail[q]
    /\ trail[r] \subseteq trail'[r]
    /\ \A f \in trail'[r] : f \in trail[r] \/ (~f.decision.count /\ f.result = result)

(* What is on the trail stays there, the counted entries are the same.     *)
LEMMA StepRecorded ==
    ASSUME TypeOK, NEW r \in Requests, NEW e \in Built, e.action \in Steps, Record(r, {e})
    PROVE  /\ Extends(r, e.result)
           /\ \E f \in trail'[r] :
                 /\ f.action = e.action /\ f.result = e.result
                 /\ e.result = "failure" /\ config.mode # "summary" =>
                        f.decision.persist /\ f.decision.priority = "critical"
<1>1. PICK d \in Decide(e, input[r].route) :
          /\ trail'[r] = trail[r] \cup {TrailEntry(e, d)}
          /\ \A q \in Requests : q # r => trail'[q] = trail[q]
  BY RecordOne
<1>2. /\ ~d.count
      /\ e.result = "failure" /\ config.mode # "summary" => d.persist /\ d.priority = "critical"
  BY StepDecision
<1>3. LET f == TrailEntry(e, d)
      IN  f.action = e.action /\ f.result = e.result /\ f.decision = d
  BY DEF TrailEntry
<1> QED BY <1>1, <1>2, <1>3 DEF Extends

(* What is left to show of a step in which no token is accepted.           *)
LEMMA StepOf ==
    ASSUME IInv, [Next]_vars, NEW r \in Requests, config' = config, redeemed' = redeemed,
           \A q \in Requests : q # r => Same(q),
           answer'[r] = "accepted" => answer[r] = "accepted" /\ input'[r] = input[r],
           LocalInv(r)'
    PROVE  IInv'
<1>1. TypeOK' BY StepType DEF IInv
<1>2. ASSUME NEW q \in Requests PROVE LocalInv(q)'
  <2>1. CASE q = r BY <2>1
  <2>2. CASE q # r
    <3>1. LocalInv(q) /\ Same(q) BY <2>2 DEF IInv
    <3> QED BY <3>1, Frame
  <2> QED BY <2>1, <2>2
<1>3. AcceptedOnce'
  <2>1. \A q \in Requests : answer'[q] = "accepted" =>
            answer[q] = "accepted" /\ input'[q] = input[q]
    BY DEF Same
  <2> QED BY <2>1 DEF IInv, AcceptedOnce
<1> QED BY <1>1, <1>2, <1>3 DEF IInv

(* Steps that record nothing and write no status.                          *)
LEMMA SilentInv ==
    ASSUME IInv, [Next]_vars, NEW r \in Requests,
           \/ \E i \in Inputs : Arrive(r, i)
           \/ Admitted(r) \/ CallTurnstile(r) \/ UseCachedToken(r) \/ BeginFetch(r)
           \/ FetchSucceeds(r) \/ ContextEnds(r)
    PROVE  IInv'
<1> DEFINE Others == \A q \in Requests : q # r => Same(q)
<1> USE DEF Goes, upstream
<1>1. Others
  BY DEF IInv, TypeOK, Same, Arrive, Admitted, CallTurnstile, UseCachedToken, BeginFetch,
         FetchSucceeds, ContextEnds
<1>2. /\ config' = config /\ redeemed' = redeemed
      /\ answer'[r] = "accepted" => answer[r] = "accepted" /\ input'[r] = input[r]
  BY DEF IInv, TypeOK, LocalInv, Progress, Arrive, Admitted, CallTurnstile, UseCachedToken,
         BeginFetch, FetchSucceeds, ContextEnds
<1>3. /\ status' = status /\ trail' = trail /\ verified' = verified
      /\ at'[r] \notin Over \/ at'[r] = at[r]
  BY DEF IInv, TypeOK, Over, Arrive, Admitted, CallTurnstile, UseCachedToken, BeginFetch,
         FetchSucceeds, ContextEnds
<1>4. Progress(r)'
  BY DEF IInv, TypeOK, LocalInv, Progress, PastTurnstile, Arrive, Admitted, CallTurnstile,
         UseCachedToken, BeginFetch, FetchSucceeds, ContextEnds
<1>5. Evidence(r)' /\ Counting(r)' /\ OnTrail(r)'
  BY <1>3 DEF IInv, TypeOK, LocalInv, Evidence, Counting, OnTrail, PastTurnstile, Over, Shows,
         Recorded, Counted, DenialKept, FailureKept, Persisted, Arrive, Admitted, CallTurnstile,
         UseCachedToken, BeginFetch, FetchSucceeds, ContextEnds
<1> QED BY <1>1, <1>2, <1>4, <1>5, StepOf DEF LocalInv

(* Answers that are given without a call and without an event.             *)
LEMMA AnsweredAtOnceInv ==
    ASSUME IInv, [Next]_vars, NEW r \in Requests, Preflight(r) \/ Reject(r)
    PROVE  IInv'
<1> USE DEF Goes, Writes, upstream
<1>1. \A q \in Requests : q # r => Same(q)
  BY DEF IInv, TypeOK, Same, Preflight, Reject
<1>2. /\ config' = config /\ redeemed' = redeemed /\ answer' = answer /\ input' = input
      /\ trail' = trail /\ verified' = verified
  BY DEF Preflight, Reject
<1>3. Progress(r)'
  BY DEF IInv, TypeOK, LocalInv, Progress, PastTurnstile, Preflight, Reject
<1>4. at[r] \in {"limiter", "handler"} /\ trail[r] = {}
  BY DEF Preflight, Reject, IInv, LocalInv, Progress
<1>5. \/ at'[r] = "done" /\ input[r].route = "preflight"
      \/ /\ at'[r] = "deferred" /\ input[r].route = "exchange"
         /\ status'[r] \in {415, 403, 400}
  BY DEF Preflight, Reject, IInv, TypeOK
<1>6. Evidence(r)' /\ Counting(r)' /\ OnTrail(r)'
  BY <1>2, <1>4, <1>5 DEF Evidence, Counting, OnTrail, PastTurnstile, Over, Counted
<1> QED BY <1>1, <1>2, <1>3, <1>6, StepOf DEF LocalInv

(* Only here does a token become redeemed, and an answer an acceptance.    *)
LEMMA SiteverifyInv ==
    ASSUME IInv, [Next]_vars, NEW r \in Requests, Siteverify(r)
    PROVE  IInv'
<1>1. TypeOK' BY StepType DEF IInv
<1>2. ASSUME NEW q \in Requests, q # r PROVE LocalInv(q)'
  <2>1. LocalInv(q) /\ Same(q) /\ config' = config /\ redeemed \subseteq redeemed'
    BY <1>2 DEF IInv, TypeOK, Same, Siteverify
  <2> QED BY <2>1, Frame
<1>3. LocalInv(r)'
  <2>1. Progress(r)'
    BY DEF IInv, TypeOK, LocalInv, Progress, PastTurnstile, Siteverify
  <2>2. Evidence(r)' /\ Counting(r)' /\ OnTrail(r)'
    BY DEF IInv, LocalInv, Evidence, Counting, OnTrail, Siteverify, Shows, Recorded, Counted,
           DenialKept, FailureKept, Persisted
  <2> QED BY <2>1, <2>2 DEF LocalInv
<1>4. AcceptedOnce'
  <2>1. /\ input' = input
        /\ \A q \in Requests : q # r => answer'[q] = answer[q]
        /\ answer'[r] = "accepted" => input[r].token \notin redeemed
    BY DEF IInv, TypeOK, Siteverify
  <2>2. \A q \in Requests : answer[q] = "accepted" => input[q].token \in redeemed
    BY DEF IInv, LocalInv, Progress
  <2> QED BY <2>1, <2>2 DEF IInv, AcceptedOnce
<1> QED BY <1>1, <1>2, <1>3, <1>4 DEF IInv

(* Steps that no request sees.                                             *)
LEMMA UnseenInv ==
    ASSUME IInv, [Next]_vars, TokenExpires \/ UNCHANGED vars
    PROVE  IInv'
<1>1. TypeOK' BY StepType DEF IInv
<1>2. ASSUME NEW q \in Requests PROVE LocalInv(q)'
  <2>1. LocalInv(q) /\ Same(q) /\ config' = config /\ redeemed \subseteq redeemed'
    BY DEF IInv, Same, TokenExpires, vars, upstream
  <2> QED BY <2>1, Frame
<1>3. AcceptedOnce'
  BY DEF IInv, AcceptedOnce, TokenExpires, vars, upstream
<1> QED BY <1>1, <1>2, <1>3 DEF IInv
-----------------------------------------------------------------------------
(* The steps of the exchange handler that record an event.                 *)

(* The accepted Turnstile token is on the trail before Firebase is called. *)
LEMMA TurnstileAcceptsInv ==
    ASSUME IInv, [Next]_vars, NEW r \in Requests, TurnstileAccepts(r)
    PROVE  IInv'
<1> DEFINE e == Event("turnstile.verify", 200, "success")
<1>1. /\ e \in Built /\ e.action = "turnstile.verify" /\ e.result = "success"
      /\ e.action \in Steps /\ Record(r, {e}) /\ TypeOK
  BY DEF TurnstileAccepts, IInv, Event, Built, Steps, Actions
<1> HIDE DEF e
<1>2. /\ Extends(r, "success")
      /\ \E f \in trail'[r] : f.action = "turnstile.verify" /\ f.result = "success"
  BY <1>1, StepRecorded
<1>3. \A q \in Requests : q # r => Same(q)
  BY <1>2 DEF IInv, TypeOK, Same, TurnstileAccepts, Goes, Extends
<1>4. config' = config /\ redeemed' = redeemed /\ answer' = answer /\ input' = input
  BY DEF TurnstileAccepts
<1>5. at[r] = "turnstile" /\ at'[r] = "oauth"
  BY DEF IInv, TypeOK, TurnstileAccepts, Goes
<1>6. answer[r] = "accepted" /\ verified'[r]
  <2>1. answer[r] = "accepted" /\ verified' = [verified EXCEPT ![r] = answer[r] = "accepted"]
    BY DEF TurnstileAccepts, Success
  <2>2. verified'[r] = (answer[r] = "accepted")
    BY <2>1, Zenon DEF IInv, TypeOK
  <2> QED BY <2>1, <2>2
<1>7. Progress(r)'
  BY <1>4, <1>5, <1>6 DEF IInv, LocalInv, Progress, PastTurnstile
<1>8. Evidence(r)'
  BY <1>2, <1>5 DEF Evidence, Over, Shows, Recorded
<1>9. Counting(r)' /\ OnTrail(r)'
  <2>1. \A f \in trail'[r] : f \in trail[r] \/ (~f.decision.count /\ f.result = "success")
    BY <1>2 DEF Extends
  <2>2. Counted(r) = {} /\ ((\E x \in trail[r] : x.result = "denied") => DenialKept(r))
    BY <1>5 DEF IInv, LocalInv, Counting, OnTrail
  <2>3. Counted(r)' = {}
    BY <2>1, <2>2 DEF Counted
  <2>4. (\E x \in trail'[r] : x.result = "denied") => DenialKept(r)'
    BY <1>2, <2>1, <2>2 DEF DenialKept, Persisted, Extends
  <2> QED BY <1>5, <2>3, <2>4 DEF Counting, OnTrail, Over
<1> QED BY <1>3, <1>4, <1>7, <1>8, <1>9, StepOf DEF LocalInv

(* A step that ends the exchange with an answer from an upstream.          *)
Ends(r, e) ==
    /\ at[r] \in {"turnstile"} \cup PastTurnstile /\ at' = [at EXCEPT ![r] = "deferred"]
    /\ e.action \in {"turnstile.verify", "appcheck.exchange"} /\ e.status \in {200, 400, 502}
    /\ e.result = (IF e.status = 200 THEN "success" ELSE "failure")
    /\ e.status = 200 => at[r] \in PastTurnstile /\ e.action = "appcheck.exchange"
    /\ status' = [status EXCEPT ![r] = e.status]
    /\ UNCHANGED <<config, input, answer, redeemed, verified>>

(* Such a step keeps the invariant.                                        *)
LEMMA EndsInv ==
    ASSUME IInv, [Next]_vars, NEW r \in Requests, NEW e \in Built, Record(r, {e}), Ends(r, e)
    PROVE  IInv'
<1> USE DEF Ends
<1> DEFINE code == e.status
           result == e.result
           action == e.action
<1>1. /\ Extends(r, result)
      /\ \E f \in trail'[r] :
            /\ f.action = action /\ f.result = result
            /\ result = "failure" /\ config.mode # "summary" =>
                   f.decision.persist /\ f.decision.priority = "critical"
  <2>1. e.action \in Steps /\ TypeOK BY DEF Steps, IInv
  <2> QED BY <2>1, StepRecorded
<1>2. \A q \in Requests : q # r => Same(q)
  BY <1>1 DEF IInv, TypeOK, Same, Extends, Writes
<1>3. at'[r] = "deferred" /\ status'[r] = code /\ input[r].route = "exchange" /\ input[r].faults = {}
  BY DEF IInv, TypeOK, LocalInv, Progress, Writes
<1>4. Progress(r)'
  BY <1>3 DEF IInv, LocalInv, Progress, PastTurnstile
<1>5. Evidence(r)'
  <2>1. code = 200 => Shows(r, "turnstile.verify") /\ verified[r]
    BY DEF IInv, LocalInv, Progress, Evidence
  <2>2. code = 200 => Shows(r, "turnstile.verify")' /\ Shows(r, "appcheck.exchange")'
    BY <1>1, <2>1 DEF Shows, Recorded, Extends
  <2> QED BY <1>3, <2>1, <2>2 DEF Evidence, PastTurnstile
<1>6. \A f \in trail'[r] : f \in trail[r] \/ (~f.decision.count /\ f.result \in {"success", "failure"})
  BY <1>1 DEF Extends
<1>7. Counting(r)'
  <2>1. Counted(r) = {} BY DEF IInv, LocalInv, Counting, PastTurnstile
  <2> QED BY <1>3, <1>6, <2>1 DEF Counting, Counted
<1>8. OnTrail(r)'
  <2>1. (\E x \in trail[r] : x.result = "denied") => DenialKept(r)
    BY DEF IInv, LocalInv, OnTrail
  <2>2. (\E x \in trail'[r] : x.result = "denied") => DenialKept(r)'
    <3>1. (\E x \in trail'[r] : x.result = "denied") => \E x \in trail[r] : x.result = "denied"
      BY <1>6
    <3>2. DenialKept(r) => DenialKept(r)'
      BY <1>1 DEF DenialKept, Persisted, Extends
    <3> QED BY <2>1, <3>1, <3>2
  <2>3. code = 502 /\ config.mode # "summary" => FailureKept(r)'
    BY <1>1 DEF FailureKept, Persisted
  <2> QED BY <1>3, <2>2, <2>3 DEF OnTrail
<1> QED BY <1>2, <1>4, <1>5, <1>7, <1>8, StepOf DEF LocalInv

(* Every way an upstream ends the exchange is such a step.                 *)
LEMMA ExchangeEndsInv ==
    ASSUME IInv, [Next]_vars, NEW r \in Requests,
           \/ TurnstileRejects(r) \/ TurnstileFails(r) \/ SigningFails(r) \/ FetchFails(r)
           \/ FirebaseAnswers(r) \/ FirebaseFails(r)
    PROVE  IInv'
<1>1. CASE TurnstileRejects(r)
  <2> DEFINE e == Event("turnstile.verify", 400, "failure")
  <2>1. /\ e \in Built /\ e.action = "turnstile.verify" /\ e.status = 400 /\ e.result = "failure"
        /\ Record(r, {e}) /\ Writes(r, e.status)
    BY <1>1 DEF TurnstileRejects, Event, Built, Actions
  <2>2. /\ at[r] \in {"turnstile"} \cup PastTurnstile /\ at' = [at EXCEPT ![r] = "deferred"]
        /\ UNCHANGED <<config, input, answer, redeemed, verified>>
    BY <1>1 DEF TurnstileRejects, Goes, PastTurnstile, upstream
  <2> HIDE DEF e
  <2>3. Ends(r, e)
    BY <2>1, <2>2 DEF Ends, Writes
  <2> QED BY <2>1, <2>3, EndsInv
<1>2. CASE TurnstileFails(r)
  <2> DEFINE e == Event("turnstile.verify", 502, "failure")
  <2>1. /\ e \in Built /\ e.action = "turnstile.verify" /\ e.status = 502 /\ e.result = "failure"
        /\ Record(r, {e}) /\ Writes(r, e.status)
    BY <1>2 DEF TurnstileFails, Event, Built, Actions
  <2>2. /\ at[r] \in {"turnstile"} \cup PastTurnstile /\ at' = [at EXCEPT ![r] = "deferred"]
        /\ UNCHANGED <<config, input, answer, redeemed, verified>>
    BY <1>2 DEF TurnstileFails, Goes, PastTurnstile, upstream
  <2> HIDE DEF e
  <2>3. Ends(r, e)
    BY <2>1, <2>2 DEF Ends, Writes
  <2> QED BY <2>1, <2>3, EndsInv
<1>3. ASSUME NEW from \in PastTurnstile, ExchangeFails(r, from) PROVE IInv'
  <2> DEFINE e == Event("appcheck.exchange", 502, "failure")
  <2>1. /\ e \in Built /\ e.action = "appcheck.exchange" /\ e.status = 502 /\ e.result = "failure"
        /\ Record(r, {e}) /\ Writes(r, e.status)
    BY <1>3 DEF ExchangeFails, Event, Built, Actions
  <2>2. /\ at[r] \in {"turnstile"} \cup PastTurnstile /\ at' = [at EXCEPT ![r] = "deferred"]
        /\ UNCHANGED <<config, input, answer, redeemed, verified>>
    BY <1>3 DEF ExchangeFails, Goes, PastTurnstile, upstream
  <2> HIDE DEF e
  <2>3. Ends(r, e)
    BY <2>1, <2>2 DEF Ends, Writes
  <2> QED BY <2>1, <2>3, EndsInv
<1>4. CASE FirebaseAnswers(r)
  <2> DEFINE e == Event("appcheck.exchange", 200, "success")
  <2>1. /\ e \in Built /\ e.action = "appcheck.exchange" /\ e.status = 200 /\ e.result = "success"
        /\ Record(r, {e}) /\ Writes(r, e.status)
    BY <1>4 DEF FirebaseAnswers, Event, Built, Actions
  <2>2. /\ at[r] \in PastTurnstile /\ at' = [at EXCEPT ![r] = "deferred"]
        /\ UNCHANGED <<config, input, answer, redeemed, verified>>
    BY <1>4 DEF FirebaseAnswers, Goes, PastTurnstile, upstream
  <2> HIDE DEF e
  <2>3. Ends(r, e)
    BY <2>1, <2>2 DEF Ends, Writes
  <2> QED BY <2>1, <2>3, EndsInv
<1>5. ASSUME SigningFails(r) \/ FetchFails(r) \/ FirebaseFails(r) PROVE IInv'
  <2>1. \E from \in PastTurnstile : ExchangeFails(r, from)
    BY <1>5 DEF SigningFails, FetchFails, FirebaseFails, PastTurnstile
  <2> QED BY <1>3, <2>1
<1> QED BY <1>1, <1>2, <1>4, <1>5
-----------------------------------------------------------------------------
(* The limiter, the verify handler and the summary.                        *)

(* The 429 of the limiter is counted and kept at once.                     *)
LEMMA LimitedInv ==
    ASSUME IInv, [Next]_vars, NEW r \in Requests, Limited(r)
    PROVE  IInv'
<1> DEFINE e == Event("rate_limit.denied", 429, "denied")
<1>1. /\ e \in Built /\ e.action = "rate_limit.denied" /\ e.result = "denied" /\ e.status = 429
      /\ Record(r, {e}) /\ TypeOK
  BY DEF Limited, IInv, Event, Built, Actions
<1> HIDE DEF e
<1>2. PICK d \in Decide(e, input[r].route) :
          /\ trail'[r] = trail[r] \cup {TrailEntry(e, d)}
          /\ \A q \in Requests : q # r => trail'[q] = trail[q]
  BY <1>1, RecordOne
<1>3. d.persist /\ d.priority = "critical" /\ d.count
  BY <1>1, DenialDecision DEF Denials
<1> DEFINE f == TrailEntry(e, d)
<1>4. f.result = "denied" /\ f.status = 429 /\ f.decision = d
  BY <1>1 DEF TrailEntry
<1> HIDE DEF f
<1>5. \A q \in Requests : q # r => Same(q)
  <2>1. /\ at' = [at EXCEPT ![r] = "done"] /\ status' = [status EXCEPT ![r] = 429]
        /\ UNCHANGED <<input, answer, verified>>
    BY DEF Limited, Goes, Writes, upstream
  <2> QED BY <1>1, <1>2, <2>1 DEF TypeOK, Same
<1>6. /\ config' = config /\ redeemed' = redeemed /\ answer' = answer /\ input' = input
      /\ verified' = verified
  BY DEF Limited, upstream
<1>7. at[r] = "limiter" /\ at'[r] = "done" /\ status'[r] = 429
  BY <1>1 DEF Limited, Goes, Writes, TypeOK
<1>8. trail'[r] = {f}
  BY <1>2, <1>7 DEF IInv, LocalInv, Progress, f
<1>9. Progress(r)'
  BY <1>6, <1>7 DEF IInv, LocalInv, Progress, PastTurnstile
<1>10. Evidence(r)'
  BY <1>7 DEF Evidence, PastTurnstile
<1>11. Counting(r)'
  <2>1. Counted(r)' = {f} BY <1>3, <1>4, <1>8 DEF Counted
  <2> QED BY <1>4, <1>7, <1>8, <2>1 DEF Counting
<1>12. OnTrail(r)'
  <2>1. DenialKept(r)' BY <1>3, <1>4, <1>8 DEF DenialKept, Persisted
  <2> QED BY <1>7, <2>1 DEF OnTrail
<1> QED BY <1>5, <1>6, <1>9, <1>10, <1>11, <1>12, StepOf DEF LocalInv

(* A verification that succeeds records one step.                          *)
LEMMA VerifyAllowedInv ==
    ASSUME IInv, [Next]_vars, NEW r \in Requests, VerifyAllowed(r)
    PROVE  IInv'
<1> DEFINE e == Event("appcheck.verify", SuccessStatus, "success")
<1>1. /\ e \in Built /\ e.action \in Steps /\ e.result = "success"
      /\ Record(r, {e}) /\ TypeOK
  BY DEF VerifyAllowed, IInv, Event, Built, Actions, Steps, SuccessStatus
<1> HIDE DEF e
<1>2. Extends(r, "success")
  BY <1>1, StepRecorded
<1>3. \A q \in Requests : q # r => Same(q)
  BY <1>1, <1>2 DEF TypeOK, Same, Extends, VerifyAllowed, Goes, Writes, upstream
<1>4. /\ config' = config /\ redeemed' = redeemed /\ answer' = answer /\ input' = input
      /\ verified' = verified
  BY DEF VerifyAllowed, upstream
<1>5. /\ at[r] = "handler" /\ at'[r] = "deferred" /\ status'[r] = 204
      /\ input[r].route = "verify"
  BY <1>1 DEF VerifyAllowed, Goes, Writes, TypeOK, SuccessStatus
<1>6. Progress(r)'
  BY <1>4, <1>5 DEF IInv, LocalInv, Progress, PastTurnstile
<1>7. trail[r] = {}
  BY <1>5 DEF IInv, LocalInv, Progress
<1>8. \A f \in trail'[r] : ~f.decision.count /\ f.result = "success"
  BY <1>2, <1>7 DEF Extends
<1>9. Evidence(r)' /\ Counting(r)' /\ OnTrail(r)'
  BY <1>4, <1>5, <1>8 DEF Evidence, Counting, OnTrail, PastTurnstile, Over, Counted
<1> QED BY <1>3, <1>4, <1>6, <1>9, StepOf DEF LocalInv

(* A denial records the failed step and the denial, and counts neither.    *)
LEMMA VerifyDeniedInv ==
    ASSUME IInv, [Next]_vars, NEW r \in Requests, VerifyDenied(r)
    PROVE  IInv'
<1> DEFINE step == Event("appcheck.verify", config.failureStatus, "failure")
           denial == Event("forwardauth.denied", config.failureStatus, "denied")
<1>1. /\ step \in Built /\ denial \in Built /\ Record(r, {step, denial}) /\ TypeOK
      /\ step.action \in Steps /\ denial.action = "forwardauth.denied"
      /\ denial.result = "denied"
  BY FailureStatus DEF VerifyDenied, IInv, Event, Built, Actions, Steps
<1> HIDE DEF step, denial
<1>2. Adds(r, {step, denial})
  <2>1. {step, denial} \in SUBSET Built BY <1>1
  <2> QED BY <1>1, <2>1, RecordAdds
<1>3. \A q \in Requests : q # r => Same(q)
  BY <1>1, <1>2 DEF TypeOK, Same, Adds, VerifyDenied, Goes, Writes, upstream
<1>4. /\ config' = config /\ redeemed' = redeemed /\ answer' = answer /\ input' = input
      /\ verified' = verified
  BY DEF VerifyDenied, upstream
<1>5. /\ at[r] = "handler" /\ at'[r] = "deferred" /\ input[r].route = "verify"
  BY <1>1 DEF VerifyDenied, Goes, TypeOK
<1>6. trail[r] = {}
  BY <1>5 DEF IInv, LocalInv, Progress
<1>7. \A d \in Decide(step, input[r].route) : ~d.count
  BY <1>1, StepDecision
<1>8. \A d \in Decide(denial, input[r].route) : d.persist /\ d.priority = "critical" /\ ~d.count
  BY <1>1, DenialDecision DEF Denials
<1>9. \A f \in trail'[r] : ~f.decision.count
  BY <1>2, <1>6, <1>7, <1>8 DEF Adds
<1>10. DenialKept(r)'
  <2>1. PICK f \in trail'[r] : f.result = denial.result /\ f.decision \in Decide(denial, input[r].route)
    BY <1>2 DEF Adds
  <2> QED BY <1>1, <1>8, <2>1 DEF DenialKept, Persisted
<1>11. Progress(r)'
  BY <1>4, <1>5 DEF IInv, LocalInv, Progress, PastTurnstile
<1>12. Evidence(r)' /\ Counting(r)' /\ OnTrail(r)'
  BY <1>4, <1>5, <1>9, <1>10 DEF Evidence, Counting, OnTrail, PastTurnstile, Over, Counted
<1> QED BY <1>3, <1>4, <1>11, <1>12, StepOf DEF LocalInv

(* The deferred summary is the one event of the request that is counted.   *)
LEMMA SummaryInv ==
    ASSUME IInv, [Next]_vars, NEW r \in Requests, Summary(r)
    PROVE  IInv'
<1> DEFINE e == Event(SummaryAction(r), status[r], SummaryResult(r))
<1>1. /\ e \in Built /\ e.action \in Summaries /\ e.result \in {"success", "failure"}
      /\ e.status = status[r] /\ TypeOK
  <2>1. /\ SummaryAction(r) \in Summaries /\ SummaryResult(r) \in {"success", "failure"}
        /\ status[r] \in 100..599 /\ TypeOK
    BY DEF IInv, TypeOK, SummaryAction, SummaryResult, Summaries
  <2> QED BY <2>1 DEF Event, Built, Summaries, Actions
<1>2. Record(r, {e})
  BY DEF Summary, SummaryStatus, SummaryAction, SummaryResult
<1> HIDE DEF e
<1>3. PICK d \in Decide(e, input[r].route) :
          /\ trail'[r] = trail[r] \cup {TrailEntry(e, d)}
          /\ \A q \in Requests : q # r => trail'[q] = trail[q]
  BY <1>1, <1>2, RecordOne
<1>4. d.count
  BY <1>1, SummaryDecision
<1> DEFINE f == TrailEntry(e, d)
<1>5. f.result \in {"success", "failure"} /\ f.status = status[r] /\ f.decision = d
  BY <1>1 DEF TrailEntry
<1>6. trail'[r] = trail[r] \cup {f}
  BY <1>3
<1> HIDE DEF f
<1>7. /\ at' = [at EXCEPT ![r] = "done"] /\ at[r] = "deferred"
      /\ UNCHANGED <<config, input, status, redeemed, answer, verified>>
  BY DEF Summary, Goes, upstream
<1>8. \A q \in Requests : q # r => Same(q)
  BY <1>1, <1>3, <1>7 DEF TypeOK, Same
<1>9. at'[r] = "done"
  BY <1>1, <1>7 DEF TypeOK
<1>10. Progress(r)'
  BY <1>7, <1>9 DEF IInv, LocalInv, Progress, PastTurnstile
<1>11. Evidence(r)'
  BY <1>6, <1>7, <1>9 DEF IInv, LocalInv, Evidence, PastTurnstile, Over, Shows, Recorded
<1>12. Counting(r)'
  <2>1. Counted(r) = {} BY <1>7 DEF IInv, LocalInv, Counting
  <2>2. Counted(r)' = {f} BY <1>4, <1>5, <1>6, <2>1 DEF Counted
  <2> QED BY <1>5, <1>6, <1>7, <1>9, <2>2 DEF Counting
<1>13. OnTrail(r)'
  BY <1>5, <1>6, <1>7, <1>9 DEF IInv, LocalInv, OnTrail, Over, DenialKept, FailureKept, Persisted
<1> QED BY <1>7, <1>8, <1>10, <1>11, <1>12, <1>13, StepOf DEF LocalInv

(* Every step keeps the invariant.                                         *)
LEMMA Inductive == Spec => []IInv
<1>1. ASSUME IInv, [Next]_vars PROVE IInv'
  <2>1. ASSUME NEW r \in Requests, NEW i \in Inputs, Arrive(r, i) PROVE IInv'
    BY <1>1, <2>1, SilentInv
  <2>2. ASSUME NEW r \in Requests, Handle(r) PROVE IInv'
    BY <1>1, <2>2, SilentInv, AnsweredAtOnceInv, LimitedInv, TurnstileAcceptsInv,
       ExchangeEndsInv, VerifyDeniedInv, VerifyAllowedInv, SummaryInv DEF Handle
  <2>3. ASSUME NEW r \in Requests, Fetch(r) PROVE IInv'
    BY <1>1, <2>3, SilentInv, ExchangeEndsInv DEF Fetch
  <2>4. ASSUME NEW r \in Requests, ContextEnds(r) \/ Siteverify(r) PROVE IInv'
    BY <1>1, <2>4, SilentInv, SiteverifyInv
  <2>5. ASSUME TokenExpires \/ UNCHANGED vars PROVE IInv'
    BY <1>1, <2>5, UnseenInv
  <2> QED BY <1>1, <2>1, <2>2, <2>3, <2>4, <2>5 DEF Next
<1> QED BY <1>1, InvInit, PTL DEF Spec
-----------------------------------------------------------------------------
(* The safety properties.                                                  *)

(* ExchangeHandler.Handle returns an App Check token only after every      *)
(* check and both upstream calls have succeeded, and records both.         *)
THEOREM NothingUnverified == Spec => []IssuedOnlyToVerified
<1>1. IInv => IssuedOnlyToVerified
  BY DEF IInv, LocalInv, Evidence, IssuedOnlyToVerified, IssuedTo, Done, Over, Shows
<1> QED BY <1>1, Inductive, PTL

(* No two requests are given an App Check token for one Turnstile token,   *)
(* as long as Siteverify accepts a token once (turnstile.Client.Verify).   *)
THEOREM OneIssue == Spec => []OneIssuePerToken
<1>1. IInv => OneIssuePerToken
  <2> SUFFICES ASSUME IInv, NEW q \in Requests, NEW r \in Requests,
                      IssuedTo(q), IssuedTo(r), input[q].token = input[r].token
               PROVE  q = r
    BY DEF OneIssuePerToken
  <2>1. verified[q] /\ verified[r]
    BY DEF IInv, LocalInv, Evidence, IssuedTo, Done, Over
  <2>2. answer[q] = "accepted" /\ answer[r] = "accepted"
    BY <2>1 DEF IInv, LocalInv, Progress
  <2> QED BY <2>2 DEF IInv, AcceptedOnce
<1> QED BY <1>1, Inductive, PTL

(* A request that is over is counted by exactly one of its events, with    *)
(* the status it was answered (requestAuditEvent, Policy.Decide).          *)
THEOREM EveryRequestCounted == Spec => []CountedOnce
<1>1. IInv => CountedOnce
  <2> SUFFICES ASSUME IInv, NEW r \in Requests, Done(r), input[r].route # "preflight"
               PROVE  /\ Cardinality(Counted(r)) = 1
                      /\ \A e \in Counted(r) : e.status = status[r]
    BY DEF CountedOnce
  <2>1. PICK f \in trail[r] : Counted(r) = {f} /\ f.status = status[r]
    BY DEF IInv, LocalInv, Counting, Done
  <2>2. Cardinality({f}) = 1
    BY FS_Singleton
  <2> QED BY <2>1, <2>2
<1> QED BY <1>1, Inductive, PTL

(* Denials, and failures of an upstream unless the mode is summary, leave  *)
(* a critical row at every sample rate (Policy.Decide).                    *)
THEOREM FailuresKept == Spec => []FailuresOnTrail
<1>1. IInv => FailuresOnTrail
  BY DEF IInv, LocalInv, OnTrail, FailuresOnTrail, Done, Over, DenialKept, FailureKept
<1> QED BY <1>1, Inductive, PTL
-----------------------------------------------------------------------------
(* The lock of the token source, and the end of a context.                 *)

(* The lock is held by the one request that fetches, and by nobody else.   *)
LockIsFetch == \A r \in Requests : at[r] = "fetching" <=> holder = r

(* A context ends only while an upstream is called, and a request whose    *)
(* context has ended by the time it is over was answered 502.              *)
EndedFails ==
    \A r \in Requests : ended[r] =>
        /\ at[r] \in {"turnstile"} \cup PastTurnstile \cup Over
        /\ at[r] \in Over => status[r] = 502

(* What a step says of the requests that it is not about.                  *)
Moves(r) ==
    \A q \in Requests : q # r => at'[q] = at[q] /\ status'[q] = status[q] /\ ended'[q] = ended[q]

(* Every step is of one request, or of the token source.                   *)
LEMMA OneMoves ==
    ASSUME TypeOK, NEW r \in Requests,
           (\E i \in Inputs : Arrive(r, i)) \/ Handle(r) \/ Fetch(r) \/ ContextEnds(r) \/ Siteverify(r)
    PROVE  Moves(r)
<1> USE DEF TypeOK, Goes, Writes, Moves
<1>1. CASE (\E i \in Inputs : Arrive(r, i)) \/ ContextEnds(r) \/ Siteverify(r)
  BY <1>1 DEF Arrive, ContextEnds, Siteverify
<1>2. CASE Preflight(r) \/ Limited(r) \/ Admitted(r) \/ Reject(r) \/ CallTurnstile(r)
  BY <1>2 DEF Preflight, Limited, Admitted, Reject, CallTurnstile
<1>3. CASE TurnstileAccepts(r) \/ TurnstileRejects(r) \/ TurnstileFails(r)
  BY <1>3 DEF TurnstileAccepts, TurnstileRejects, TurnstileFails
<1>4. CASE SigningFails(r) \/ UseCachedToken(r) \/ BeginFetch(r) \/ Fetch(r)
  BY <1>4 DEF SigningFails, UseCachedToken, BeginFetch, Fetch, FetchSucceeds, FetchFails, ExchangeFails
<1>5. CASE FirebaseAnswers(r) \/ FirebaseFails(r) \/ VerifyDenied(r) \/ VerifyAllowed(r) \/ Summary(r)
  BY <1>5 DEF FirebaseAnswers, FirebaseFails, ExchangeFails, VerifyDenied, VerifyAllowed, Summary
<1> QED BY <1>1, <1>2, <1>3, <1>4, <1>5 DEF Handle

(* Only BeginFetch takes the lock, and only the end of the fetch frees it. *)
LEMMA LockStep == TypeOK /\ LockIsFetch /\ [Next]_vars => LockIsFetch'
<1> SUFFICES ASSUME TypeOK, LockIsFetch, [Next]_vars PROVE LockIsFetch' OBVIOUS
<1>1. ASSUME NEW r \in Requests, Moves(r), UNCHANGED holder,
             at'[r] # "fetching", at[r] # "fetching"
      PROVE  LockIsFetch'
  BY <1>1 DEF LockIsFetch, Moves
<1>2. ASSUME NEW r \in Requests, Moves(r), UNCHANGED holder, at'[r] = at[r] PROVE LockIsFetch'
  BY <1>2 DEF LockIsFetch, Moves
<1>3. ASSUME NEW r \in Requests, BeginFetch(r) \/ Fetch(r) PROVE LockIsFetch'
  <2>1. Moves(r) BY <1>3, OneMoves DEF Handle
  <2>2. CASE BeginFetch(r)
    <3>1. at'[r] = "fetching" /\ holder = NoRequest /\ holder' = r
      BY <2>2 DEF BeginFetch, Goes, TypeOK
    <3> QED BY <2>1, <3>1, GatewayAssumption DEF LockIsFetch, Moves
  <2>3. CASE Fetch(r)
    <3>1. at[r] = "fetching" /\ at'[r] # "fetching" /\ holder' = NoRequest
      BY <2>3 DEF Fetch, FetchSucceeds, FetchFails, ExchangeFails, Goes, TypeOK
    <3> QED BY <2>1, <3>1, GatewayAssumption DEF LockIsFetch, Moves
  <2> QED BY <1>3, <2>2, <2>3
<1>4. ASSUME NEW r \in Requests, (\E i \in Inputs : Arrive(r, i)) \/ Handle(r), ~BeginFetch(r)
      PROVE  LockIsFetch'
  <2>1. at'[r] # "fetching" /\ at[r] # "fetching" /\ UNCHANGED holder
    <3> USE DEF TypeOK, Goes, upstream
    <3>1. CASE \E i \in Inputs : Arrive(r, i)
      BY <3>1 DEF Arrive
    <3>2. CASE Preflight(r) \/ Limited(r) \/ Admitted(r) \/ Reject(r) \/ CallTurnstile(r)
      BY <3>2 DEF Preflight, Limited, Admitted, Reject, CallTurnstile
    <3>3. CASE TurnstileAccepts(r) \/ TurnstileRejects(r) \/ TurnstileFails(r)
      BY <3>3 DEF TurnstileAccepts, TurnstileRejects, TurnstileFails
    <3>4. CASE SigningFails(r) \/ UseCachedToken(r) \/ FirebaseAnswers(r) \/ FirebaseFails(r)
      BY <3>4 DEF SigningFails, UseCachedToken, FirebaseAnswers, FirebaseFails, ExchangeFails
    <3>5. CASE VerifyDenied(r) \/ VerifyAllowed(r) \/ Summary(r)
      BY <3>5 DEF VerifyDenied, VerifyAllowed, Summary
    <3> QED BY <1>4, <3>1, <3>2, <3>3, <3>4, <3>5 DEF Handle
  <2>2. Moves(r) BY <1>4, OneMoves
  <2> QED BY <1>1, <2>1, <2>2
<1>5. ASSUME NEW r \in Requests, ContextEnds(r) \/ Siteverify(r) PROVE LockIsFetch'
  <2>1. Moves(r) BY <1>5, OneMoves
  <2> QED BY <1>2, <1>5, <2>1 DEF ContextEnds, Siteverify, upstream
<1>6. CASE TokenExpires \/ UNCHANGED vars
  BY <1>6 DEF TokenExpires, vars, upstream, LockIsFetch
<1> QED BY <1>3, <1>4, <1>5, <1>6 DEF Next

(* No two requests fetch an OAuth token at once, and the lock is never     *)
(* left held, whichever way a fetch ends: what remains of Answered without *)
(* fairness (oauth2's reuseTokenSource, Client.httpDo).                    *)
OneFetchAtATime ==
    /\ \A q, r \in Requests : at[q] = "fetching" /\ at[r] = "fetching" => q = r
    /\ holder # NoRequest => at[holder] = "fetching"

(* The lock of the token source is a lock, for any number of requests.     *)
THEOREM LockNeverLeft == Spec => []OneFetchAtATime
<1>1. Init => LockIsFetch
  BY GatewayAssumption DEF Init, LockIsFetch
<1>2. TypeOK /\ LockIsFetch => OneFetchAtATime
  BY DEF TypeOK, LockIsFetch, OneFetchAtATime
<1> QED BY <1>1, <1>2, LockStep, TypeCorrect, PTL DEF Spec

(* A step of a request whose context has ended, or ends now.               *)
LEMMA EndedStep == TypeOK /\ EndedFails /\ [Next]_vars => EndedFails'
<1> SUFFICES ASSUME TypeOK, EndedFails, [Next]_vars PROVE EndedFails' OBVIOUS
<1> DEFINE Fine(r) == ended[r] => /\ at[r] \in {"turnstile"} \cup PastTurnstile \cup Over
                                  /\ at[r] \in Over => status[r] = 502
<1>1. ASSUME NEW r \in Requests, Moves(r), Fine(r)' PROVE EndedFails'
  BY <1>1 DEF EndedFails, Moves
<1>2. ASSUME NEW r \in Requests, \E i \in Inputs : Arrive(r, i) PROVE EndedFails'
  <2>1. Fine(r)' BY <1>2 DEF Arrive, Goes, TypeOK, EndedFails, PastTurnstile, Over
  <2> QED BY <1>1, <1>2, <2>1, OneMoves
<1>3. ASSUME NEW r \in Requests, Handle(r) \/ Fetch(r) PROVE EndedFails'
  <2> USE DEF TypeOK, Goes, Writes, EndedFails, PastTurnstile, Over
  <2>1. CASE Preflight(r) \/ Limited(r) \/ Admitted(r) \/ Reject(r) \/ CallTurnstile(r)
    <3>1. ~ended'[r]
      BY <2>1 DEF Preflight, Limited, Admitted, Reject, CallTurnstile
    <3> QED BY <1>1, <1>3, <3>1, OneMoves
  <2>2. CASE TurnstileAccepts(r) \/ TurnstileRejects(r) \/ FirebaseAnswers(r)
    <3>1. ~ended'[r]
      BY <2>2 DEF TurnstileAccepts, TurnstileRejects, FirebaseAnswers
    <3> QED BY <1>1, <1>3, <3>1, OneMoves
  <2>3. CASE TurnstileFails(r) \/ SigningFails(r) \/ FetchFails(r) \/ FirebaseFails(r)
    <3>1. at'[r] = "deferred" /\ status'[r] = 502
      BY <2>3 DEF TurnstileFails, SigningFails, FetchFails, FirebaseFails, ExchangeFails
    <3> QED BY <1>1, <1>3, <3>1, OneMoves
  <2>4. CASE UseCachedToken(r) \/ BeginFetch(r) \/ FetchSucceeds(r)
    <3>1. at'[r] \in PastTurnstile
      BY <2>4 DEF UseCachedToken, BeginFetch, FetchSucceeds
    <3> QED BY <1>1, <1>3, <3>1, OneMoves
  <2>5. CASE VerifyDenied(r) \/ VerifyAllowed(r)
    <3>1. ~ended'[r]
      BY <2>5 DEF VerifyDenied, VerifyAllowed
    <3> QED BY <1>1, <1>3, <3>1, OneMoves
  <2>6. CASE Summary(r)
    <3>1. at[r] = "deferred" /\ at'[r] = "done" /\ UNCHANGED <<status, ended>>
      BY <2>6 DEF Summary
    <3> QED BY <1>1, <1>3, <3>1, OneMoves
  <2> QED BY <1>3, <2>1, <2>2, <2>3, <2>4, <2>5, <2>6 DEF Handle, Fetch
<1>4. ASSUME NEW r \in Requests, ContextEnds(r) PROVE EndedFails'
  <2>1. Fine(r)' BY <1>4 DEF ContextEnds, TypeOK, PastTurnstile, Over
  <2> QED BY <1>1, <1>4, <2>1, OneMoves
<1>5. ASSUME NEW r \in Requests, Siteverify(r) PROVE EndedFails'
  BY <1>5 DEF Siteverify, EndedFails
<1>6. CASE TokenExpires \/ UNCHANGED vars
  BY <1>6 DEF TokenExpires, vars, EndedFails
<1> QED BY <1>2, <1>3, <1>4, <1>5, <1>6 DEF Next

(* A request whose context ends while it calls an upstream gets 502 and no *)
(* token, wherever it was among its calls: it does not go on with an       *)
(* answer of an earlier one (ExchangeHandler.Handle).                      *)
EndedGetsNothing ==
    \A r \in Requests : Done(r) /\ ended[r] => status[r] = 502 /\ ~IssuedTo(r)

(* A context that ends is not lost between two upstream calls.             *)
THEOREM EndedGetsNo == Spec => []EndedGetsNothing
<1>1. Init => EndedFails
  BY DEF Init, EndedFails
<1>2. EndedFails => EndedGetsNothing
  BY DEF EndedFails, EndedGetsNothing, Done, IssuedTo, Over
<1> QED BY <1>1, <1>2, EndedStep, TypeCorrect, PTL DEF Spec
=============================================================================
