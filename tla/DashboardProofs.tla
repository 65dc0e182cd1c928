---------------------------- MODULE DashboardProofs ----------------------------
(***************************************************************************)
(* Theorems about Dashboard, for any number of overlapping calls, ranges   *)
(* and pages.                                                              *)
(***************************************************************************)
EXTENDS Dashboard, SequenceTheorems, TLAPS

Pages == [at : Nat, next : Nat, epoch : Nat]
Charts == [range : Ranges, epoch : Nat]

Tasked == [at : {"idle", "me", "options", "metrics", "audit", "post", "done"},
           kind : {"none", "reload", "load", "range", "reset"},
           request : [asked : {Nothing} \cup [cursor : Nat] \cup [range : Ranges],
                      status : {"asked", "ok", "failed"},
                      data : {Nothing} \cup Pages \cup Charts,
                      attempt : Nat]]

(* What a request asks for, and that its answer is to what it asked.       *)
ToThePoint(u) ==
  /\ u.at = "audit" =>
       /\ u.request.asked \in [cursor : Nat]
       /\ u.request.status = "ok" =>
            /\ u.request.data \in Pages /\ u.request.data.at = u.request.asked.cursor
            /\ u.request.data.next \in {0, u.request.asked.cursor + 1}
  /\ u.at = "metrics" =>
       /\ u.request.asked \in [range : Ranges]
       /\ u.request.status = "ok" =>
            u.request.data \in Charts /\ u.request.data.range = u.request.asked.range

(* What is shown is a page and a chart, and no reset is known that is not. *)
Typed ==
  /\ task \in [Tasks -> Tasked] /\ \A t \in Tasks : ToThePoint(task[t])
  /\ metricsRange \in Ranges /\ metrics \in Charts
  /\ page \in Pages /\ page.next \in {0, page.at + 1}
  /\ cursor \in Nat /\ pageIndex \in Nat /\ cursorStack \in Seq(Nat)
  /\ epoch \in Nat /\ erased \in Nat /\ erased <= epoch

(* The calls but t stay where they are.                                    *)
Alone(t) == \A u \in Tasks \ {t} : task'[u] = task[u]

-----------------------------------------------------------------------------
(* What the steps do to a call.                                            *)

(* A new request has the shape of one.                                     *)
LEMMA AtType ==
  ASSUME NEW step, NEW kind, NEW asked
  PROVE  /\ At(step, kind, asked).at = step /\ At(step, kind, asked).kind = kind
         /\ At(step, kind, asked).request.asked = asked
         /\ At(step, kind, asked).request.status = "asked"
         /\ /\ step \in {"idle", "me", "options", "metrics", "audit", "post", "done"}
            /\ kind \in {"none", "reload", "load", "range", "reset"}
            /\ asked \in {Nothing} \cup [cursor : Nat] \cup [range : Ranges]
            => At(step, kind, asked) \in Tasked
BY DEF At, Request, Tasked

(* A new request has no answer yet.                                        *)
LEMMA NewToThePoint ==
  ASSUME NEW step, NEW kind, NEW asked,
         step = "audit" => asked \in [cursor : Nat],
         step = "metrics" => asked \in [range : Ranges]
  PROVE  ToThePoint(At(step, kind, asked))
BY AtType DEF ToThePoint

(* Goes, Starts and Ends give a call a new request, or none.               *)
LEMMA NewRequest ==
  ASSUME Typed, NEW t \in Tasks, NEW step, NEW kind, NEW asked,
         task' = [task EXCEPT ![t] = At(step, kind, asked)],
         step \in {"me", "options", "metrics", "audit", "post", "done"},
         kind \in {"none", "reload", "load", "range", "reset"},
         asked \in {Nothing} \cup [cursor : Nat] \cup [range : Ranges],
         step = "audit" => asked \in [cursor : Nat],
         step = "metrics" => asked \in [range : Ranges]
  PROVE  /\ task' \in [Tasks -> Tasked] /\ (\A u \in Tasks : ToThePoint(task'[u]))
         /\ task'[t] = At(step, kind, asked) /\ Alone(t)
<1>1. At(step, kind, asked) \in Tasked /\ ToThePoint(At(step, kind, asked))
  BY AtType, NewToThePoint
<1> HIDE DEF At
<1>2. task'[t] = At(step, kind, asked) /\ Alone(t) /\ task' \in [Tasks -> Tasked]
  BY <1>1 DEF Typed, Alone
<1> QED
  BY <1>1, <1>2 DEF Typed, Alone

(* Goes.                                                                   *)
LEMMA GoesOn ==
  ASSUME Typed, NEW t \in Tasks, NEW step, NEW asked, Goes(t, step, asked),
         step \in {"me", "options", "metrics", "audit"},
         asked \in {Nothing} \cup [cursor : Nat] \cup [range : Ranges],
         step = "audit" => asked \in [cursor : Nat],
         step = "metrics" => asked \in [range : Ranges]
  PROVE  /\ task' \in [Tasks -> Tasked] /\ (\A u \in Tasks : ToThePoint(task'[u]))
         /\ task'[t].at = step /\ task'[t].request.asked = asked
         /\ task'[t].request.status = "asked" /\ Alone(t)
<1> DEFINE kind == task[t].kind
<1>1. task' = [task EXCEPT ![t] = At(step, kind, asked)]
  BY DEF Goes, Typed
<1>2. kind \in {"none", "reload", "load", "range", "reset"}
  BY DEF Typed, Tasked
<1> HIDE DEF kind
<1>3. /\ task' \in [Tasks -> Tasked] /\ (\A u \in Tasks : ToThePoint(task'[u]))
      /\ task'[t] = At(step, kind, asked) /\ Alone(t)
  BY <1>1, <1>2, NewRequest
<1> QED
  BY <1>3, AtType

(* Ends, of the request's part.                                            *)
LEMMA EndsType ==
  ASSUME Typed, NEW t \in Tasks, Ends(t)
  PROVE  /\ task' \in [Tasks -> Tasked] /\ (\A u \in Tasks : ToThePoint(task'[u]))
         /\ task'[t].at = "done" /\ Alone(t)
<1>1. task' = [task EXCEPT ![t] = At("done", "none", Nothing)]
  BY DEF Ends, Done
<1>2. /\ task' \in [Tasks -> Tasked] /\ (\A u \in Tasks : ToThePoint(task'[u]))
      /\ task'[t] = At("done", "none", Nothing) /\ Alone(t)
  BY <1>1, NewRequest
<1> QED
  BY <1>2, AtType

(* Answer.                                                                 *)
LEMMA Answered ==
  ASSUME Typed, NEW t \in Tasks, NEW status \in {"ok", "failed"}, NEW data, Answer(t, status, data),
         data \in {Nothing} \cup Pages \cup Charts
  PROVE  /\ task' \in [Tasks -> Tasked] /\ Alone(t)
         /\ task'[t].at = task[t].at /\ task'[t].kind = task[t].kind
         /\ task'[t].request.asked = task[t].request.asked
         /\ task'[t].request.status = status /\ task'[t].request.data = data
<1>1. task \in [Tasks -> Tasked] /\ task[t] \in Tasked
  BY DEF Typed
<1> DEFINE new == [task[t] EXCEPT !.request =
                     [task[t].request EXCEPT !.status = status, !.data = data, !.attempt = 0]]
<1>2. task' = [task EXCEPT ![t] = new]
  BY <1>1 DEF Answer, Tasked
<1>3. /\ new \in Tasked /\ new.at = task[t].at /\ new.kind = task[t].kind
      /\ new.request.asked = task[t].request.asked
      /\ new.request.status = status /\ new.request.data = data
  BY <1>1 DEF Tasked
<1> HIDE DEF new
<1> QED
  BY <1>1, <1>2, <1>3 DEF Alone

-----------------------------------------------------------------------------
(* The invariant.                                                          *)

(* After a walk, the cursors are the page numbers, and the one load that   *)
(* may be under way is of the page that is shown next.                     *)
WalkSound ==
  walked =>
    /\ cursor = pageIndex /\ \A i \in 1..pageIndex : cursorStack[i] = i - 1
    /\ ~InFlight("audit") => page.at = cursor /\ page.epoch >= erased
    /\ \A t, u \in Tasks : task[t].at = "audit" /\ task[u].at = "audit" => t = u
    /\ \A t \in Tasks : task[t].at = "audit" =>
         /\ task[t].request.asked.cursor = cursor
         /\ task[t].request.status = "ok" => task[t].request.data.epoch >= erased

(* Likewise, the one load of metrics is of the range that is marked.       *)
ChartSound ==
  charted =>
    /\ ~InFlight("metrics") => metrics.range = metricsRange /\ metrics.epoch >= erased
    /\ \A t, u \in Tasks : task[t].at = "metrics" /\ task[u].at = "metrics" => t = u
    /\ \A t \in Tasks : task[t].at = "metrics" =>
         /\ task[t].request.asked.range = metricsRange
         /\ task[t].request.status = "ok" => task[t].request.data.epoch >= erased

IInv == Typed /\ StackIsWalk /\ WalkSound /\ ChartSound

(* onMount, or a page that was walked to.                                  *)
LEMMA InitInv == Init => IInv
<1> SUFFICES ASSUME Init PROVE IInv OBVIOUS
<1>1. 1 \in Tasks BY DashboardAssumption DEF Tasks
<1>2. /\ At("me", "reload", Nothing) \in Tasked /\ Idle \in Tasked
      /\ At("me", "reload", Nothing).at = "me" /\ Idle.at = "idle"
      /\ ToThePoint(At("me", "reload", Nothing)) /\ ToThePoint(Idle)
  BY AtType, NewToThePoint DEF Idle
<1> HIDE DEF At, Idle
<1>3. /\ task \in [Tasks -> Tasked] /\ (\A t \in Tasks : ToThePoint(task[t]))
      /\ \A t \in Tasks : task[t].at \in {"me", "idle"}
  BY <1>2 DEF Init
<1>4. /\ cursor \in Nat /\ pageIndex = cursor
      /\ cursorStack = [i \in 1..cursor |-> i - 1]
      /\ page = [at |-> cursor, next |-> 0, epoch |-> 0] /\ erased = 0 /\ epoch = 0
      /\ metrics = [range |-> metricsRange, epoch |-> 0] /\ metricsRange \in Ranges
  BY DashboardAssumption DEF Init
<1>5. /\ cursorStack \in Seq(Nat) /\ Len(cursorStack) = pageIndex
      /\ \A i \in 1..pageIndex : cursorStack[i] = i - 1
  <2>1. \A i \in 1..cursor : i - 1 \in Nat BY <1>4
  <2>2. cursorStack \in [1..cursor -> Nat] BY <1>4, <2>1
  <2>3. cursorStack \in Seq(Nat) BY <1>4, <2>2, SeqDef
  <2>4. DOMAIN cursorStack = 1..cursor BY <2>2
  <2>5. Len(cursorStack) = cursor BY <1>4, <2>3, <2>4, LenProperties
  <2>6. \A i \in 1..cursor : cursorStack[i] = i - 1 BY <1>4
  <2> QED BY <1>4, <2>3, <2>5, <2>6
<1>6. Typed BY <1>3, <1>4, <1>5 DEF Typed, Pages, Charts
<1>7. StackIsWalk BY <1>4, <1>5 DEF StackIsWalk
<1>8. WalkSound /\ ChartSound
  <2>1. \A t \in Tasks : task[t].at # "audit" /\ task[t].at # "metrics" BY <1>3
  <2>2. page.at = cursor /\ page.epoch >= erased BY <1>4
  <2>3. metrics.range = metricsRange /\ metrics.epoch >= erased BY <1>4
  <2>4. WalkSound BY <1>4, <1>5, <2>1, <2>2 DEF WalkSound
  <2> QED BY <2>1, <2>3, <2>4 DEF ChartSound
<1> QED BY <1>6, <1>7, <1>8 DEF IInv

(* A step that starts or ends no load of the trail keeps the walk sound.   *)
LEMMA WalkFrame ==
  ASSUME IInv, NEW t \in Tasks, Alone(t), UNCHANGED <<position, page, erased>>, walked' => walked,
         task'[t].at = "audit" <=> task[t].at = "audit",
         task[t].at = "audit" =>
           /\ task'[t].request.asked = task[t].request.asked
           /\ task'[t].request.status = "ok" =>
                \/ task[t].request.status = "ok" /\ task'[t].request.data = task[t].request.data
                \/ task'[t].request.data.epoch >= erased
  PROVE  StackIsWalk' /\ WalkSound'
<1>1. StackIsWalk'
  BY DEF IInv, StackIsWalk, position
<1>2. InFlight("audit")' <=> InFlight("audit")
  BY DEF Alone, InFlight
<1> QED
  BY <1>1, <1>2 DEF IInv, WalkSound, Alone, position

(* A step that starts or ends no load of metrics keeps the chart sound.    *)
LEMMA ChartFrame ==
  ASSUME IInv, NEW t \in Tasks, Alone(t), UNCHANGED <<metricsRange, metrics, erased>>,
         charted' => charted,
         task'[t].at = "metrics" <=> task[t].at = "metrics",
         task[t].at = "metrics" =>
           /\ task'[t].request.asked = task[t].request.asked
           /\ task'[t].request.status = "ok" =>
                \/ task[t].request.status = "ok" /\ task'[t].request.data = task[t].request.data
                \/ task'[t].request.data.epoch >= erased
  PROVE  ChartSound'
<1>1. InFlight("metrics")' <=> InFlight("metrics")
  BY DEF Alone, InFlight
<1> QED
  BY <1>1 DEF IInv, ChartSound, Alone

(* loadAudit, of the first page or of one whose cursor the walk knows.     *)
LEMMA LoadsPage ==
  ASSUME IInv, NEW t \in Tasks, Alone(t), UNCHANGED <<page, erased>>,
         NEW c \in Nat, NEW n \in Nat, NEW stack \in Seq(Nat), loadAudit(t, c, n, stack),
         task[t].at # "audit", task'[t].at = "audit",
         task'[t].request.asked.cursor = c, task'[t].request.status = "asked",
         Len(stack) = n, c = 0 <=> n = 0, \A i \in 1..n : stack[i] = 0 <=> i = 1,
         walked /\ ~InFlight("audit") /\ c # 0 => c = n /\ \A i \in 1..n : stack[i] = i - 1
  PROVE  StackIsWalk' /\ WalkSound'
<1>1. cursor' = c /\ pageIndex' = n /\ cursorStack' = stack
        /\ (walked' => ~Meets(t, "audit") /\ (c = 0 \/ walked))
  BY DEF loadAudit
<1>2. StackIsWalk'
  BY <1>1 DEF StackIsWalk
<1>3. ASSUME walked' PROVE WalkSound'
  <2>1. ~InFlight("audit") /\ \A u \in Tasks \ {t} : task'[u].at # "audit"
    BY <1>1, <1>3 DEF Meets, InFlight, Alone
  <2>2. c = n /\ \A i \in 1..n : stack[i] = i - 1
    BY <1>1, <1>3, <2>1
  <2>3. InFlight("audit")'
    BY DEF InFlight
  <2> QED
    BY <1>1, <2>1, <2>2, <2>3 DEF WalkSound
<1> QED
  BY <1>2, <1>3 DEF WalkSound

(* loadMetrics, of the range that is marked.                               *)
LEMMA LoadsChart ==
  ASSUME IInv, NEW t \in Tasks, Alone(t), loadMetrics(t), task'[t].at = "metrics",
         task'[t].request.asked.range = metricsRange', task'[t].request.status = "asked"
  PROVE  ChartSound'
<1>1. charted' => \A u \in Tasks \ {t} : task'[u].at # "metrics"
  BY DEF loadMetrics, Meets, Alone
<1>2. InFlight("metrics")'
  BY DEF InFlight
<1> QED
  BY <1>1, <1>2 DEF ChartSound

-----------------------------------------------------------------------------
(* The steps.                                                              *)

(* The server answers to the point, and with what the trail is now.        *)
LEMMA ServeInv ==
  ASSUME IInv, NEW t \in Tasks, Serve(t) PROVE IInv'
<1>1. /\ task[t].at \notin {"idle", "done"} /\ task[t].request.status = "asked"
      /\ UNCHANGED <<metricsRange, position, page, metrics, erased, walked, charted>>
      /\ epoch \in Nat /\ epoch' \in {epoch, epoch + 1} /\ erased <= epoch /\ erased \in Nat
      /\ task[t] \in Tasked /\ ToThePoint(task[t])
  BY DEF Serve, browser, shown, IInv, Typed
<1>2. PICK status \in {"ok", "failed"}, data \in {Nothing} \cup Data(t) :
        Answer(t, status, data) /\ (status = "ok" => data \in Data(t))
                                /\ (status = "failed" => data = Nothing)
  BY DEF Serve
<1>3. ASSUME status = "ok", task[t].at = "audit"
      PROVE  /\ data \in Pages /\ data.at = task[t].request.asked.cursor
             /\ data.next \in {0, task[t].request.asked.cursor + 1} /\ data.epoch = epoch
  <2>1. data \in Page(task[t].request.asked) /\ task[t].request.asked.cursor \in Nat
    BY <1>1, <1>2, <1>3 DEF Data, ToThePoint
  <2> QED
    BY <1>1, <2>1 DEF Page, Pages
<1>4. ASSUME status = "ok", task[t].at = "metrics"
      PROVE  /\ data \in Charts /\ data.range = task[t].request.asked.range /\ data.epoch = epoch
  BY <1>1, <1>2, <1>4 DEF Data, ToThePoint, Charts
<1>5. data \in {Nothing} \cup Pages \cup Charts
  BY <1>2, <1>3, <1>4 DEF Data
<1>6. /\ task' \in [Tasks -> Tasked] /\ Alone(t)
      /\ task'[t].at = task[t].at /\ task'[t].request.asked = task[t].request.asked
      /\ task'[t].request.status = status /\ task'[t].request.data = data
  BY <1>2, <1>5, Answered DEF IInv
<1>7. ToThePoint(task'[t])
  BY <1>1, <1>3, <1>4, <1>6 DEF ToThePoint
<1>8. \A u \in Tasks : ToThePoint(task'[u])
  BY <1>6, <1>7 DEF Alone, IInv, Typed
<1>9. Typed'
  BY <1>1, <1>6, <1>8 DEF IInv, Typed, position
<1>10. StackIsWalk' /\ WalkSound'
  BY <1>1, <1>3, <1>6, WalkFrame
<1>11. ChartSound'
  BY <1>1, <1>4, <1>6, ChartFrame
<1> QED
  BY <1>9, <1>10, <1>11 DEF IInv

(* A retry asks again for the same.                                        *)
LEMMA RetryInv ==
  ASSUME IInv, NEW t \in Tasks, RetryAuth(t) PROVE IInv'
<1>1. /\ UNCHANGED <<metricsRange, position, page, metrics, erased, walked, charted, epoch>>
      /\ task \in [Tasks -> Tasked] /\ task[t] \in Tasked /\ task[t].request.status = "asked"
  BY DEF RetryAuth, browser, shown, IInv, Typed
<1> DEFINE new == [task[t] EXCEPT !.request = [task[t].request EXCEPT !.attempt = @ + 1]]
<1>2. task' = [task EXCEPT ![t] = new]
  BY <1>1 DEF RetryAuth, Tasked
<1>3. /\ new \in Tasked /\ new.at = task[t].at
      /\ new.request.asked = task[t].request.asked /\ new.request.status = "asked"
  BY <1>1 DEF Tasked
<1> HIDE DEF new
<1>4. /\ task' \in [Tasks -> Tasked] /\ Alone(t) /\ task'[t] = new
  BY <1>1, <1>2, <1>3 DEF Alone
<1>5. \A u \in Tasks : ToThePoint(task'[u])
  BY <1>3, <1>4 DEF Alone, IInv, Typed, ToThePoint
<1>6. Typed'
  BY <1>1, <1>4, <1>5 DEF IInv, Typed, position
<1>7. StackIsWalk' /\ WalkSound'
  BY <1>1, <1>3, <1>4, WalkFrame
<1>8. ChartSound'
  BY <1>1, <1>3, <1>4, ChartFrame
<1> QED
  BY <1>6, <1>7, <1>8 DEF IInv

(* Starts: a call begins, and nothing that is shown changes.               *)
LEMMA StartsCall ==
  ASSUME IInv, NEW t \in Tasks, NEW step, NEW kind, NEW asked, Starts(t, step, kind, asked),
         step \in {"me", "metrics", "audit", "post"},
         kind \in {"reload", "load", "range", "reset"},
         asked \in {Nothing} \cup [cursor : Nat] \cup [range : Ranges],
         step = "audit" => asked \in [cursor : Nat],
         step = "metrics" => asked \in [range : Ranges]
  PROVE  /\ task' \in [Tasks -> Tasked] /\ (\A u \in Tasks : ToThePoint(task'[u])) /\ Alone(t)
         /\ task[t].at = "idle" /\ task'[t].at = step
         /\ task'[t].request.asked = asked /\ task'[t].request.status = "asked"
         /\ UNCHANGED <<page, metrics, epoch, erased>>
<1>1. /\ task' = [task EXCEPT ![t] = At(step, kind, asked)] /\ task[t].at = "idle"
      /\ UNCHANGED <<page, metrics, epoch, erased>>
  BY DEF Starts, shown
<1>2. /\ task' \in [Tasks -> Tasked] /\ (\A u \in Tasks : ToThePoint(task'[u]))
      /\ task'[t] = At(step, kind, asked) /\ Alone(t)
  BY <1>1, NewRequest DEF IInv
<1> QED
  BY <1>1, <1>2, AtType

(* StartsAudit, of the first page or of one whose cursor the walk knows.   *)
LEMMA StartsAuditInv ==
  ASSUME IInv, NEW t \in Tasks,
         NEW c \in Nat, NEW n \in Nat, NEW stack \in Seq(Nat), StartsAudit(t, c, n, stack),
         Len(stack) = n, c = 0 <=> n = 0, \A i \in 1..n : stack[i] = 0 <=> i = 1,
         walked /\ ~InFlight("audit") /\ c # 0 => c = n /\ \A i \in 1..n : stack[i] = i - 1
  PROVE  IInv'
<1> DEFINE asked == [cursor |-> c]
<1>1. asked \in [cursor : Nat] /\ asked.cursor = c
  OBVIOUS
<1>2. /\ loadAudit(t, c, n, stack) /\ Starts(t, "audit", "load", asked)
      /\ UNCHANGED <<metricsRange, charted>>
  BY DEF StartsAudit
<1> HIDE DEF asked
<1>3. /\ task' \in [Tasks -> Tasked] /\ (\A u \in Tasks : ToThePoint(task'[u])) /\ Alone(t)
      /\ task[t].at = "idle" /\ task'[t].at = "audit"
      /\ task'[t].request.asked = asked /\ task'[t].request.status = "asked"
      /\ UNCHANGED <<page, metrics, epoch, erased>>
  BY <1>1, <1>2, StartsCall
<1>4. cursor' = c /\ pageIndex' = n /\ cursorStack' = stack
  BY <1>2 DEF loadAudit
<1>5. Typed'
  BY <1>2, <1>3, <1>4 DEF IInv, Typed
<1>6. task'[t].request.asked.cursor = c
  BY <1>1, <1>3
<1>7. StackIsWalk' /\ WalkSound'
  BY <1>2, <1>3, <1>6, LoadsPage
<1>8. ChartSound'
  BY <1>2, <1>3, ChartFrame
<1> QED
  BY <1>5, <1>7, <1>8 DEF IInv

(* To the next page: its cursor comes with this page, and this page's own  *)
(* cursor is kept for going back.                                          *)
LEMMA NextInv ==
  ASSUME IInv, NEW t \in Tasks, loadNextAuditPage(t) PROVE IInv'
<1>1. /\ cursor \in Nat /\ pageIndex \in Nat /\ cursorStack \in Seq(Nat)
      /\ page.next \in Nat /\ page.at \in Nat /\ page.next \in {0, page.at + 1}
      /\ StackIsWalk /\ WalkSound
  BY DEF IInv, Typed, Pages
<1> DEFINE stack == Append(cursorStack, cursor)
<1>2. page.next # 0 /\ StartsAudit(t, page.next, pageIndex + 1, stack)
  BY DEF loadNextAuditPage
<1>3. /\ stack \in Seq(Nat) /\ Len(stack) = pageIndex + 1
      /\ stack[pageIndex + 1] = cursor
      /\ \A i \in 1..pageIndex : stack[i] = cursorStack[i]
  BY <1>1, AppendProperties DEF StackIsWalk
<1> HIDE DEF stack
<1>4. \A i \in 1..(pageIndex + 1) : stack[i] = 0 <=> i = 1
  BY <1>1, <1>3 DEF StackIsWalk
<1>5. ASSUME walked, ~InFlight("audit")
      PROVE  page.next = pageIndex + 1 /\ \A i \in 1..(pageIndex + 1) : stack[i] = i - 1
  <2>1. cursor = pageIndex /\ page.at = cursor /\ \A i \in 1..pageIndex : cursorStack[i] = i - 1
    BY <1>1, <1>5 DEF WalkSound
  <2>2. page.next = pageIndex + 1
    BY <1>1, <1>2, <2>1
  <2>3. ASSUME NEW i \in 1..(pageIndex + 1) PROVE stack[i] = i - 1
    <3>1. CASE i = pageIndex + 1
      BY <1>1, <1>3, <2>1, <3>1
    <3>2. CASE i # pageIndex + 1
      <4>1. i \in 1..pageIndex
        BY <1>1, <3>2
      <4> QED
        BY <1>3, <2>1, <4>1
    <3> QED
      BY <3>1, <3>2
  <2> QED
    BY <2>2, <2>3
<1>6. pageIndex + 1 \in Nat /\ (page.next = 0 <=> pageIndex + 1 = 0)
  BY <1>1, <1>2
<1> QED
  BY <1>1, <1>2, <1>3, <1>4, <1>5, <1>6, StartsAuditInv

(* Back to a page: its cursor is on the stack, at its number.              *)
LEMMA PageNumberInv ==
  ASSUME IInv, NEW t \in Tasks, NEW number \in Nat, loadAuditPageNumber(t, number) PROVE IInv'
<1>1. /\ pageIndex \in Nat /\ cursorStack \in Seq(Nat) /\ Len(cursorStack) = pageIndex
      /\ StackIsWalk /\ WalkSound
  BY DEF IInv, Typed, StackIsWalk
<1>2. CASE number = pageIndex + 2
  BY <1>2, NextInv DEF loadAuditPageNumber
<1>3. CASE number # pageIndex + 2
  <2> DEFINE c == cursorForPageIndex(number - 1)
             n == number - 1
             stack == SubSeq(cursorStack, 1, n)
  <2>1. StartsAudit(t, c, n, stack) /\ number \in 1..pageIndex
    BY <1>1, <1>3 DEF loadAuditPageNumber, knownPageCount
  <2>2. n \in Nat /\ n <= pageIndex /\ number = n + 1
    BY <1>1, <2>1
  <2>3. c = IF n = 0 THEN 0 ELSE cursorStack[n + 1]
    BY DEF cursorForPageIndex
  <2> HIDE DEF n, c
  <2>4. /\ stack \in Seq(Nat) /\ Len(stack) = n
        /\ \A i \in 1..n : stack[i] = cursorStack[i]
    <3>1. \A i \in 1..n : cursorStack[i] \in Nat
      BY <1>1, <2>2, ElementOfSeq
    <3> QED
      BY <1>1, <2>2, <3>1, SubSeqProperties
  <2> HIDE DEF stack
  <2>5. c \in Nat
    BY <1>1, <2>1, <2>2, <2>3, ElementOfSeq
  <2>6. c = 0 <=> n = 0
    BY <1>1, <2>1, <2>2, <2>3 DEF StackIsWalk
  <2>7. \A i \in 1..n : stack[i] = 0 <=> i = 1
    BY <1>1, <2>2, <2>4 DEF StackIsWalk
  <2>8. walked /\ c # 0 => c = n /\ \A i \in 1..n : stack[i] = i - 1
    BY <1>1, <2>1, <2>2, <2>3, <2>4 DEF WalkSound
  <2> QED
    BY <2>1, <2>2, <2>4, <2>5, <2>6, <2>7, <2>8, StartsAuditInv
<1> QED
  BY <1>2, <1>3

(* New filters: the first page, and no cursors.                            *)
LEMMA FiltersInv ==
  ASSUME IInv, NEW t \in Tasks, applyFilters(t) PROVE IInv'
<1> DEFINE none == <<>>
<1>1. StartsAudit(t, 0, 0, none)
  BY DEF applyFilters
<1>2. none \in Seq(Nat) /\ Len(none) = 0 /\ 0 \in Nat /\ \A i \in 1..0 : FALSE
  BY EmptySeq
<1> HIDE DEF none
<1> QED
  BY <1>1, <1>2, StartsAuditInv

(* Reload, and the dialog: no load starts yet.                             *)
LEMMA CallsInv ==
  ASSUME IInv, NEW t \in Tasks, reloadAll(t) \/ resetAuditLog(t) PROVE IInv'
<1>1. /\ Starts(t, "me", "reload", Nothing) \/ Starts(t, "post", "reset", Nothing)
      /\ UNCHANGED <<metricsRange, position, walked, charted>>
  BY DEF reloadAll, resetAuditLog
<1>2. /\ task' \in [Tasks -> Tasked] /\ (\A u \in Tasks : ToThePoint(task'[u])) /\ Alone(t)
      /\ task[t].at = "idle" /\ task'[t].at \in {"me", "post"}
      /\ UNCHANGED <<page, metrics, epoch, erased>>
  BY <1>1, StartsCall
<1>3. Typed'
  BY <1>1, <1>2 DEF IInv, Typed, position
<1>4. StackIsWalk' /\ WalkSound' /\ ChartSound'
  BY <1>1, <1>2, WalkFrame, ChartFrame
<1> QED
  BY <1>3, <1>4 DEF IInv

(* Another range: the chart loads, and the rows stay.                      *)
LEMMA RangeInv ==
  ASSUME IInv, NEW t \in Tasks, NEW range \in Ranges, SelectRange(t, range) PROVE IInv'
<1> DEFINE asked == [range |-> range]
<1>1. asked \in [range : Ranges] /\ asked.range = range
  OBVIOUS
<1>2. /\ loadMetrics(t) /\ Starts(t, "metrics", "range", asked)
      /\ metricsRange' = range /\ UNCHANGED <<position, walked>>
  BY DEF SelectRange
<1> HIDE DEF asked
<1>3. /\ task' \in [Tasks -> Tasked] /\ (\A u \in Tasks : ToThePoint(task'[u])) /\ Alone(t)
      /\ task[t].at = "idle" /\ task'[t].at = "metrics"
      /\ task'[t].request.asked = asked /\ task'[t].request.status = "asked"
      /\ UNCHANGED <<page, metrics, epoch, erased>>
  BY <1>1, <1>2, StartsCall
<1>4. Typed'
  BY <1>2, <1>3 DEF IInv, Typed, position
<1>5. StackIsWalk' /\ WalkSound'
  BY <1>2, <1>3, WalkFrame
<1>6. ChartSound'
  BY <1>1, <1>2, <1>3, LoadsChart
<1> QED
  BY <1>4, <1>5, <1>6 DEF IInv

(* Who the administrator is comes in: the options are next.                *)
LEMMA MeInv ==
  ASSUME IInv, NEW t \in Tasks, MeArrives(t) PROVE IInv'
<1>1. /\ task[t].at = "me" /\ Goes(t, "options", Nothing)
      /\ UNCHANGED <<metricsRange, position, page, metrics, erased, walked, charted, epoch>>
  BY DEF MeArrives, Arrived, browser, shown
<1>2. /\ task' \in [Tasks -> Tasked] /\ (\A u \in Tasks : ToThePoint(task'[u]))
      /\ task'[t].at = "options" /\ Alone(t)
  BY <1>1, GoesOn DEF IInv
<1>3. Typed'
  BY <1>1, <1>2 DEF IInv, Typed, position
<1>4. StackIsWalk' /\ WalkSound' /\ ChartSound'
  BY <1>1, <1>2, WalkFrame, ChartFrame
<1> QED
  BY <1>3, <1>4 DEF IInv

(* The options come in: the chart loads.                                   *)
LEMMA OptionsInv ==
  ASSUME IInv, NEW t \in Tasks, OptionsArrive(t) PROVE IInv'
<1> DEFINE asked == [range |-> metricsRange]
<1>1. asked \in [range : Ranges] /\ asked.range = metricsRange
  BY DEF IInv, Typed
<1>2. /\ task[t].at = "options" /\ loadMetrics(t) /\ Goes(t, "metrics", asked)
      /\ UNCHANGED <<metricsRange, position, page, metrics, erased, walked, epoch>>
  BY DEF OptionsArrive, Arrived, shown
<1> HIDE DEF asked
<1>3. /\ task' \in [Tasks -> Tasked] /\ (\A u \in Tasks : ToThePoint(task'[u]))
      /\ task'[t].at = "metrics" /\ task'[t].request.asked = asked
      /\ task'[t].request.status = "asked" /\ Alone(t)
  BY <1>1, <1>2, GoesOn DEF IInv
<1>4. Typed'
  BY <1>2, <1>3 DEF IInv, Typed, position
<1>5. StackIsWalk' /\ WalkSound'
  BY <1>2, <1>3, WalkFrame
<1>6. ChartSound'
  BY <1>1, <1>2, <1>3, LoadsChart
<1> QED
  BY <1>4, <1>5, <1>6 DEF IInv

(* The chart comes in: of the range that is marked, unless loads have met. *)
LEMMA MetricsInv ==
  ASSUME IInv, NEW t \in Tasks, MetricsArrive(t) PROVE IInv'
<1>1. /\ task[t].at = "metrics" /\ task[t].request.status = "ok"
      /\ metrics' = task[t].request.data
      /\ UNCHANGED <<metricsRange, page, epoch, erased, charted>>
  BY DEF MetricsArrive, Arrived
<1>2. metrics' \in Charts /\ metrics'.range = task[t].request.asked.range
  BY <1>1 DEF IInv, Typed, ToThePoint
<1>3. ASSUME Alone(t), task'[t].at # "metrics"
      PROVE  ChartSound'
  BY <1>1, <1>2, <1>3 DEF IInv, ChartSound, Alone
<1>4. CASE Reloading(t)
  <2> DEFINE asked == [cursor |-> 0]
             none == <<>>
  <2>1. asked \in [cursor : Nat] /\ asked.cursor = 0
    OBVIOUS
  <2>2. loadAudit(t, 0, 0, none) /\ Goes(t, "audit", asked)
    BY <1>4 DEF MetricsArrive
  <2> HIDE DEF asked
  <2>3. /\ task' \in [Tasks -> Tasked] /\ (\A u \in Tasks : ToThePoint(task'[u]))
        /\ task'[t].at = "audit" /\ task'[t].request.asked = asked
        /\ task'[t].request.status = "asked" /\ Alone(t)
    BY <2>1, <2>2, GoesOn DEF IInv
  <2>4. none \in Seq(Nat) /\ Len(none) = 0 /\ 0 \in Nat /\ \A i \in 1..0 : FALSE
    BY EmptySeq
  <2> HIDE DEF none
  <2>5. StackIsWalk' /\ WalkSound'
    BY <1>1, <2>1, <2>2, <2>3, <2>4, LoadsPage
  <2>6. Typed'
    BY <1>1, <1>2, <2>2, <2>3, <2>4 DEF IInv, Typed, loadAudit
  <2> QED
    BY <1>3, <2>3, <2>5, <2>6 DEF IInv
<1>5. CASE ~Reloading(t)
  <2>1. Ends(t) /\ UNCHANGED <<position, walked>>
    BY <1>5 DEF MetricsArrive
  <2>2. /\ task' \in [Tasks -> Tasked] /\ (\A u \in Tasks : ToThePoint(task'[u]))
        /\ task'[t].at = "done" /\ Alone(t)
    BY <2>1, EndsType DEF IInv
  <2>3. Typed'
    BY <1>1, <1>2, <2>1, <2>2 DEF IInv, Typed, position
  <2>4. StackIsWalk' /\ WalkSound'
    BY <1>1, <2>1, <2>2, WalkFrame
  <2> QED
    BY <1>3, <2>2, <2>3, <2>4 DEF IInv
<1> QED
  BY <1>4, <1>5

(* The rows come in: of the page in the heading, unless loads have met.    *)
LEMMA AuditInv ==
  ASSUME IInv, NEW t \in Tasks, AuditArrives(t) PROVE IInv'
<1>1. /\ task[t].at = "audit" /\ task[t].request.status = "ok"
      /\ page' = task[t].request.data /\ Ends(t)
      /\ UNCHANGED <<metricsRange, position, metrics, epoch, erased, walked, charted>>
  BY DEF AuditArrives, Arrived
<1>2. /\ page' \in Pages /\ page'.at = task[t].request.asked.cursor
      /\ page'.next \in {0, page'.at + 1}
  BY <1>1 DEF IInv, Typed, ToThePoint
<1>3. /\ task' \in [Tasks -> Tasked] /\ (\A u \in Tasks : ToThePoint(task'[u]))
      /\ task'[t].at = "done" /\ Alone(t)
  BY <1>1, EndsType DEF IInv
<1>4. Typed'
  BY <1>1, <1>2, <1>3 DEF IInv, Typed, position
<1>5. StackIsWalk'
  BY <1>1 DEF IInv, StackIsWalk, position
<1>6. WalkSound'
  BY <1>1, <1>2, <1>3 DEF IInv, WalkSound, Alone, position
<1>7. ChartSound'
  BY <1>1, <1>3, ChartFrame
<1> QED
  BY <1>4, <1>5, <1>6, <1>7 DEF IInv

(* The reset is done: all that is shown is now too old.                    *)
LEMMA ResetInv ==
  ASSUME IInv, NEW t \in Tasks, ResetArrives(t) PROVE IInv'
<1>1. /\ Goes(t, "me", Nothing) /\ erased' = epoch /\ walked' = FALSE /\ charted' = FALSE
      /\ UNCHANGED <<metricsRange, position, page, metrics, epoch>>
  BY DEF ResetArrives, shown
<1>2. /\ task' \in [Tasks -> Tasked] /\ (\A u \in Tasks : ToThePoint(task'[u]))
  BY <1>1, GoesOn DEF IInv
<1>3. Typed'
  BY <1>1, <1>2 DEF IInv, Typed, position
<1>4. StackIsWalk'
  BY <1>1 DEF IInv, StackIsWalk, position
<1> QED
  BY <1>1, <1>3, <1>4 DEF IInv, WalkSound, ChartSound

(* A load fails: what it would have shown no longer matches.               *)
LEMMA FailsInv ==
  ASSUME IInv, NEW t \in Tasks, LoadFails(t) PROVE IInv'
<1>1. /\ Ends(t) /\ UNCHANGED <<metricsRange, position, page, metrics, epoch, erased>>
      /\ walked' = (walked /\ task[t].at # "audit")
      /\ charted' = (charted /\ task[t].at # "metrics")
  BY DEF LoadFails, shown
<1>2. /\ task' \in [Tasks -> Tasked] /\ (\A u \in Tasks : ToThePoint(task'[u]))
      /\ task'[t].at = "done" /\ Alone(t)
  BY <1>1, EndsType DEF IInv
<1>3. Typed'
  BY <1>1, <1>2 DEF IInv, Typed, position
<1>4. StackIsWalk' /\ WalkSound'
  <2>1. CASE task[t].at = "audit"
    BY <1>1, <2>1 DEF IInv, StackIsWalk, WalkSound, position
  <2>2. CASE task[t].at # "audit"
    BY <1>1, <1>2, <2>2, WalkFrame
  <2> QED BY <2>1, <2>2
<1>5. ChartSound'
  <2>1. CASE task[t].at = "metrics"
    BY <1>1, <2>1 DEF ChartSound
  <2>2. CASE task[t].at # "metrics"
    BY <1>1, <1>2, <2>2, ChartFrame
  <2> QED BY <2>1, <2>2
<1> QED
  BY <1>3, <1>4, <1>5 DEF IInv

(* No step breaks the invariant.                                           *)
LEMMA NextStepInv == IInv /\ [Next]_vars => IInv'
<1> SUFFICES ASSUME IInv, [Next]_vars PROVE IInv'
  OBVIOUS
<1>1. CASE UNCHANGED vars
  <2>1. UNCHANGED <<metricsRange, cursor, pageIndex, cursorStack, page, metrics, task, epoch,
                    erased, walked, charted>>
    BY <1>1 DEF vars, position, shown
  <2> QED
    BY <2>1 DEF IInv, Typed, StackIsWalk, WalkSound, ChartSound, InFlight
<1>2. ASSUME NEW t \in Tasks, Serve(t) \/ RetryAuth(t)
      PROVE  IInv'
  BY <1>2, ServeInv, RetryInv
<1>3. ASSUME NEW t \in Tasks, Continue(t)
      PROVE  IInv'
  BY <1>3, MeInv, OptionsInv, MetricsInv, AuditInv, ResetInv, FailsInv DEF Continue
<1>4. ASSUME NEW t \in Tasks, Click(t)
      PROVE  IInv'
  <2>1. 1..MaxDepth + 1 \subseteq Nat
    BY DashboardAssumption
  <2>2. CASE \E n \in 1..MaxDepth + 1 : loadAuditPageNumber(t, n)
    BY <2>1, <2>2, PageNumberInv
  <2>3. CASE \E range \in Ranges : SelectRange(t, range)
    BY <2>3, RangeInv
  <2> QED
    BY <1>4, <2>2, <2>3, CallsInv, NextInv, FiltersInv DEF Click
<1> QED
  BY <1>1, <1>2, <1>3, <1>4 DEF Next

-----------------------------------------------------------------------------
(* The theorems.                                                           *)

(* The invariant holds.                                                    *)
THEOREM DashboardInvariant == Spec => []IInv
BY InitInv, NextStepInv, PTL DEF Spec

(* Whatever loads fail, overlap or answer late, the cursors kept for going *)
(* back are those of the pages before this one: loadNextAuditPage appends  *)
(* the cursor in use and loadAuditPageNumber cuts the stack at its page.   *)
THEOREM StackHolds == Spec => []StackIsWalk
<1>1. IInv => StackIsWalk
  BY DEF IInv
<1> QED
  BY <1>1, DashboardInvariant, PTL

(* Once the loads of the page have ended, and none failed or met another,  *)
(* the table and the chart are of the page and of the range that are       *)
(* marked, read after the last reset: loadAudit sets the position before   *)
(* its await and the rows after it.                                        *)
THEOREM RowsMatch == Spec => []RowsMatchPage
<1>1. IInv => RowsMatchPage
  BY DEF IInv, WalkSound, ChartSound, RowsMatchPage
<1> QED
  BY <1>1, DashboardInvariant, PTL

-----------------------------------------------------------------------------
(* The flags that disable the controls.                                    *)

(* A flag that is set has a call that will clear it: only a reset posts,   *)
(* one reset is under way at most, and a call that is over is none.        *)
Caused ==
  /\ \A t \in Tasks : task[t].at \in {"idle", "done"} => task[t].kind = "none"
  /\ \A t \in Tasks : task[t].at = "post" => task[t].kind = "reset"
  /\ auditLoading => InFlight("audit")
  /\ metricsLoading => InFlight("metrics")
  /\ loading => \E t \in Tasks : Reloading(t)
  /\ resetting <=> \E t \in Tasks : task[t].kind = "reset"
  /\ \A t, u \in Tasks : task[t].kind = "reset" /\ task[u].kind = "reset" => t = u

(* onMount reloads, or nothing is under way.                               *)
LEMMA CausedInit == Init => Caused
<1> SUFFICES ASSUME Init PROVE Caused OBVIOUS
<1>1. 1 \in Tasks BY DashboardAssumption DEF Tasks
<1>2. /\ At("me", "reload", Nothing).at = "me" /\ At("me", "reload", Nothing).kind = "reload"
      /\ Idle.at = "idle" /\ Idle.kind = "none"
  BY AtType DEF Idle
<1> HIDE DEF At, Idle
<1>3. ~auditLoading /\ ~metricsLoading /\ ~resetting
  BY DEF Init
<1>4. CASE loading
  <2>1. task = [t \in Tasks |-> IF t = 1 THEN At("me", "reload", Nothing) ELSE Idle]
    BY <1>4 DEF Init
  <2> QED
    BY <1>1, <1>2, <1>3, <2>1 DEF Caused, Reloading
<1>5. CASE ~loading
  <2>1. task = [t \in Tasks |-> Idle]
    BY <1>5 DEF Init
  <2> QED
    BY <1>2, <1>3, <1>5, <2>1 DEF Caused
<1> QED
  BY <1>4, <1>5

(* What becomes of a call that is given a new request.                     *)
LEMMA TaskBecomes ==
  ASSUME Typed, NEW t \in Tasks, NEW step, NEW kind, NEW asked,
         task' = [task EXCEPT ![t] = At(step, kind, asked)]
  PROVE  task'[t].at = step /\ task'[t].kind = kind /\ Alone(t)
<1> HIDE DEF At
<1>1. task'[t] = At(step, kind, asked) /\ Alone(t)
  BY DEF Typed, Alone
<1> QED
  BY <1>1, AtType

(* Goes keeps the kind of the call.                                        *)
LEMMA TaskGoes ==
  ASSUME Typed, NEW t \in Tasks, NEW step, NEW asked, Goes(t, step, asked)
  PROVE  task'[t].at = step /\ task'[t].kind = task[t].kind /\ Alone(t)
<1> DEFINE kind == task[t].kind
<1>1. task' = [task EXCEPT ![t] = At(step, kind, asked)]
  BY DEF Goes, Typed
<1> HIDE DEF kind
<1>2. task'[t].at = step /\ task'[t].kind = kind /\ Alone(t)
  BY <1>1, TaskBecomes
<1> QED
  BY <1>2 DEF kind

(* Ends.                                                                   *)
LEMMA TaskEnds ==
  ASSUME Typed, NEW t \in Tasks, Ends(t)
  PROVE  task'[t].at = "done" /\ task'[t].kind = "none" /\ Alone(t)
BY TaskBecomes DEF Ends, Done

(* A request that is answered, or asked again, is the same request.        *)
LEMMA TaskStays ==
  ASSUME Typed, NEW t \in Tasks, Serve(t) \/ RetryAuth(t)
  PROVE  task'[t].at = task[t].at /\ task'[t].kind = task[t].kind /\ Alone(t) /\ UNCHANGED flags
<1>1. task \in [Tasks -> Tasked] /\ task[t] \in Tasked
  BY DEF Typed
<1>2. \E r : task' = [task EXCEPT ![t].request = r]
  BY <1>1 DEF Serve, RetryAuth, Answer
<1> QED
  BY <1>1, <1>2 DEF Alone, Tasked, Serve, RetryAuth, browser

(* A handler sets its flag and begins a call.                              *)
LEMMA ClickCaused ==
  ASSUME Typed, Caused, NEW t \in Tasks, Click(t) PROVE Caused'
<1>1. ASSUME NEW step, NEW kind, NEW asked, Starts(t, step, kind, asked)
      PROVE  /\ task[t].at = "idle" /\ task[t].kind = "none" /\ task'[t].at = step
             /\ task'[t].kind = kind /\ Alone(t)
  <2>1. task[t].at = "idle" /\ task' = [task EXCEPT ![t] = At(step, kind, asked)]
    BY <1>1 DEF Starts
  <2>2. task[t].kind = "none"
    BY <2>1 DEF Caused
  <2> HIDE DEF At
  <2>3. task'[t].at = step /\ task'[t].kind = kind /\ Alone(t)
    BY <2>1, TaskBecomes
  <2> QED
    BY <2>1, <2>2, <2>3
<1>2. ASSUME NEW c, NEW n, NEW stack, StartsAudit(t, c, n, stack) PROVE Caused'
  <2>1. /\ task[t].at = "idle" /\ task[t].kind = "none"
        /\ task'[t].at = "audit" /\ task'[t].kind = "load" /\ Alone(t)
        /\ UNCHANGED <<loading, metricsLoading, resetting>>
    BY <1>1, <1>2 DEF StartsAudit
  <2> QED
    BY <2>1 DEF Caused, InFlight, Reloading, Alone
<1>3. CASE reloadAll(t)
  <2>1. /\ task[t].at = "idle" /\ task[t].kind = "none"
        /\ task'[t].at = "me" /\ task'[t].kind = "reload" /\ Alone(t)
        /\ UNCHANGED <<auditLoading, metricsLoading, resetting>>
    BY <1>1, <1>3 DEF reloadAll
  <2> QED
    BY <2>1 DEF Caused, InFlight, Reloading, Alone
<1>4. ASSUME NEW range \in Ranges, SelectRange(t, range) PROVE Caused'
  <2>1. /\ task[t].at = "idle" /\ task[t].kind = "none"
        /\ task'[t].at = "metrics" /\ task'[t].kind = "range" /\ Alone(t)
        /\ UNCHANGED <<loading, auditLoading, resetting>>
    BY <1>1, <1>4 DEF SelectRange
  <2> QED
    BY <2>1 DEF Caused, InFlight, Reloading, Alone
<1>5. CASE resetAuditLog(t)
  <2>1. /\ task[t].at = "idle" /\ task[t].kind = "none" /\ ~resetting /\ resetting'
        /\ task'[t].at = "post" /\ task'[t].kind = "reset" /\ Alone(t)
        /\ UNCHANGED <<loading, auditLoading, metricsLoading>>
    BY <1>1, <1>5 DEF resetAuditLog
  <2> QED
    BY <2>1 DEF Caused, InFlight, Reloading, Alone
<1> QED
  BY <1>2, <1>3, <1>4, <1>5 DEF Click, loadNextAuditPage, loadAuditPageNumber, applyFilters

(* An answer goes on to the next load, or ends the call in a finally block. *)
LEMMA ContinueCaused ==
  ASSUME Typed, Caused, NEW t \in Tasks, Continue(t) PROVE Caused'
<1>1. CASE MeArrives(t)
  <2>1. /\ task[t].at = "me" /\ task'[t].at = "options" /\ task'[t].kind = task[t].kind
        /\ Alone(t) /\ UNCHANGED <<loading, metricsLoading, auditLoading, resetting>>
    BY <1>1, TaskGoes DEF MeArrives, Arrived, browser, flags
  <2> QED
    BY <2>1 DEF Caused, InFlight, Reloading, Alone
<1>2. CASE OptionsArrive(t)
  <2>1. /\ task[t].at = "options" /\ task'[t].at = "metrics" /\ task'[t].kind = task[t].kind
        /\ Alone(t) /\ UNCHANGED <<loading, auditLoading, resetting>>
    BY <1>2, TaskGoes DEF OptionsArrive, Arrived
  <2>2. \A u \in Tasks : task'[u].kind = task[u].kind /\ (task[u].at # "options" => task'[u].at = task[u].at)
    BY <2>1 DEF Alone
  <2>3. (\E u \in Tasks : task[u].at = "audit") => \E u \in Tasks : task'[u].at = "audit"
    BY <2>2
  <2>4. \A u \in Tasks : task'[u].at \in {"idle", "done"} => task'[u].kind = "none"
    BY <2>1, <2>2 DEF Caused, Alone
  <2>5. \A u \in Tasks : task'[u].at = "post" => task'[u].kind = "reset"
    BY <2>1, <2>2 DEF Caused, Alone
  <2> QED
    BY <2>1, <2>2, <2>3, <2>4, <2>5 DEF Caused, InFlight, Reloading
<1>3. CASE MetricsArrive(t)
  <2>1. task[t].at = "metrics" /\ ~metricsLoading'
    BY <1>3 DEF MetricsArrive, Arrived
  <2>2. CASE Reloading(t)
    <3>1. /\ task'[t].at = "audit" /\ task'[t].kind = task[t].kind /\ Alone(t)
          /\ UNCHANGED <<loading, resetting>>
      BY <1>3, <2>2, TaskGoes DEF MetricsArrive
    <3> QED
      BY <2>1, <3>1 DEF Caused, InFlight, Reloading, Alone
  <2>3. CASE ~Reloading(t)
    <3>1. /\ task'[t].at = "done" /\ task'[t].kind = "none" /\ Alone(t)
          /\ UNCHANGED <<loading, auditLoading, resetting>>
      BY <1>3, <2>3, TaskEnds DEF MetricsArrive, Ends, Reloading
    <3> QED
      BY <2>1, <2>3, <3>1 DEF Caused, InFlight, Reloading, Alone
  <2> QED
    BY <2>2, <2>3
<1>4. ASSUME Ends(t), auditLoading' => auditLoading /\ task[t].at # "audit",
             metricsLoading' => metricsLoading /\ task[t].at # "metrics"
      PROVE  Caused'
  <2>1. /\ task'[t].at = "done" /\ task'[t].kind = "none" /\ Alone(t)
        /\ loading' = (IF Reloading(t) THEN FALSE ELSE loading)
        /\ resetting' = (IF task[t].kind = "reset" THEN FALSE ELSE resetting)
    BY <1>4, TaskEnds DEF Ends
  <2>2. \A u \in Tasks : task'[u].kind # "none" => u # t /\ task'[u] = task[u]
    BY <2>1 DEF Alone
  <2>3. auditLoading' => InFlight("audit")'
    BY <1>4, <2>1 DEF Caused, InFlight, Alone
  <2>4. metricsLoading' => InFlight("metrics")'
    BY <1>4, <2>1 DEF Caused, InFlight, Alone
  <2>5. loading' => \E u \in Tasks : Reloading(u)'
    BY <2>1 DEF Caused, Reloading, Alone
  <2>6. resetting' <=> \E u \in Tasks : task'[u].kind = "reset"
    <3>1. CASE task[t].kind = "reset"
      BY <2>1, <2>2, <3>1 DEF Caused
    <3>2. CASE task[t].kind # "reset"
      BY <2>1, <3>2 DEF Caused, Alone
    <3> QED
      BY <3>1, <3>2
  <2> QED
    BY <2>1, <2>2, <2>3, <2>4, <2>5, <2>6 DEF Caused, Alone
<1>5. CASE AuditArrives(t)
  BY <1>4, <1>5 DEF AuditArrives, Arrived
<1>6. CASE LoadFails(t)
  BY <1>4, <1>6 DEF LoadFails
<1>7. CASE ResetArrives(t)
  <2>1. /\ task[t].at = "post" /\ task'[t].at = "me" /\ task'[t].kind = task[t].kind
        /\ Alone(t) /\ UNCHANGED <<metricsLoading, auditLoading, resetting>>
    BY <1>7, TaskGoes DEF ResetArrives, Arrived
  <2>2. \A u \in Tasks : task'[u].kind = task[u].kind
    BY <2>1 DEF Alone
  <2>3. task[t].kind = "reset"
    BY <2>1 DEF Caused
  <2>4. (auditLoading => InFlight("audit"))' /\ (metricsLoading => InFlight("metrics"))'
    BY <2>1 DEF Caused, InFlight, Alone
  <2>5. \A u \in Tasks : task'[u].at \in {"idle", "done", "post"} => task'[u].at = task[u].at
    BY <2>1 DEF Alone
  <2> QED
    BY <2>1, <2>2, <2>3, <2>4, <2>5 DEF Caused, Reloading
<1> QED
  BY <1>1, <1>2, <1>3, <1>5, <1>6, <1>7 DEF Continue

(* A step that leaves the calls and the flags alone.                       *)
LEMMA CausedFrame ==
  ASSUME Caused, UNCHANGED flags,
         \A t \in Tasks : task'[t].at = task[t].at /\ task'[t].kind = task[t].kind
  PROVE  Caused'
<1>1. UNCHANGED <<loading, metricsLoading, auditLoading, resetting>>
  BY DEF flags
<1>2. \A step : InFlight(step)' <=> InFlight(step)
  BY DEF InFlight
<1>3. \A t \in Tasks : Reloading(t)' <=> Reloading(t)
  BY DEF Reloading
<1> QED
  BY <1>1, <1>2, <1>3 DEF Caused

(* Every step.                                                             *)
LEMMA CausedStep == Typed /\ Caused /\ [Next]_vars => Caused'
<1> SUFFICES ASSUME Typed, Caused, [Next]_vars PROVE Caused' OBVIOUS
<1>1. ASSUME NEW t \in Tasks, Serve(t) \/ RetryAuth(t) PROVE Caused'
  <2>1. \A u \in Tasks : task'[u].at = task[u].at /\ task'[u].kind = task[u].kind
    BY <1>1, TaskStays DEF Alone
  <2> QED
    BY <1>1, <2>1, TaskStays, CausedFrame
<1>2. CASE UNCHANGED vars
  BY <1>2, CausedFrame DEF vars
<1> QED
  BY <1>1, <1>2, ClickCaused, ContinueCaused DEF Next

(* Along every behaviour.                                                  *)
LEMMA CausedInductive == Spec => []Caused
<1>1. IInv => Typed
  BY DEF IInv
<1> QED
  BY <1>1, DashboardInvariant, CausedInit, CausedStep, PTL DEF Spec

(* A flag that disables controls is never up without a call whose finally  *)
(* block takes it down, whatever loads overlap; resetting is up for just   *)
(* the one call that resets; and no flag is up when every call is over.    *)
FlagsHaveCalls ==
  /\ auditLoading => \E t \in Tasks : task[t].at = "audit"
  /\ metricsLoading => \E t \in Tasks : task[t].at = "metrics"
  /\ loading => \E t \in Tasks : Reloading(t) /\ task[t].at \notin {"idle", "done"}
  /\ resetting <=> \E t \in Tasks : task[t].kind = "reset"
  /\ \A t, u \in Tasks : task[t].kind = "reset" /\ task[u].kind = "reset" => t = u
  /\ (\A t \in Tasks : task[t].at \in {"idle", "done"}) => Quiet

(* What remains of ControlsReturn without fairness: no control stays       *)
(* disabled once the calls are over, and two resets never run at once.     *)
THEOREM FlagsFall == Spec => []FlagsHaveCalls
<1>1. Caused => FlagsHaveCalls
  <2> SUFFICES ASSUME Caused PROVE FlagsHaveCalls OBVIOUS
  <2>1. loading => \E t \in Tasks : Reloading(t) /\ task[t].at \notin {"idle", "done"}
    BY DEF Caused, Reloading
  <2>2. (\A t \in Tasks : task[t].at \in {"idle", "done"}) => ~resetting
    BY DEF Caused
  <2> QED
    BY <2>1, <2>2 DEF Caused, FlagsHaveCalls, InFlight, Quiet
<1> QED
  BY <1>1, CausedInductive, PTL
=============================================================================
