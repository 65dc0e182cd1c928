------------------------------ MODULE Dashboard ------------------------------
(***************************************************************************)
(* The admin page (frontend/src/App.svelte, api.ts) and the answers of the *)
(* admin API behind it.  The page runs to completion between two awaits;   *)
(* several of its async functions may be waiting for an answer at a time,  *)
(* and answers come in any order, late, or not at all.                     *)
(*                                                                         *)
(* A cursor is the number of pages that were walked to get to it: 0 is the *)
(* empty cursor of the first page.  Rows are told apart by their page and  *)
(* by how often the trail had been reset when they were read; the filter   *)
(* fields only choose among them, and are left out.                        *)
(***************************************************************************)
EXTENDS Naturals, Sequences

CONSTANTS MaxTasks,       \* a bound on the calls of async functions
          Ranges,         \* time ranges of the chart
          DefaultRange,
          MaxDepth        \* a bound on the cursor of the last page

VARIABLES metricsRange, cursor, pageIndex, cursorStack, page, metrics,
          loading, metricsLoading, auditLoading, resetting,
          task,           \* task[t]: where t is, and its request
          epoch,          \* how often the trail was reset
          erased,         \* history: the last reset that the page knows to be done
          walked,         \* history: since the first page, no load failed or met another
          charted         \* history: the last load of metrics did not fail or meet another

position == <<cursor, pageIndex, cursorStack>>
flags == <<loading, metricsLoading, auditLoading, resetting>>
shown == <<page, metrics>>
vars == <<metricsRange, position, flags, shown, task, epoch, erased, walked, charted>>

ASSUME DashboardAssumption ==
  /\ MaxTasks \in Nat \ {0}
  /\ DefaultRange \in Ranges /\ MaxDepth \in Nat

\* The calls, in the order in which they start.
Tasks == 1..MaxTasks

transientAuthRetries == 2

Nothing == [what |-> "nothing"]
Request(asked) == [asked |-> asked, status |-> "asked", data |-> Nothing, attempt |-> 0]
At(step, kind, asked) == [at |-> step, kind |-> kind, request |-> Request(asked)]

Idle == At("idle", "none", Nothing)
Done == At("done", "none", Nothing)

\* A page has a cursor to the next one, or is the last.
Page(asked) ==
  {[at |-> asked.cursor, next |-> n, epoch |-> epoch] :
     n \in {0} \cup ({asked.cursor + 1} \cap 1..MaxDepth)}

\* onMount calls reloadAll; or all that is over, and the last page was walked to.
Init ==
  /\ metricsRange = DefaultRange /\ metrics = [range |-> DefaultRange, epoch |-> 0]
  /\ metricsLoading = FALSE /\ auditLoading = FALSE /\ resetting = FALSE
  /\ epoch = 0 /\ erased = 0
  /\ \/ /\ cursor = 0 /\ page = [at |-> 0, next |-> 0, epoch |-> 0]
        /\ loading = TRUE /\ walked = FALSE /\ charted = FALSE
        /\ task = [t \in Tasks |-> IF t = 1 THEN At("me", "reload", Nothing) ELSE Idle]
     \/ /\ cursor = MaxDepth /\ page = [at |-> cursor, next |-> 0, epoch |-> 0]
        /\ loading = FALSE /\ walked = TRUE /\ charted = TRUE
        /\ task = [t \in Tasks |-> Idle]
  /\ pageIndex = cursor /\ cursorStack = [i \in 1..cursor |-> i - 1]

-----------------------------------------------------------------------------
(* The admin API.                                                          *)

Data(t) ==
  CASE task[t].at = "audit" -> Page(task[t].request.asked)
    [] task[t].at = "metrics" -> {[range |-> task[t].request.asked.range, epoch |-> epoch]}
    [] OTHER -> {Nothing}

Answer(t, status, data) ==
  task' = [task EXCEPT ![t].request = [@ EXCEPT !.status = status, !.data = data, !.attempt = 0]]

browser == <<metricsRange, position, flags, shown, erased, walked, charted>>

Reloading(t) == task[t].kind \in {"reload", "reset"}

\* required, and the handler: 200, or an error, before or after it has done its work.
Serve(t) ==
  /\ task[t].at \notin {"idle", "done"} /\ task[t].request.status = "asked"
  /\ \/ \E d \in Data(t) : Answer(t, "ok", d)
     \/ Answer(t, "failed", Nothing)
  /\ epoch' \in IF task[t].at # "post" THEN {epoch}
                ELSE IF task'[t].request.status = "ok" THEN {epoch + 1}
                ELSE {epoch, epoch + 1}
  /\ UNCHANGED browser

-----------------------------------------------------------------------------
(* The page: beginnings of loads.                                          *)

Goes(t, step, asked) == task' = [task EXCEPT ![t] = At(step, @.kind, asked)]

Meets(t, step) == \E u \in Tasks \ {t} : task[u].at = step

\* loadAudit, until its await.
loadAudit(t, nextCursor, nextPageIndex, nextCursorStack) ==
  /\ auditLoading' = TRUE
  /\ cursor' = nextCursor /\ pageIndex' = nextPageIndex /\ cursorStack' = nextCursorStack
  /\ walked' = (~Meets(t, "audit") /\ (nextCursor = 0 \/ walked))

\* loadMetrics, until its await.
loadMetrics(t) == metricsLoading' = TRUE /\ charted' = ~Meets(t, "metrics")

\* A handler calls an async function: the next task begins.
Starts(t, step, kind, asked) ==
  /\ task[t].at = "idle" /\ \A u \in Tasks : u < t => task[u].at # "idle"
  /\ task' = [task EXCEPT ![t] = At(step, kind, asked)]
  /\ UNCHANGED <<shown, epoch, erased>>

StartsAudit(t, c, n, stack) ==
  /\ ~auditLoading
  /\ loadAudit(t, c, n, stack) /\ Starts(t, "audit", "load", [cursor |-> c])
  /\ UNCHANGED <<metricsRange, loading, metricsLoading, resetting, charted>>

reloadAll(t) ==
  /\ ~loading /\ ~auditLoading
  /\ loading' = TRUE /\ Starts(t, "me", "reload", Nothing)
  /\ UNCHANGED <<metricsRange, position, metricsLoading, auditLoading, resetting,
                 walked, charted>>

\* variant
NextKeepsStack(t) ==
  /\ page.next # 0
  /\ StartsAudit(t, page.next, pageIndex + 1, cursorStack)

loadNextAuditPage(t) ==
  /\ page.next # 0
  /\ StartsAudit(t, page.next, pageIndex + 1, Append(cursorStack, cursor))

knownPageCount == pageIndex + 1 + (IF page.next # 0 THEN 1 ELSE 0)

\* Of an earlier page.
cursorForPageIndex(index) == IF index = 0 THEN 0 ELSE cursorStack[index + 1]

\* Also loadPreviousAuditPage, with the number of the page before.
loadAuditPageNumber(t, number) ==
  /\ number \in 1..knownPageCount /\ number # pageIndex + 1
  /\ IF number = pageIndex + 2
     THEN loadNextAuditPage(t)
     ELSE StartsAudit(t, cursorForPageIndex(number - 1), number - 1, SubSeq(cursorStack, 1, number - 1))

\* Also the button Clear filters, and changePageSize.
applyFilters(t) == StartsAudit(t, 0, 0, <<>>)

\* variant
LoadsThenSelects(t, range) ==
  /\ ~metricsLoading /\ metricsRange' = range
  /\ loadMetrics(t) /\ Starts(t, "metrics", "range", [range |-> metricsRange])
  /\ UNCHANGED <<position, loading, auditLoading, resetting, walked>>

SelectRange(t, range) ==
  /\ ~metricsLoading /\ metricsRange' = range
  /\ loadMetrics(t) /\ Starts(t, "metrics", "range", [range |-> range])
  /\ UNCHANGED <<position, loading, auditLoading, resetting, walked>>

\* The dialog can be opened and confirmed whatever else is going on.
resetAuditLog(t) ==
  /\ ~resetting /\ resetting' = TRUE
  /\ Starts(t, "post", "reset", Nothing)
  /\ UNCHANGED <<metricsRange, position, loading, metricsLoading, auditLoading,
                 walked, charted>>

-----------------------------------------------------------------------------
(* The page: what follows an await.                                        *)

Arrived(t, step, status) == task[t].at = step /\ task[t].request.status = status

\* The finally blocks of reloadAll and of resetAuditLog.
Ends(t) ==
  /\ task' = [task EXCEPT ![t] = Done]
  /\ loading' = (IF Reloading(t) THEN FALSE ELSE loading)
  /\ resetting' = (IF task[t].kind = "reset" THEN FALSE ELSE resetting)

MeArrives(t) ==
  /\ Arrived(t, "me", "ok") /\ Goes(t, "options", Nothing)
  /\ UNCHANGED <<browser, epoch>>

OptionsArrive(t) ==
  /\ Arrived(t, "options", "ok") /\ loadMetrics(t)
  /\ Goes(t, "metrics", [range |-> metricsRange])
  /\ UNCHANGED <<metricsRange, position, loading, auditLoading, resetting, shown, epoch,
                 erased, walked>>

MetricsArrive(t) ==
  /\ Arrived(t, "metrics", "ok")
  /\ metrics' = task[t].request.data /\ metricsLoading' = FALSE
  /\ UNCHANGED <<metricsRange, page, epoch, erased, charted>>
  /\ IF Reloading(t)
     THEN /\ loadAudit(t, 0, 0, <<>>) /\ Goes(t, "audit", [cursor |-> 0])
          /\ UNCHANGED <<loading, resetting>>
     ELSE Ends(t) /\ UNCHANGED <<position, auditLoading, walked>>

AuditArrives(t) ==
  /\ Arrived(t, "audit", "ok")
  /\ page' = task[t].request.data /\ auditLoading' = FALSE /\ Ends(t)
  /\ UNCHANGED <<metricsRange, position, metrics, metricsLoading, epoch, erased, walked,
                 charted>>

\* resetFilters and reloadAll follow.
ResetArrives(t) ==
  /\ Arrived(t, "post", "ok")
  /\ loading' = TRUE /\ Goes(t, "me", Nothing)
  /\ erased' = epoch /\ walked' = FALSE /\ charted' = FALSE
  /\ UNCHANGED <<metricsRange, position, metricsLoading, auditLoading, resetting, shown, epoch>>

\* apiGetWithAuthRecovery: after 401 or 403 it sleeps, and asks again for the same.
RetryAuth(t) ==
  /\ task[t].request.status = "asked" /\ Reloading(t) /\ task[t].at # "post"
  /\ task[t].request.attempt < transientAuthRetries
  /\ task' = [task EXCEPT ![t].request.attempt = @ + 1]
  /\ UNCHANGED <<browser, epoch>>

\* variant
FailsWithoutFinally(t) ==
  /\ task[t].request.status = "failed"
  /\ Ends(t)
  /\ UNCHANGED <<auditLoading, metricsLoading>>
  /\ walked' = (walked /\ task[t].at # "audit") /\ charted' = (charted /\ task[t].at # "metrics")
  /\ UNCHANGED <<metricsRange, position, shown, epoch, erased>>

\* An error passes through every finally block on its way out.
LoadFails(t) ==
  /\ task[t].request.status = "failed"
  /\ Ends(t)
  /\ auditLoading' = (IF task[t].at = "audit" THEN FALSE ELSE auditLoading)
  /\ metricsLoading' = (IF task[t].at = "metrics" THEN FALSE ELSE metricsLoading)
  /\ walked' = (walked /\ task[t].at # "audit") /\ charted' = (charted /\ task[t].at # "metrics")
  /\ UNCHANGED <<metricsRange, position, shown, epoch, erased>>

Continue(t) ==
  \/ MeArrives(t) \/ OptionsArrive(t) \/ MetricsArrive(t) \/ AuditArrives(t) \/ ResetArrives(t)
  \/ LoadFails(t)

Click(t) ==
  \/ reloadAll(t) \/ loadNextAuditPage(t) \/ \E n \in 1..MaxDepth + 1 : loadAuditPageNumber(t, n)
  \/ applyFilters(t)
  \/ \E range \in Ranges : SelectRange(t, range)
  \/ resetAuditLog(t)

Next == \E t \in Tasks : Serve(t) \/ RetryAuth(t) \/ Continue(t) \/ Click(t)

Spec == Init /\ [][Next]_vars

\* The server or the network answers every request, and the browser goes on with
\* the answer.  Nothing is assumed of the user.
FairSpec == Spec /\ \A t \in Tasks : WF_vars(Serve(t)) /\ WF_vars(Continue(t))

-----------------------------------------------------------------------------
(* Properties.                                                             *)

InFlight(step) == \E t \in Tasks : task[t].at = step

\* The cursors kept for going back are those of the pages before this one, whatever
\* loads fail, overlap, or answer late: there are as many as the page number says,
\* only the first is the empty cursor, and the cursor in use is empty on page 1 only.
StackIsWalk ==
  /\ Len(cursorStack) = pageIndex /\ (cursor = 0 <=> pageIndex = 0)
  /\ \A i \in 1..pageIndex : cursorStack[i] = 0 <=> i = 1

\* When nothing is loading, the table has the rows of the page number above it, read
\* after the last reset the page knows of, and the chart has the range that is marked,
\* unless a load failed or met another: then they may belong to another.
RowsMatchPage ==
  /\ walked /\ ~InFlight("audit") =>
       /\ page.at = cursor /\ cursor = pageIndex
       /\ page.epoch >= erased
       /\ \A i \in 1..pageIndex : cursorStack[i] = i - 1
  /\ charted /\ ~InFlight("metrics") => metrics.range = metricsRange /\ metrics.epoch >= erased

Quiet == ~loading /\ ~metricsLoading /\ ~auditLoading /\ ~resetting

\* No control stays disabled for ever, and no spinner turns for ever: whatever was
\* started ends, failed or not, however it overlaps with the rest.
ControlsReturn == ~Quiet ~> Quiet
=============================================================================
