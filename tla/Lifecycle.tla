------------------------------ MODULE Lifecycle ------------------------------
(***************************************************************************)
(* The life of the process (cmd/turnstile-appcheck-gateway/main.go): it    *)
(* loads the configuration, opens and migrates the audit database, prunes  *)
(* it, starts the recorder and the pruner, builds the router, serves, and  *)
(* is shut down by a signal, an error, or a crash; then it may be started  *)
(* again on the database it left.  The recorder is seen from outside: what *)
(* it accepted is queued until the worker, or the call itself, writes it.  *)
(***************************************************************************)
EXTENDS Config, Sequences, FiniteSets

CONSTANTS Requests,   \* requests that are audited, each served once
          Environments, \* the environments that the process is started in
          OldRows,    \* rows that the database may hold when the story begins
          Startup,    \* the event "system.startup"
          MaxStarts   \* a bound on the number of starts

VARIABLES env,      \* the environment, until it is loaded
          cfg,      \* the part of the configuration that main acts on
          phase,    \* how far the process has come
          created,  \* how many schema statements have run
          exit,     \* how run returned: "ok", or what failed
          starts,   \* how often the process was started
          objects,  \* the database: its tables and groups of indexes
          legacy,   \* audit_events is of the earlier schema
          rows,     \* row[i]: whether the database has row i, and of what age
          store,    \* the pool of connections: "closed" or "open"
          request,  \* request[r]: how far r has come
          queue,    \* what the recorder has accepted and not written
          pruner,   \* the goroutine of runAuditPruner
          accepted, \* history: events the recorder accepted in this process
          settled   \* history: rows written in the current schema, until they expire

process == <<env, cfg, created, exit, starts>>
database == <<objects, legacy, rows>>
vars == <<process, phase, database, store, request, queue, pruner, accepted, settled>>

Ids == OldRows \cup Requests \cup {Startup}

\* The schema statements in order; MySQL creates the indexes with their table.
Schema == <<"events", "event_indexes", "rollups", "rollup_indexes">>
SchemaObjects == {Schema[i] : i \in 1..Len(Schema)}

Migrating == {"inspect", "inspect_seq", "drop_legacy", "drop_v2", "create"}
Accepting == {"listening", "serving"}
Running == Migrating \cup Accepting
             \cup {"load", "open", "startup_prune", "recorder", "build", "stopping", "closing", "returned"}

ASSUME LifecycleAssumption ==
  /\ IsFiniteSet(Ids) /\ Startup \notin OldRows \cup Requests /\ OldRows \cap Requests = {}
  /\ Environments \subseteq [Variables -> [word : STRING, number : Int]]
  /\ MaxStarts \in Nat \ {0}

NoEnvironment == [v \in Variables |-> Blank]
Rejected == [accepted |-> FALSE, audit |-> FALSE, async |-> FALSE, named |-> FALSE,
             prunes |-> FALSE, retains |-> FALSE]

\* The database is new, or left by this version, complete or not, or by an earlier one.
Init ==
  /\ env \in Environments /\ cfg = Rejected
  /\ phase = "load" /\ created = 0 /\ exit = "none" /\ starts = 1
  /\ \/ objects = {} /\ legacy = FALSE /\ rows = [i \in Ids |-> "none"]
     \/ /\ objects \in {{"events"}, SchemaObjects} /\ legacy = FALSE
        /\ rows \in [Ids -> {"none", "fresh", "expired"}]
        /\ \A i \in Ids \ OldRows : rows[i] = "none"
     \/ /\ objects \in {{"events"}, {"events", "event_indexes", "v2"}} /\ legacy = TRUE
        /\ rows = [i \in Ids |-> IF i \in OldRows THEN "fresh" ELSE "none"]
  /\ store = "closed" /\ request = [r \in Requests |-> "idle"]
  /\ queue = {} /\ pruner = "off" /\ accepted = {}
  /\ settled = IF legacy THEN {} ELSE {i \in Ids : rows[i] = "fresh"}

-----------------------------------------------------------------------------
(* Ends of the process.                                                    *)

\* run returns: its deferred call closes the store, and the goroutines go on
\* until main has called os.Exit or returned.
Return(how) ==
  /\ phase' = "returned" /\ exit' = how /\ store' = "closed"

\* Everything in memory is gone.
Die ==
  /\ phase' = "down" /\ created' = 0 /\ store' = "closed"
  /\ queue' = {} /\ pruner' = "off" /\ accepted' = {}
  /\ request' = [r \in Requests |-> IF request[r] = "running" THEN "done" ELSE request[r]]
  /\ UNCHANGED <<env, cfg, starts, database, settled>>

Exit == phase = "returned" /\ Die /\ UNCHANGED exit

\* A crash, a kill, or a signal that comes before signal.Notify.
Crash == phase \in Running \ {"returned"} /\ Die /\ exit' = "crash"

\* The environment is the same as before, and Load depends on nothing else.
Restart ==
  /\ phase = "down" /\ cfg.accepted /\ starts < MaxStarts
  /\ phase' = IF cfg.audit THEN "open" ELSE "build"
  /\ starts' = starts + 1 /\ exit' = "none"
  /\ UNCHANGED <<env, cfg, created, database, store, request, queue, pruner, accepted, settled>>

memory == <<request, queue, pruner, accepted>>

\* A step fails, and run returns with its error.
Fails(step, how) ==
  /\ phase = step /\ Return(how)
  /\ UNCHANGED <<env, cfg, created, starts, database, memory, settled>>

-----------------------------------------------------------------------------
(* Start.                                                                  *)

Load ==
  /\ phase = "load" /\ env' = NoEnvironment
  /\ \/ /\ Accepts(env)
        /\ cfg' = [accepted |-> TRUE, audit |-> Enabled(env, "AUDIT_ENABLED"),
                   async |-> Enabled(env, "AUDIT_ASYNC_ENABLED"), named |-> StoreNamed(env),
                   prunes |-> Value(env, "AUDIT_PRUNE_INTERVAL").number > 0,
                   retains |-> Value(env, "AUDIT_RETENTION_DAYS").number > 0]
        /\ phase' = IF cfg'.audit THEN "open" ELSE "build"
        /\ UNCHANGED <<exit, store>>
     \/ ~Accepts(env) /\ Return("load") /\ UNCHANGED cfg
  /\ UNCHANGED <<created, starts, database, memory, settled>>

\* sql.Open needs no connection, but a DSN where the storage has one.
OpenStore ==
  /\ phase = "open" /\ cfg.named
  /\ phase' = "inspect" /\ store' = "open"
  /\ UNCHANGED <<process, database, memory, settled>>

InspectTable ==
  /\ phase = "inspect"
  /\ phase' = IF "events" \in objects THEN "inspect_seq" ELSE "drop_v2"
  /\ UNCHANGED <<process, database, store, memory, settled>>

\* variant
InspectAnything ==
  /\ phase = "inspect_seq"
  /\ phase' = "drop_legacy"
  /\ UNCHANGED <<process, database, store, memory, settled>>

\* variant
InspectAndTrust ==
  /\ phase = "inspect_seq"
  /\ phase' = IF legacy THEN "drop_legacy" ELSE "startup_prune"
  /\ UNCHANGED <<process, database, store, memory, settled>>

InspectSeq ==
  /\ phase = "inspect_seq"
  /\ phase' = IF legacy THEN "drop_legacy" ELSE "drop_v2"
  /\ UNCHANGED <<process, database, store, memory, settled>>

\* The indexes and the rows go with the table.
DropLegacy ==
  /\ phase = "drop_legacy"
  /\ objects' = objects \ {"events", "event_indexes"} /\ legacy' = FALSE
  /\ rows' = [i \in Ids |-> "none"]
  /\ phase' = "drop_v2"
  /\ UNCHANGED <<process, store, memory, settled>>

DropV2 ==
  /\ phase = "drop_v2"
  /\ objects' = objects \ {"v2"}
  /\ phase' = "create"
  /\ UNCHANGED <<process, legacy, rows, store, memory, settled>>

\* CREATE ... IF NOT EXISTS, one statement at a time.
CreateNext ==
  /\ phase = "create"
  /\ objects' = objects \cup {Schema[created + 1]}
  /\ created' = created + 1
  /\ phase' = IF created' = Len(Schema) THEN "startup_prune" ELSE phase
  /\ UNCHANGED <<env, cfg, exit, starts, legacy, rows, store, memory, settled>>

\* PruneRetention: expired rows are deleted if there is a retention.
Prune == rows' = [i \in Ids |-> IF cfg.retains /\ rows[i] = "expired" THEN "none" ELSE rows[i]]

StartupPrune ==
  /\ phase = "startup_prune"
  /\ Prune /\ phase' = "recorder"
  /\ UNCHANGED <<process, objects, legacy, store, memory, settled>>

\* The events of E are written: a transaction of the worker or of a call.
Write(E) ==
  /\ rows' = [i \in Ids |-> IF i \in E THEN "fresh" ELSE rows[i]]
  /\ settled' = settled \cup E

\* Record: the asynchronous recorder accepts or drops, the synchronous one writes
\* or fails, and without audit there is none.
Recorded(e) ==
  \/ cfg.audit /\ cfg.async /\ queue' = queue \cup {e} /\ accepted' = accepted \cup {e}
       /\ UNCHANGED <<rows, settled>>
  \/ cfg.audit /\ ~cfg.async /\ store = "open" /\ Write({e}) /\ accepted' = accepted \cup {e}
       /\ UNCHANGED queue
  \/ UNCHANGED <<rows, settled, queue, accepted>>

StartRecorder ==
  /\ phase = "recorder"
  /\ pruner' = IF cfg.prunes THEN "waiting" ELSE "off"
  /\ Recorded(Startup) /\ phase' = "build"
  /\ UNCHANGED <<process, objects, legacy, store, request>>

\* The upstream clients and the router are built, and the server is started.
Build ==
  /\ phase = "build" /\ phase' = "listening"
  /\ UNCHANGED <<process, database, store, memory, settled>>

StartFails ==
  \/ Fails("open", "open") \/ \E p \in Migrating : Fails(p, "open")
  \/ (cfg.retains /\ Fails("startup_prune", "prune")) \/ Fails("build", "build")
  \/ Fails("listening", "listen") \/ Fails("serving", "listen")

Notify ==
  /\ phase = "listening" /\ phase' = "serving"
  /\ UNCHANGED <<process, database, store, memory, settled>>

-----------------------------------------------------------------------------
(* While it serves.                                                        *)

Accept(r) ==
  /\ phase \in Accepting /\ request[r] = "idle"
  /\ request' = [request EXCEPT ![r] = "running"]
  /\ UNCHANGED <<process, phase, database, store, queue, pruner, accepted, settled>>

Finish(r) ==
  /\ phase \in Running /\ request[r] = "running"
  /\ request' = [request EXCEPT ![r] = "done"]
  /\ Recorded(r)
  /\ UNCHANGED <<process, phase, objects, legacy, store, pruner>>

WorkerWrites ==
  /\ phase \in Running /\ store = "open"
  /\ \E E \in SUBSET queue \ {{}} : queue' = queue \ E /\ Write(E)
  /\ UNCHANGED <<process, phase, objects, legacy, store, request, pruner, accepted>>

\* A row grows older than the retention.
Age(i) ==
  /\ rows[i] = "fresh" /\ ~legacy
  /\ rows' = [rows EXCEPT ![i] = "expired"] /\ settled' = settled \ {i}
  /\ UNCHANGED <<process, phase, objects, legacy, store, memory>>

PrunerTick ==
  /\ phase \in Running /\ pruner = "waiting" /\ pruner' = "pruning"
  /\ UNCHANGED <<process, phase, database, store, request, queue, accepted, settled>>

Pruned ==
  /\ phase \in Running /\ pruner = "pruning" /\ store = "open"
  /\ Prune /\ pruner' = "waiting"
  /\ UNCHANGED <<process, phase, objects, legacy, store, request, queue, accepted, settled>>

\* variant
PrunerGivesUp ==
  /\ phase \in Running /\ pruner = "pruning"
  /\ pruner' = "off"
  /\ UNCHANGED <<process, phase, database, store, request, queue, accepted, settled>>

\* An error is logged, and the loop goes on.
PruneFails ==
  /\ phase \in Running /\ pruner = "pruning"
  /\ pruner' = "waiting"
  /\ UNCHANGED <<process, phase, database, store, request, queue, accepted, settled>>

-----------------------------------------------------------------------------
(* Shutdown.                                                               *)

\* Shutdown begins: the listener is closed and running requests go on.
Signal ==
  /\ phase = "serving" /\ phase' = "stopping"
  /\ UNCHANGED <<process, database, store, memory, settled>>

\* variant
ServerClosed ==
  /\ phase = "stopping"
  /\ phase' = "closing" /\ pruner' \in {pruner, "off"}
  /\ UNCHANGED <<process, database, store, request, queue, accepted, settled>>

\* Every request is done; the pruner is told to stop, and not waited for.
ShutdownDone ==
  /\ phase = "stopping" /\ \A r \in Requests : request[r] # "running"
  /\ phase' = "closing" /\ pruner' \in {pruner, "off"}
  /\ UNCHANGED <<process, database, store, request, queue, accepted, settled>>

\* variant
ShutdownWaits == ShutdownDone

\* Some request takes longer than ten seconds.
ShutdownTimesOut ==
  /\ \E r \in Requests : request[r] = "running"
  /\ Fails("stopping", "shutdown")

\* Close of the recorder: nil when all it had accepted is written.
CloseDone ==
  /\ phase = "closing" /\ queue = {} /\ Return("ok")
  /\ UNCHANGED <<env, cfg, created, starts, database, memory, settled>>

\* The last flush fails, or AUDIT_SHUTDOWN_FLUSH_TIMEOUT ends.
CloseFails == queue # {} /\ Fails("closing", "flush")

Next ==
  \/ Load \/ OpenStore \/ InspectTable \/ InspectSeq \/ DropLegacy \/ DropV2 \/ CreateNext
  \/ StartupPrune \/ StartRecorder \/ Build \/ StartFails \/ Notify
  \/ \E r \in Requests : Accept(r) \/ Finish(r)
  \/ \E i \in Ids : Age(i)
  \/ WorkerWrites \/ PrunerTick \/ Pruned \/ PruneFails
  \/ Signal \/ ShutdownDone \/ ShutdownTimesOut \/ CloseDone \/ CloseFails
  \/ Exit \/ Crash \/ Restart

Spec == Init /\ [][Next]_vars

\* The deadlines of Shutdown and Close fire, an exit is carried out, the ticker
\* ticks, and a prune that is tried for ever succeeds in the end.
Fairness ==
  /\ WF_vars(ShutdownDone \/ ShutdownTimesOut)
  /\ WF_vars(CloseDone \/ CloseFails) /\ WF_vars(Exit)
  /\ WF_vars(PrunerTick) /\ WF_vars(Pruned \/ PruneFails) /\ SF_vars(Pruned)

FairSpec == Spec /\ Fairness

-----------------------------------------------------------------------------
(* Properties.                                                             *)

\* Every variable keeps its type.
TypeOK ==
  /\ DOMAIN env = Variables
  /\ cfg \in [accepted : BOOLEAN, audit : BOOLEAN, async : BOOLEAN, named : BOOLEAN,
              prunes : BOOLEAN, retains : BOOLEAN]
  /\ phase \in Running \cup {"down"} /\ created \in 0..Len(Schema) /\ starts \in 1..MaxStarts
  /\ exit \in {"none", "ok", "load", "open", "prune", "build", "listen", "shutdown", "flush", "crash"}
  /\ objects \subseteq SchemaObjects \cup {"v2"} /\ legacy \in BOOLEAN
  /\ rows \in [Ids -> {"none", "fresh", "expired"}] /\ store \in {"open", "closed"}
  /\ request \in [Requests -> {"idle", "running", "done"}]
  /\ queue \subseteq accepted /\ accepted \subseteq Ids /\ settled \subseteq Ids
  /\ pruner \in {"off", "waiting", "pruning"}

\* An accepted environment gives every component the values that it relies on.
LoadedIsSound == phase = "load" /\ Accepts(env) => Sound(env)

\* No request is served on a database whose schema is incomplete or of the earlier
\* version, whichever statement an earlier process crashed or failed at.
ServesOnSchema ==
  cfg.audit /\ phase \in Accepting => SchemaObjects \subseteq objects /\ ~legacy

\* A row that was written in the current schema stays until it expires: neither a
\* crash at any point, nor the migration of the next start, nor a prune removes it.
RowsSurvive == \A i \in settled : rows[i] # "none"

\* A process that ends with exit code 0 has served every request it accepted to
\* the end, and every event that the recorder accepted is in the database, or was
\* until it expired.
CleanExit ==
  phase = "returned" /\ exit = "ok" =>
    /\ \A r \in Requests : request[r] # "running"
    /\ queue = {}

\* A process that has been told to stop ends, whatever its requests and the
\* database do.
SignalEndsProcess == phase = "stopping" ~> phase = "down"

\* While the process serves with a retention and a pruner, an expired row does not
\* stay for ever, although single prunes may fail.
RetentionEnforced ==
  \A i \in Ids :
    (rows[i] = "expired" /\ phase = "serving" /\ cfg.audit /\ cfg.retains /\ cfg.prunes)
      ~> (rows[i] # "expired" \/ phase # "serving")

\* README.md: "Shutdown drains the queue with AUDIT_SHUTDOWN_FLUSH_TIMEOUT".  A
\* process that was told to stop leaves nothing in the queue, unless that timeout,
\* or the last flush, is what ended it.
ShutdownDrains == phase = "returned" /\ exit \in {"ok", "shutdown"} => queue = {}
=============================================================================
