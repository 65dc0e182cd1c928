--------------------------- MODULE LifecycleProofs ---------------------------
(* What the runs of Lifecycle check, for every set of requests and environments, *)
(* and any number of starts.                                                     *)
EXTENDS Lifecycle, TLAPS

NoneRunning == \A r \in Requests : request[r] # "running"

(* Before the server listens, and after Shutdown, no request is running; before *)
(* the recorder is made, nothing is queued; before the first schema statement,  *)
(* none is counted.                                                             *)
Stages ==
  /\ phase \in {"load", "open", "startup_prune", "recorder", "build", "closing", "down"} \cup Migrating
       => NoneRunning
  /\ phase \in {"load", "open", "startup_prune", "recorder", "down"} \cup Migrating => queue = {}
  /\ phase \in {"load", "open", "down"} \cup (Migrating \ {"create"}) => created = 0

(* How far the migration has come, statement by statement.                      *)
Migrated ==
  /\ phase = "drop_legacy" => legacy
  /\ phase \in {"drop_v2", "create", "startup_prune", "recorder"} => ~legacy
  /\ phase = "create" => created < 4 /\ \A i \in 1..created : Schema[i] \in objects
  /\ phase \in {"startup_prune", "recorder"} => SchemaObjects \subseteq objects
  /\ cfg.audit /\ phase \in {"build"} \cup Accepting => SchemaObjects \subseteq objects /\ ~legacy

(* On a database of the earlier schema nothing is written before it is dropped. *)
LegacyUntouched ==
  legacy => /\ settled = {} /\ queue = {} /\ "events" \in objects
            /\ cfg.audit => NoneRunning

SettledFresh == \A i \in settled : rows[i] = "fresh"

IInv == TypeOK /\ Stages /\ Migrated /\ LegacyUntouched /\ SettledFresh /\ CleanExit

(* The four schema statements.                                                  *)
LEMMA FourStatements ==
  /\ Len(Schema) = 4
  /\ SchemaObjects = {Schema[1], Schema[2], Schema[3], Schema[4]}
<1>1. Len(Schema) = 4
  BY DEF Schema
<1> QED
  BY <1>1 DEF SchemaObjects

(* Every process begins with IInv.                                              *)
LEMMA InitIInv == Init => IInv
<1> SUFFICES ASSUME Init PROVE IInv
  OBVIOUS
<1> USE LifecycleAssumption DEF Init, Ids
<1>1. TypeOK
  <2>1. DOMAIN env = Variables
    OBVIOUS
  <2>2. objects \subseteq SchemaObjects \cup {"v2"}
    BY FourStatements DEF Schema
  <2>3. rows \in [Ids -> {"none", "fresh", "expired"}] /\ settled \subseteq Ids
    OBVIOUS
  <2>4. created \in 0..Len(Schema) /\ starts \in 1..MaxStarts
    BY FourStatements
  <2> QED
    BY <2>1, <2>2, <2>3, <2>4 DEF TypeOK, Rejected, Running, Migrating, Accepting
<1>2. Stages /\ Migrated /\ LegacyUntouched /\ CleanExit
  BY DEF Stages, Migrated, LegacyUntouched, CleanExit, NoneRunning, Migrating, Accepting, Rejected
<1>3. SettledFresh
  BY DEF SettledFresh
<1> QED
  BY <1>1, <1>2, <1>3 DEF IInv

(* The stages of a process come in order. *)
LEMMA StagesStep == IInv /\ [Next]_vars => Stages'
<1> SUFFICES ASSUME IInv, [Next]_vars PROVE Stages'
  OBVIOUS
<1> USE LifecycleAssumption DEF IInv, Ids
<1>1. CASE Load
  BY <1>1 DEF Load, Return, memory, database, Stages, NoneRunning, Migrating, Accepting
<1>2. CASE OpenStore
  BY <1>2 DEF OpenStore, process, database, memory, Stages, NoneRunning, Migrating, Accepting
<1>3. CASE InspectTable
  BY <1>3 DEF InspectTable, process, database, memory, Stages, NoneRunning, Migrating, Accepting
<1>4. CASE InspectSeq
  BY <1>4 DEF InspectSeq, process, database, memory, Stages, NoneRunning, Migrating, Accepting
<1>5. CASE DropLegacy
  BY <1>5 DEF DropLegacy, process, memory, Stages, NoneRunning, Migrating, Accepting
<1>6. CASE DropV2
  BY <1>6 DEF DropV2, process, memory, Stages, NoneRunning, Migrating, Accepting
<1>7. CASE CreateNext
  BY <1>7 DEF CreateNext, memory, Stages, NoneRunning, Migrating, Accepting
<1>8. CASE StartupPrune
  BY <1>8 DEF StartupPrune, process, memory, Prune, Stages, NoneRunning, Migrating, Accepting
<1>9. CASE StartRecorder
  BY <1>9 DEF StartRecorder, process, Recorded, Write, Stages, NoneRunning, Migrating, Accepting
<1>10. CASE Build
  BY <1>10 DEF Build, process, database, memory, Stages, NoneRunning, Migrating, Accepting
<1>11. CASE StartFails
  BY <1>11 DEF StartFails, Fails, Return, database, memory, Stages, NoneRunning, Migrating, Accepting
<1>12. CASE Notify
  BY <1>12 DEF Notify, process, database, memory, Stages, NoneRunning, Migrating, Accepting
<1>13. CASE \E r \in Requests : Accept(r)
  BY <1>13 DEF Accept, process, database, Stages, NoneRunning, Migrating, Accepting
<1>14. CASE \E r \in Requests : Finish(r)
  BY <1>14 DEF Finish, process, Recorded, Write, Stages, NoneRunning, Migrating, Accepting
<1>15. CASE \E i \in Ids : Age(i)
  BY <1>15 DEF Age, process, memory, Stages, NoneRunning, Migrating, Accepting
<1>16. CASE WorkerWrites
  BY <1>16 DEF WorkerWrites, process, Write, Stages, NoneRunning, Migrating, Accepting
<1>17. CASE PrunerTick
  BY <1>17 DEF PrunerTick, process, database, Stages, NoneRunning, Migrating, Accepting
<1>18. CASE Pruned
  BY <1>18 DEF Pruned, process, Prune, Stages, NoneRunning, Migrating, Accepting
<1>19. CASE PruneFails
  BY <1>19 DEF PruneFails, process, database, Stages, NoneRunning, Migrating, Accepting
<1>20. CASE Signal
  BY <1>20 DEF Signal, process, database, memory, Stages, NoneRunning, Migrating, Accepting
<1>21. CASE ShutdownDone
  BY <1>21 DEF ShutdownDone, process, database, Stages, NoneRunning, Migrating, Accepting
<1>22. CASE ShutdownTimesOut
  BY <1>22 DEF ShutdownTimesOut, Fails, Return, database, memory, Stages, NoneRunning, Migrating, Accepting
<1>23. CASE CloseDone
  BY <1>23 DEF CloseDone, Return, database, memory, Stages, NoneRunning, Migrating, Accepting
<1>24. CASE CloseFails
  BY <1>24 DEF CloseFails, Fails, Return, database, memory, Stages, NoneRunning, Migrating, Accepting
<1>25. CASE Exit
  BY <1>25 DEF Exit, Die, database, Stages, NoneRunning, Migrating, Accepting
<1>26. CASE Crash
  BY <1>26 DEF Crash, Die, database, Stages, NoneRunning, Migrating, Accepting
<1>27. CASE Restart
  BY <1>27 DEF Restart, database, Stages, NoneRunning, Migrating, Accepting
<1>28. CASE UNCHANGED vars
  BY <1>28 DEF vars, process, database, Stages, NoneRunning, Migrating, Accepting
<1> QED
  BY <1>1, <1>2, <1>3, <1>4, <1>5, <1>6, <1>7, <1>8, <1>9, <1>10, <1>11, <1>12, <1>13, <1>14, <1>15, <1>16, <1>17, <1>18, <1>19, <1>20, <1>21, <1>22, <1>23, <1>24, <1>25, <1>26, <1>27, <1>28 DEF Next

(* The migration goes on where it stands, and what follows it changes no table. *)
LEMMA MigratedStep == IInv /\ [Next]_vars => Migrated'
<1> SUFFICES ASSUME IInv, [Next]_vars PROVE Migrated'
  OBVIOUS
<1> USE LifecycleAssumption DEF IInv, Ids
<1>a. /\ Len(Schema) = 4
      /\ SchemaObjects = {Schema[1], Schema[2], Schema[3], Schema[4]}
      /\ \A i, j \in 1..4 : Schema[i] = Schema[j] => i = j
      /\ \A i \in 1..4 : Schema[i] # "v2"
  BY FourStatements DEF Schema
<1>1. CASE Load
  BY <1>a, <1>1 DEF Load, Return, memory, database, Stages, LegacyUntouched, TypeOK, Migrated, Migrating, Accepting
<1>2. CASE OpenStore
  BY <1>a, <1>2 DEF OpenStore, process, database, memory, Stages, LegacyUntouched, TypeOK, Migrated, Migrating, Accepting
<1>3. CASE InspectTable
  BY <1>a, <1>3 DEF InspectTable, process, database, memory, Stages, LegacyUntouched, TypeOK, Migrated, Migrating, Accepting
<1>4. CASE InspectSeq
  BY <1>a, <1>4 DEF InspectSeq, process, database, memory, Stages, LegacyUntouched, TypeOK, Migrated, Migrating, Accepting
<1>5. CASE DropLegacy
  BY <1>a, <1>5 DEF DropLegacy, process, memory, Stages, LegacyUntouched, TypeOK, Migrated, Migrating, Accepting
<1>6. CASE DropV2
  BY <1>a, <1>6 DEF DropV2, process, memory, Stages, LegacyUntouched, TypeOK, Migrated, Migrating, Accepting
<1>7. CASE CreateNext
  BY <1>a, <1>7 DEF CreateNext, memory, Stages, LegacyUntouched, TypeOK, Migrated, Migrating, Accepting
<1>8. CASE StartupPrune
  BY <1>a, <1>8 DEF StartupPrune, process, memory, Prune, Stages, LegacyUntouched, TypeOK, Migrated, Migrating, Accepting
<1>9. CASE StartRecorder
  BY <1>a, <1>9 DEF StartRecorder, process, Recorded, Write, Stages, LegacyUntouched, TypeOK, Migrated, Migrating, Accepting
<1>10. CASE Build
  BY <1>a, <1>10 DEF Build, process, database, memory, Stages, LegacyUntouched, TypeOK, Migrated, Migrating, Accepting
<1>11. CASE StartFails
  BY <1>a, <1>11 DEF StartFails, Fails, Return, database, memory, Stages, LegacyUntouched, TypeOK, Migrated, Migrating, Accepting
<1>12. CASE Notify
  BY <1>a, <1>12 DEF Notify, process, database, memory, Stages, LegacyUntouched, TypeOK, Migrated, Migrating, Accepting
<1>13. CASE \E r \in Requests : Accept(r)
  BY <1>a, <1>13 DEF Accept, process, database, Stages, LegacyUntouched, TypeOK, Migrated, Migrating, Accepting
<1>14. CASE \E r \in Requests : Finish(r)
  BY <1>a, <1>14 DEF Finish, process, Recorded, Write, Stages, LegacyUntouched, TypeOK, Migrated, Migrating, Accepting
<1>15. CASE \E i \in Ids : Age(i)
  BY <1>a, <1>15 DEF Age, process, memory, Stages, LegacyUntouched, TypeOK, Migrated, Migrating, Accepting
<1>16. CASE WorkerWrites
  BY <1>a, <1>16 DEF WorkerWrites, process, Write, Stages, LegacyUntouched, TypeOK, Migrated, Migrating, Accepting
<1>17. CASE PrunerTick
  BY <1>a, <1>17 DEF PrunerTick, process, database, Stages, LegacyUntouched, TypeOK, Migrated, Migrating, Accepting
<1>18. CASE Pruned
  BY <1>a, <1>18 DEF Pruned, process, Prune, Stages, LegacyUntouched, TypeOK, Migrated, Migrating, Accepting
<1>19. CASE PruneFails
  BY <1>a, <1>19 DEF PruneFails, process, database, Stages, LegacyUntouched, TypeOK, Migrated, Migrating, Accepting
<1>20. CASE Signal
  BY <1>a, <1>20 DEF Signal, process, database, memory, Stages, LegacyUntouched, TypeOK, Migrated, Migrating, Accepting
<1>21. CASE ShutdownDone
  BY <1>a, <1>21 DEF ShutdownDone, process, database, Stages, LegacyUntouched, TypeOK, Migrated, Migrating, Accepting
<1>22. CASE ShutdownTimesOut
  BY <1>a, <1>22 DEF ShutdownTimesOut, Fails, Return, database, memory, Stages, LegacyUntouched, TypeOK, Migrated, Migrating, Accepting
<1>23. CASE CloseDone
  BY <1>a, <1>23 DEF CloseDone, Return, database, memory, Stages, LegacyUntouched, TypeOK, Migrated, Migrating, Accepting
<1>24. CASE CloseFails
  BY <1>a, <1>24 DEF CloseFails, Fails, Return, database, memory, Stages, LegacyUntouched, TypeOK, Migrated, Migrating, Accepting
<1>25. CASE Exit
  BY <1>a, <1>25 DEF Exit, Die, database, Stages, LegacyUntouched, TypeOK, Migrated, Migrating, Accepting
<1>26. CASE Crash
  BY <1>a, <1>26 DEF Crash, Die, database, Stages, LegacyUntouched, TypeOK, Migrated, Migrating, Accepting
<1>27. CASE Restart
  BY <1>a, <1>27 DEF Restart, database, Stages, LegacyUntouched, TypeOK, Migrated, Migrating, Accepting
<1>28. CASE UNCHANGED vars
  BY <1>a, <1>28 DEF vars, process, database, Stages, LegacyUntouched, TypeOK, Migrated, Migrating, Accepting
<1> QED
  BY <1>1, <1>2, <1>3, <1>4, <1>5, <1>6, <1>7, <1>8, <1>9, <1>10, <1>11, <1>12, <1>13, <1>14, <1>15, <1>16, <1>17, <1>18, <1>19, <1>20, <1>21, <1>22, <1>23, <1>24, <1>25, <1>26, <1>27, <1>28 DEF Next

(* Nothing is written to a table of the earlier schema. *)
LEMMA LegacyStep == IInv /\ [Next]_vars => LegacyUntouched'
<1> SUFFICES ASSUME IInv, [Next]_vars PROVE LegacyUntouched'
  OBVIOUS
<1> USE LifecycleAssumption DEF IInv, Ids
<1>a. Schema[1] = "events" /\ SchemaObjects = {"events", "event_indexes", "rollups", "rollup_indexes"}
  BY FourStatements DEF Schema
<1>1. CASE Load
  BY <1>a, <1>1 DEF Load, Return, memory, database, LegacyUntouched, Stages, Migrated, TypeOK, NoneRunning, Migrating, Accepting, Running
<1>2. CASE OpenStore
  BY <1>a, <1>2 DEF OpenStore, process, database, memory, LegacyUntouched, Stages, Migrated, TypeOK, NoneRunning, Migrating, Accepting, Running
<1>3. CASE InspectTable
  BY <1>a, <1>3 DEF InspectTable, process, database, memory, LegacyUntouched, Stages, Migrated, TypeOK, NoneRunning, Migrating, Accepting, Running
<1>4. CASE InspectSeq
  BY <1>a, <1>4 DEF InspectSeq, process, database, memory, LegacyUntouched, Stages, Migrated, TypeOK, NoneRunning, Migrating, Accepting, Running
<1>5. CASE DropLegacy
  BY <1>a, <1>5 DEF DropLegacy, process, memory, LegacyUntouched, Stages, Migrated, TypeOK, NoneRunning, Migrating, Accepting, Running
<1>6. CASE DropV2
  BY <1>a, <1>6 DEF DropV2, process, memory, LegacyUntouched, Stages, Migrated, TypeOK, NoneRunning, Migrating, Accepting, Running
<1>7. CASE CreateNext
  BY <1>a, <1>7 DEF CreateNext, memory, LegacyUntouched, Stages, Migrated, TypeOK, NoneRunning, Migrating, Accepting, Running
<1>8. CASE StartupPrune
  BY <1>a, <1>8 DEF StartupPrune, process, memory, Prune, LegacyUntouched, Stages, Migrated, TypeOK, NoneRunning, Migrating, Accepting, Running
<1>9. CASE StartRecorder
  BY <1>a, <1>9 DEF StartRecorder, process, Recorded, Write, LegacyUntouched, Stages, Migrated, TypeOK, NoneRunning, Migrating, Accepting, Running
<1>10. CASE Build
  BY <1>a, <1>10 DEF Build, process, database, memory, LegacyUntouched, Stages, Migrated, TypeOK, NoneRunning, Migrating, Accepting, Running
<1>11. CASE StartFails
  BY <1>a, <1>11 DEF StartFails, Fails, Return, database, memory, LegacyUntouched, Stages, Migrated, TypeOK, NoneRunning, Migrating, Accepting, Running
<1>12. CASE Notify
  BY <1>a, <1>12 DEF Notify, process, database, memory, LegacyUntouched, Stages, Migrated, TypeOK, NoneRunning, Migrating, Accepting, Running
<1>13. CASE \E r \in Requests : Accept(r)
  BY <1>a, <1>13 DEF Accept, process, database, LegacyUntouched, Stages, Migrated, TypeOK, NoneRunning, Migrating, Accepting, Running
<1>14. CASE \E r \in Requests : Finish(r)
  BY <1>a, <1>14 DEF Finish, process, Recorded, Write, LegacyUntouched, Stages, Migrated, TypeOK, NoneRunning, Migrating, Accepting, Running
<1>15. CASE \E i \in Ids : Age(i)
  BY <1>a, <1>15 DEF Age, process, memory, LegacyUntouched, Stages, Migrated, TypeOK, NoneRunning, Migrating, Accepting, Running
<1>16. CASE WorkerWrites
  BY <1>a, <1>16 DEF WorkerWrites, process, Write, LegacyUntouched, Stages, Migrated, TypeOK, NoneRunning, Migrating, Accepting, Running
<1>17. CASE PrunerTick
  BY <1>a, <1>17 DEF PrunerTick, process, database, LegacyUntouched, Stages, Migrated, TypeOK, NoneRunning, Migrating, Accepting, Running
<1>18. CASE Pruned
  BY <1>a, <1>18 DEF Pruned, process, Prune, LegacyUntouched, Stages, Migrated, TypeOK, NoneRunning, Migrating, Accepting, Running
<1>19. CASE PruneFails
  BY <1>a, <1>19 DEF PruneFails, process, database, LegacyUntouched, Stages, Migrated, TypeOK, NoneRunning, Migrating, Accepting, Running
<1>20. CASE Signal
  BY <1>a, <1>20 DEF Signal, process, database, memory, LegacyUntouched, Stages, Migrated, TypeOK, NoneRunning, Migrating, Accepting, Running
<1>21. CASE ShutdownDone
  BY <1>a, <1>21 DEF ShutdownDone, process, database, LegacyUntouched, Stages, Migrated, TypeOK, NoneRunning, Migrating, Accepting, Running
<1>22. CASE ShutdownTimesOut
  BY <1>a, <1>22 DEF ShutdownTimesOut, Fails, Return, database, memory, LegacyUntouched, Stages, Migrated, TypeOK, NoneRunning, Migrating, Accepting, Running
<1>23. CASE CloseDone
  BY <1>a, <1>23 DEF CloseDone, Return, database, memory, LegacyUntouched, Stages, Migrated, TypeOK, NoneRunning, Migrating, Accepting, Running
<1>24. CASE CloseFails
  BY <1>a, <1>24 DEF CloseFails, Fails, Return, database, memory, LegacyUntouched, Stages, Migrated, TypeOK, NoneRunning, Migrating, Accepting, Running
<1>25. CASE Exit
  BY <1>a, <1>25 DEF Exit, Die, database, LegacyUntouched, Stages, Migrated, TypeOK, NoneRunning, Migrating, Accepting, Running
<1>26. CASE Crash
  BY <1>a, <1>26 DEF Crash, Die, database, LegacyUntouched, Stages, Migrated, TypeOK, NoneRunning, Migrating, Accepting, Running
<1>27. CASE Restart
  BY <1>a, <1>27 DEF Restart, database, LegacyUntouched, Stages, Migrated, TypeOK, NoneRunning, Migrating, Accepting, Running
<1>28. CASE UNCHANGED vars
  BY <1>a, <1>28 DEF vars, process, database, LegacyUntouched, Stages, Migrated, TypeOK, NoneRunning, Migrating, Accepting, Running
<1> QED
  BY <1>1, <1>2, <1>3, <1>4, <1>5, <1>6, <1>7, <1>8, <1>9, <1>10, <1>11, <1>12, <1>13, <1>14, <1>15, <1>16, <1>17, <1>18, <1>19, <1>20, <1>21, <1>22, <1>23, <1>24, <1>25, <1>26, <1>27, <1>28 DEF Next

(* What is written is fresh, and what expires is settled no more. *)
LEMMA SettledStep == IInv /\ [Next]_vars => SettledFresh'
<1> SUFFICES ASSUME IInv, [Next]_vars PROVE SettledFresh'
  OBVIOUS
<1> USE LifecycleAssumption DEF IInv, Ids
<1>1. CASE Load
  BY <1>1 DEF Load, Return, memory, database, SettledFresh, LegacyUntouched, Migrated, TypeOK
<1>2. CASE OpenStore
  BY <1>2 DEF OpenStore, process, database, memory, SettledFresh, LegacyUntouched, Migrated, TypeOK
<1>3. CASE InspectTable
  BY <1>3 DEF InspectTable, process, database, memory, SettledFresh, LegacyUntouched, Migrated, TypeOK
<1>4. CASE InspectSeq
  BY <1>4 DEF InspectSeq, process, database, memory, SettledFresh, LegacyUntouched, Migrated, TypeOK
<1>5. CASE DropLegacy
  BY <1>5 DEF DropLegacy, process, memory, SettledFresh, LegacyUntouched, Migrated, TypeOK
<1>6. CASE DropV2
  BY <1>6 DEF DropV2, process, memory, SettledFresh, LegacyUntouched, Migrated, TypeOK
<1>7. CASE CreateNext
  BY <1>7 DEF CreateNext, memory, SettledFresh, LegacyUntouched, Migrated, TypeOK
<1>8. CASE StartupPrune
  BY <1>8 DEF StartupPrune, process, memory, Prune, SettledFresh, LegacyUntouched, Migrated, TypeOK
<1>9. CASE StartRecorder
  BY <1>9 DEF StartRecorder, process, Recorded, Write, SettledFresh, LegacyUntouched, Migrated, TypeOK
<1>10. CASE Build
  BY <1>10 DEF Build, process, database, memory, SettledFresh, LegacyUntouched, Migrated, TypeOK
<1>11. CASE StartFails
  BY <1>11 DEF StartFails, Fails, Return, database, memory, SettledFresh, LegacyUntouched, Migrated, TypeOK
<1>12. CASE Notify
  BY <1>12 DEF Notify, process, database, memory, SettledFresh, LegacyUntouched, Migrated, TypeOK
<1>13. CASE \E r \in Requests : Accept(r)
  BY <1>13 DEF Accept, process, database, SettledFresh, LegacyUntouched, Migrated, TypeOK
<1>14. CASE \E r \in Requests : Finish(r)
  BY <1>14 DEF Finish, process, Recorded, Write, SettledFresh, LegacyUntouched, Migrated, TypeOK
<1>15. CASE \E i \in Ids : Age(i)
  BY <1>15 DEF Age, process, memory, SettledFresh, LegacyUntouched, Migrated, TypeOK
<1>16. CASE WorkerWrites
  BY <1>16 DEF WorkerWrites, process, Write, SettledFresh, LegacyUntouched, Migrated, TypeOK
<1>17. CASE PrunerTick
  BY <1>17 DEF PrunerTick, process, database, SettledFresh, LegacyUntouched, Migrated, TypeOK
<1>18. CASE Pruned
  BY <1>18 DEF Pruned, process, Prune, SettledFresh, LegacyUntouched, Migrated, TypeOK
<1>19. CASE PruneFails
  BY <1>19 DEF PruneFails, process, database, SettledFresh, LegacyUntouched, Migrated, TypeOK
<1>20. CASE Signal
  BY <1>20 DEF Signal, process, database, memory, SettledFresh, LegacyUntouched, Migrated, TypeOK
<1>21. CASE ShutdownDone
  BY <1>21 DEF ShutdownDone, process, database, SettledFresh, LegacyUntouched, Migrated, TypeOK
<1>22. CASE ShutdownTimesOut
  BY <1>22 DEF ShutdownTimesOut, Fails, Return, database, memory, SettledFresh, LegacyUntouched, Migrated, TypeOK
<1>23. CASE CloseDone
  BY <1>23 DEF CloseDone, Return, database, memory, SettledFresh, LegacyUntouched, Migrated, TypeOK
<1>24. CASE CloseFails
  BY <1>24 DEF CloseFails, Fails, Return, database, memory, SettledFresh, LegacyUntouched, Migrated, TypeOK
<1>25. CASE Exit
  BY <1>25 DEF Exit, Die, database, SettledFresh, LegacyUntouched, Migrated, TypeOK
<1>26. CASE Crash
  BY <1>26 DEF Crash, Die, database, SettledFresh, LegacyUntouched, Migrated, TypeOK
<1>27. CASE Restart
  BY <1>27 DEF Restart, database, SettledFresh, LegacyUntouched, Migrated, TypeOK
<1>28. CASE UNCHANGED vars
  BY <1>28 DEF vars, process, database, SettledFresh, LegacyUntouched, Migrated, TypeOK
<1> QED
  BY <1>1, <1>2, <1>3, <1>4, <1>5, <1>6, <1>7, <1>8, <1>9, <1>10, <1>11, <1>12, <1>13, <1>14, <1>15, <1>16, <1>17, <1>18, <1>19, <1>20, <1>21, <1>22, <1>23, <1>24, <1>25, <1>26, <1>27, <1>28 DEF Next

(* Run returns without an error from a closed server and a drained recorder. *)
LEMMA CleanExitStep == IInv /\ [Next]_vars => CleanExit'
<1> SUFFICES ASSUME IInv, [Next]_vars PROVE CleanExit'
  OBVIOUS
<1> USE LifecycleAssumption DEF IInv, Ids
<1>1. CASE Load
  BY <1>1 DEF Load, Return, memory, database, CleanExit, Stages, NoneRunning, Accepting, Running, Migrating, TypeOK
<1>2. CASE OpenStore
  BY <1>2 DEF OpenStore, process, database, memory, CleanExit, Stages, NoneRunning, Accepting, Running, Migrating, TypeOK
<1>3. CASE InspectTable
  BY <1>3 DEF InspectTable, process, database, memory, CleanExit, Stages, NoneRunning, Accepting, Running, Migrating, TypeOK
<1>4. CASE InspectSeq
  BY <1>4 DEF InspectSeq, process, database, memory, CleanExit, Stages, NoneRunning, Accepting, Running, Migrating, TypeOK
<1>5. CASE DropLegacy
  BY <1>5 DEF DropLegacy, process, memory, CleanExit, Stages, NoneRunning, Accepting, Running, Migrating, TypeOK
<1>6. CASE DropV2
  BY <1>6 DEF DropV2, process, memory, CleanExit, Stages, NoneRunning, Accepting, Running, Migrating, TypeOK
<1>7. CASE CreateNext
  BY <1>7 DEF CreateNext, memory, CleanExit, Stages, NoneRunning, Accepting, Running, Migrating, TypeOK
<1>8. CASE StartupPrune
  BY <1>8 DEF StartupPrune, process, memory, Prune, CleanExit, Stages, NoneRunning, Accepting, Running, Migrating, TypeOK
<1>9. CASE StartRecorder
  BY <1>9 DEF StartRecorder, process, Recorded, Write, CleanExit, Stages, NoneRunning, Accepting, Running, Migrating, TypeOK
<1>10. CASE Build
  BY <1>10 DEF Build, process, database, memory, CleanExit, Stages, NoneRunning, Accepting, Running, Migrating, TypeOK
<1>11. CASE StartFails
  BY <1>11 DEF StartFails, Fails, Return, database, memory, CleanExit, Stages, NoneRunning, Accepting, Running, Migrating, TypeOK
<1>12. CASE Notify
  BY <1>12 DEF Notify, process, database, memory, CleanExit, Stages, NoneRunning, Accepting, Running, Migrating, TypeOK
<1>13. CASE \E r \in Requests : Accept(r)
  BY <1>13 DEF Accept, process, database, CleanExit, Stages, NoneRunning, Accepting, Running, Migrating, TypeOK
<1>14. CASE \E r \in Requests : Finish(r)
  BY <1>14 DEF Finish, process, Recorded, Write, CleanExit, Stages, NoneRunning, Accepting, Running, Migrating, TypeOK
<1>15. CASE \E i \in Ids : Age(i)
  BY <1>15 DEF Age, process, memory, CleanExit, Stages, NoneRunning, Accepting, Running, Migrating, TypeOK
<1>16. CASE WorkerWrites
  BY <1>16 DEF WorkerWrites, process, Write, CleanExit, Stages, NoneRunning, Accepting, Running, Migrating, TypeOK
<1>17. CASE PrunerTick
  BY <1>17 DEF PrunerTick, process, database, CleanExit, Stages, NoneRunning, Accepting, Running, Migrating, TypeOK
<1>18. CASE Pruned
  BY <1>18 DEF Pruned, process, Prune, CleanExit, Stages, NoneRunning, Accepting, Running, Migrating, TypeOK
<1>19. CASE PruneFails
  BY <1>19 DEF PruneFails, process, database, CleanExit, Stages, NoneRunning, Accepting, Running, Migrating, TypeOK
<1>20. CASE Signal
  BY <1>20 DEF Signal, process, database, memory, CleanExit, Stages, NoneRunning, Accepting, Running, Migrating, TypeOK
<1>21. CASE ShutdownDone
  BY <1>21 DEF ShutdownDone, process, database, CleanExit, Stages, NoneRunning, Accepting, Running, Migrating, TypeOK
<1>22. CASE ShutdownTimesOut
  BY <1>22 DEF ShutdownTimesOut, Fails, Return, database, memory, CleanExit, Stages, NoneRunning, Accepting, Running, Migrating, TypeOK
<1>23. CASE CloseDone
  BY <1>23 DEF CloseDone, Return, database, memory, CleanExit, Stages, NoneRunning, Accepting, Running, Migrating, TypeOK
<1>24. CASE CloseFails
  BY <1>24 DEF CloseFails, Fails, Return, database, memory, CleanExit, Stages, NoneRunning, Accepting, Running, Migrating, TypeOK
<1>25. CASE Exit
  BY <1>25 DEF Exit, Die, database, CleanExit, Stages, NoneRunning, Accepting, Running, Migrating, TypeOK
<1>26. CASE Crash
  BY <1>26 DEF Crash, Die, database, CleanExit, Stages, NoneRunning, Accepting, Running, Migrating, TypeOK
<1>27. CASE Restart
  BY <1>27 DEF Restart, database, CleanExit, Stages, NoneRunning, Accepting, Running, Migrating, TypeOK
<1>28. CASE UNCHANGED vars
  BY <1>28 DEF vars, process, database, CleanExit, Stages, NoneRunning, Accepting, Running, Migrating, TypeOK
<1> QED
  BY <1>1, <1>2, <1>3, <1>4, <1>5, <1>6, <1>7, <1>8, <1>9, <1>10, <1>11, <1>12, <1>13, <1>14, <1>15, <1>16, <1>17, <1>18, <1>19, <1>20, <1>21, <1>22, <1>23, <1>24, <1>25, <1>26, <1>27, <1>28 DEF Next

(* Every variable keeps its type. *)
LEMMA TypeOKStep == IInv /\ [Next]_vars => TypeOK'
<1> SUFFICES ASSUME IInv, [Next]_vars PROVE TypeOK'
  OBVIOUS
<1> USE LifecycleAssumption DEF IInv, Ids
<1>a. Len(Schema) = 4 /\ SchemaObjects = {Schema[1], Schema[2], Schema[3], Schema[4]}
  BY FourStatements
<1>1. CASE Load
  <2>1. cfg' \in [accepted : BOOLEAN, audit : BOOLEAN, async : BOOLEAN, named : BOOLEAN,
                   prunes : BOOLEAN, retains : BOOLEAN]
    <3>1. /\ Enabled(env, "AUDIT_ENABLED") \in BOOLEAN /\ Enabled(env, "AUDIT_ASYNC_ENABLED") \in BOOLEAN
          /\ StoreNamed(env) \in BOOLEAN
          /\ (Value(env, "AUDIT_PRUNE_INTERVAL").number > 0) \in BOOLEAN
          /\ (Value(env, "AUDIT_RETENTION_DAYS").number > 0) \in BOOLEAN
      BY DEF Enabled, StoreNamed
    <3> DEFINE R(a, b, c, d, e) == [accepted |-> TRUE, audit |-> a, async |-> b, named |-> c,
                                    prunes |-> d, retains |-> e]
               T == [accepted : BOOLEAN, audit : BOOLEAN, async : BOOLEAN, named : BOOLEAN,
                     prunes : BOOLEAN, retains : BOOLEAN]
    <3>2. \A a, b, c, d, e \in BOOLEAN : R(a, b, c, d, e) \in T
      OBVIOUS
    <3>3. cfg \in T
      BY DEF TypeOK
    <3>4. \/ cfg' = R(Enabled(env, "AUDIT_ENABLED"), Enabled(env, "AUDIT_ASYNC_ENABLED"), StoreNamed(env),
                    Value(env, "AUDIT_PRUNE_INTERVAL").number > 0,
                    Value(env, "AUDIT_RETENTION_DAYS").number > 0)
          \/ cfg' = cfg
      BY <1>1, Zenon DEF Load
    <3> HIDE DEF R, T
    <3>5. cfg' \in T
      BY <3>1, <3>2, <3>3, <3>4, Zenon
    <3> QED
      BY <3>5 DEF T
  <2>2. DOMAIN NoEnvironment = Variables
    BY Zenon DEF NoEnvironment
  <2> QED
    BY <1>a, <1>1, <2>1, <2>2 DEF Load, Return, memory, database, TypeOK, Running, Migrating, Accepting
<1>2. CASE OpenStore
  BY <1>a, <1>2 DEF OpenStore, process, database, memory, TypeOK, Migrated, Running, Migrating, Accepting
<1>3. CASE InspectTable
  BY <1>a, <1>3 DEF InspectTable, process, database, memory, TypeOK, Migrated, Running, Migrating, Accepting
<1>4. CASE InspectSeq
  BY <1>a, <1>4 DEF InspectSeq, process, database, memory, TypeOK, Migrated, Running, Migrating, Accepting
<1>5. CASE DropLegacy
  <2>1. /\ objects' \subseteq SchemaObjects \cup {"v2"} /\ legacy' \in BOOLEAN
        /\ rows' \in [Ids -> {"none", "fresh", "expired"}]
    BY <1>5 DEF DropLegacy, TypeOK
  <2>2. phase' \in Running \cup {"down"} /\ UNCHANGED <<process, store, memory, settled>>
    BY <1>5 DEF DropLegacy, Running, Migrating
  <2> QED
    BY <2>1, <2>2 DEF TypeOK, process, memory
<1>6. CASE DropV2
  BY <1>a, <1>6 DEF DropV2, process, memory, TypeOK, Migrated, Running, Migrating, Accepting
<1>7. CASE CreateNext
  BY <1>a, <1>7 DEF CreateNext, memory, TypeOK, Migrated, Running, Migrating, Accepting
<1>8. CASE StartupPrune
  BY <1>a, <1>8 DEF StartupPrune, process, memory, Prune, TypeOK, Migrated, Running, Migrating, Accepting
<1>9. CASE StartRecorder
  BY <1>a, <1>9 DEF StartRecorder, process, Recorded, Write, TypeOK, Migrated, Running, Migrating, Accepting
<1>10. CASE Build
  BY <1>a, <1>10 DEF Build, process, database, memory, TypeOK, Migrated, Running, Migrating, Accepting
<1>11. CASE StartFails
  BY <1>a, <1>11 DEF StartFails, Fails, Return, database, memory, TypeOK, Migrated, Running, Migrating, Accepting
<1>12. CASE Notify
  BY <1>a, <1>12 DEF Notify, process, database, memory, TypeOK, Migrated, Running, Migrating, Accepting
<1>13. CASE \E r \in Requests : Accept(r)
  BY <1>a, <1>13 DEF Accept, process, database, TypeOK, Migrated, Running, Migrating, Accepting
<1>14. CASE \E r \in Requests : Finish(r)
  BY <1>a, <1>14 DEF Finish, process, Recorded, Write, TypeOK, Migrated, Running, Migrating, Accepting
<1>15. CASE \E i \in Ids : Age(i)
  BY <1>a, <1>15 DEF Age, process, memory, TypeOK, Migrated, Running, Migrating, Accepting
<1>16. CASE WorkerWrites
  BY <1>a, <1>16 DEF WorkerWrites, process, Write, TypeOK, Migrated, Running, Migrating, Accepting
<1>17. CASE PrunerTick
  BY <1>a, <1>17 DEF PrunerTick, process, database, TypeOK, Migrated, Running, Migrating, Accepting
<1>18. CASE Pruned
  BY <1>a, <1>18 DEF Pruned, process, Prune, TypeOK, Migrated, Running, Migrating, Accepting
<1>19. CASE PruneFails
  BY <1>a, <1>19 DEF PruneFails, process, database, TypeOK, Migrated, Running, Migrating, Accepting
<1>20. CASE Signal
  BY <1>a, <1>20 DEF Signal, process, database, memory, TypeOK, Migrated, Running, Migrating, Accepting
<1>21. CASE ShutdownDone
  BY <1>a, <1>21 DEF ShutdownDone, process, database, TypeOK, Migrated, Running, Migrating, Accepting
<1>22. CASE ShutdownTimesOut
  BY <1>a, <1>22 DEF ShutdownTimesOut, Fails, Return, database, memory, TypeOK, Migrated, Running, Migrating, Accepting
<1>23. CASE CloseDone
  BY <1>a, <1>23 DEF CloseDone, Return, database, memory, TypeOK, Migrated, Running, Migrating, Accepting
<1>24. CASE CloseFails
  BY <1>a, <1>24 DEF CloseFails, Fails, Return, database, memory, TypeOK, Migrated, Running, Migrating, Accepting
<1>25. CASE Exit
  BY <1>a, <1>25 DEF Exit, Die, database, TypeOK, Migrated, Running, Migrating, Accepting
<1>26. CASE Crash
  BY <1>a, <1>26 DEF Crash, Die, database, TypeOK, Migrated, Running, Migrating, Accepting
<1>27. CASE Restart
  BY <1>a, <1>27 DEF Restart, database, TypeOK, Migrated, Running, Migrating, Accepting
<1>28. CASE UNCHANGED vars
  BY <1>a, <1>28 DEF vars, process, database, TypeOK, Migrated, Running, Migrating, Accepting
<1> QED
  BY <1>1, <1>2, <1>3, <1>4, <1>5, <1>6, <1>7, <1>8, <1>9, <1>10, <1>11, <1>12, <1>13, <1>14, <1>15, <1>16, <1>17, <1>18, <1>19, <1>20, <1>21, <1>22, <1>23, <1>24, <1>25, <1>26, <1>27, <1>28 DEF Next

(* Every step of a process keeps IInv. *)
LEMMA StepIInv == IInv /\ [Next]_vars => IInv'
  BY TypeOKStep, StagesStep, MigratedStep, LegacyStep, SettledStep, CleanExitStep DEF IInv

(* IInv holds in every state, whatever the environment and the old database. *)
THEOREM InductiveInvariant == Spec => []IInv
<1> QED
  BY InitIInv, StepIInv, PTL DEF Spec

(* Every variable of Lifecycle keeps its type in every process, for any number of *)
(* requests, rows and starts (main.go, run).                                      *)
THEOREM TypeCorrect == Spec => []TypeOK
<1>1. IInv => TypeOK
  BY DEF IInv
<1> QED
  BY <1>1, InductiveInvariant, PTL

(* The server never accepts a request on a database whose schema is incomplete or *)
(* of the earlier version (migrations.go, Migrate): whichever statement an        *)
(* earlier process crashed at, the next start completes what it left.             *)
THEOREM ServesOnSchemaHolds == Spec => []ServesOnSchema
<1>1. IInv => ServesOnSchema
  BY DEF IInv, Migrated, ServesOnSchema
<1> QED
  BY <1>1, InductiveInvariant, PTL

(* Rows written in the current schema stay until they expire, across crashes,     *)
(* restarts, migrations and prunes.                                               *)
THEOREM RowsSurviveHolds == Spec => []RowsSurvive
<1>1. IInv => RowsSurvive
  BY DEF IInv, SettledFresh, RowsSurvive
<1> QED
  BY <1>1, InductiveInvariant, PTL

(* A process that returns nil has finished its requests and drained its recorder  *)
(* (main.go, the end of run).                                                     *)
THEOREM CleanExitHolds == Spec => []CleanExit
<1>1. IInv => CleanExit
  BY DEF IInv
<1> QED
  BY <1>1, InductiveInvariant, PTL

-----------------------------------------------------------------------------
(* What an event may become, from Record to the end of the process.             *)

(* An event that the recorder accepts is queued or written; one that is queued  *)
(* leaves the queue by being written, or with a process that crashes or that    *)
(* exits with an error; and one that is written stays known until it expires.   *)
Follows ==
  /\ \A e \in accepted' \ accepted : e \in queue' \cup settled'
  /\ \A e \in queue \ queue' : e \in settled' \/ (phase' = "down" /\ exit' # "ok")
  /\ \A i \in settled \ settled' : rows'[i] = "expired"

NothingForgotten == [][Follows]_vars

(* The steps that queue, write or lose no event.                                *)
LEMMA QuietFollows ==
  ASSUME UNCHANGED <<accepted, queue, settled>> PROVE Follows
BY DEF Follows

(* What Record does with an event.                                              *)
LEMMA RecordedFollows ==
  ASSUME NEW e, Recorded(e) PROVE Follows
BY DEF Recorded, Write, Follows

(* The end of a process takes the queue with it.                                *)
LEMMA DieFollows ==
  ASSUME CleanExit, Exit \/ Crash PROVE Follows
<1>1. accepted' = {} /\ queue' = {} /\ phase' = "down" /\ UNCHANGED settled
  BY DEF Exit, Crash, Die
<1>2. queue # {} => exit' # "ok"
  BY DEF Exit, Crash, CleanExit
<1> QED
  BY <1>1, <1>2 DEF Follows

(* Every step.                                                                  *)
LEMMA StepFollows ==
  ASSUME IInv, Next PROVE Follows
<1>1. CASE \/ Load \/ OpenStore \/ InspectTable \/ InspectSeq \/ DropLegacy \/ DropV2
           \/ CreateNext \/ StartupPrune \/ Build \/ StartFails \/ Notify
  <2>1. UNCHANGED <<accepted, queue, settled>>
    BY <1>1 DEF Load, OpenStore, InspectTable, InspectSeq, DropLegacy, DropV2, CreateNext,
                StartupPrune, Build, StartFails, Notify, Fails, memory
  <2> QED
    BY <2>1, QuietFollows
<1>2. CASE \/ PrunerTick \/ Pruned \/ PruneFails \/ Signal \/ ShutdownDone \/ ShutdownTimesOut
           \/ CloseDone \/ CloseFails \/ Restart \/ \E r \in Requests : Accept(r)
  <2>1. UNCHANGED <<accepted, queue, settled>>
    BY <1>2 DEF PrunerTick, Pruned, PruneFails, Signal, ShutdownDone, ShutdownTimesOut,
                CloseDone, CloseFails, Restart, Accept, Fails, memory
  <2> QED
    BY <2>1, QuietFollows
<1>3. CASE StartRecorder \/ \E r \in Requests : Finish(r)
  BY <1>3, RecordedFollows DEF StartRecorder, Finish
<1>4. CASE WorkerWrites
  BY <1>4 DEF WorkerWrites, Write, Follows
<1>5. ASSUME NEW i \in Ids, Age(i) PROVE Follows
  <2>1. rows'[i] = "expired"
    BY <1>5 DEF Age, IInv, TypeOK
  <2> QED
    BY <1>5, <2>1 DEF Age, memory, Follows
<1>6. CASE Exit \/ Crash
  BY <1>6, DieFollows DEF IInv
<1> QED
  BY <1>1, <1>2, <1>3, <1>4, <1>5, <1>6 DEF Next

(* No event is forgotten along the way, by any of the two recorders, in any     *)
(* order of the writes, the shutdown and the crashes (main.go, run).            *)
THEOREM NothingIsForgotten == Spec => NothingForgotten
<1>1. IInv /\ [Next]_vars => [Follows]_vars
  BY StepFollows
<1> QED
  BY <1>1, InductiveInvariant, PTL DEF Spec, NothingForgotten

-----------------------------------------------------------------------------
(* The environment.                                                             *)

(* parsePositiveInt and parsePositiveDuration accept nothing else.              *)
LEMMA PositiveAccepted ==
  ASSUME NEW v \in PositiveVariables, NEW x, NumberAccepted(v, x) PROVE x.number > 0
<1>1. v \notin NonNegativeVariables \cup BoundedVariables
  BY DEF PositiveVariables, NonNegativeVariables, BoundedVariables
<1>2. /\ v \notin NonNegativeVariables /\ v # "APPCHECK_TOKEN_TTL"
      /\ v # "VERIFY_SUCCESS_STATUS" /\ v # "VERIFY_FAILURE_STATUS"
  BY <1>1 DEF BoundedVariables
<1> QED BY <1>2 DEF NumberAccepted

(* The numbers with bounds of their own are within them.                        *)
LEMMA BoundedAccepted ==
  ASSUME NEW x
  PROVE  /\ NumberAccepted("APPCHECK_TOKEN_TTL", x) =>
              x.number \in 30 * 60 * Second .. 7 * 24 * 3600 * Second
         /\ NumberAccepted("VERIFY_SUCCESS_STATUS", x) => x.number \in 200..299
         /\ NumberAccepted("VERIFY_FAILURE_STATUS", x) => x.number \in 100..599 \ 200..299
BY DEF NumberAccepted, PositiveVariables, NonNegativeVariables

(* A public mode that is not given is one of the modes.                         *)
LEMMA PublicModeDefault == Default["AUDIT_PUBLIC_MODE"] = Word("failure_step")
BY DEF Default, Variables, NumberVariables, BooleanVariables, RateVariables, Choices,
       FreeVariables, PositiveVariables, NonNegativeVariables, BoundedVariables

(* The modes.                                                                   *)
LEMMA ModeChoices ==
  /\ "AUDIT_PUBLIC_MODE" \in DOMAIN Choices
  /\ Choices["AUDIT_PUBLIC_MODE"] = {"summary", "step", "failure_step"}
BY DEF Choices

(* What Load accepts is what the components' assumptions ask for.               *)
LEMMA LoadIsSound ==
  ASSUME NEW e, Accepts(e) PROVE Sound(e)
<1>1. \A v \in NumberVariables : NumberAccepted(v, Value(e, v)) BY DEF Accepts
<1>2. \A v \in PositiveVariables : Value(e, v).number > 0
  BY <1>1, PositiveAccepted DEF NumberVariables
<1>3. RecorderSound(e) /\ LimiterSound(e)
  BY <1>2 DEF RecorderSound, LimiterSound, PositiveVariables
<1>4. GatewaySound(e)
  <2>1. Value(e, "REQUEST_TIMEOUT").number > 0
    BY <1>2 DEF PositiveVariables
  <2>2. NumberAccepted("APPCHECK_TOKEN_TTL", Value(e, "APPCHECK_TOKEN_TTL"))
        /\ NumberAccepted("VERIFY_SUCCESS_STATUS", Value(e, "VERIFY_SUCCESS_STATUS"))
        /\ NumberAccepted("VERIFY_FAILURE_STATUS", Value(e, "VERIFY_FAILURE_STATUS"))
    BY <1>1 DEF NumberVariables, BoundedVariables
  <2>3. Value(e, "APPCHECK_TOKEN_TTL").number >= 30 * 60 * Second
    <3> DEFINE ttl == Value(e, "APPCHECK_TOKEN_TTL").number
    <3>1. ttl \in 30 * 60 * Second .. 7 * 24 * 3600 * Second
      BY <2>2, BoundedAccepted
    <3> HIDE DEF ttl
    <3> DEFINE low == 30 * 60 * Second
               high == 7 * 24 * 3600 * Second
    <3>2. Second \in Int
      BY DEF Second
    <3>3. low \in Int /\ high \in Int
      BY <3>2
    <3>4. ttl \in low..high
      BY <3>1
    <3> HIDE DEF low, high
    <3>5. ttl >= low
      BY <3>3, <3>4
    <3> QED BY <3>5 DEF ttl, low
  <2>4. /\ Value(e, "VERIFY_SUCCESS_STATUS").number \in 200..299
        /\ Value(e, "VERIFY_FAILURE_STATUS").number \notin 200..299
    BY <2>2, BoundedAccepted
  <2>5. Value(e, "AUDIT_PUBLIC_MODE").word \in {"summary", "step", "failure_step"}
    <3>1. \/ e["AUDIT_PUBLIC_MODE"] = Blank
          \/ e["AUDIT_PUBLIC_MODE"].word \in Choices["AUDIT_PUBLIC_MODE"]
      BY ModeChoices DEF Accepts
    <3>2. Word("failure_step").word = "failure_step" BY DEF Word
    <3> QED BY <3>1, <3>2, PublicModeDefault, ModeChoices DEF Value
  <2>6. IsMock(e) =>
          Value(e, "E2E_TURNSTILE_PASS_TOKEN") # Value(e, "E2E_TURNSTILE_FAIL_TOKEN")
    BY DEF Accepts, UpstreamsAccepted
  <2> QED BY <2>1, <2>3, <2>4, <2>5, <2>6 DEF GatewaySound
<1> QED BY <1>3, <1>4 DEF Sound

(* Whatever the environment, if Load accepts it then no number that a component   *)
(* takes for positive is not, no status or lifetime is out of its bounds and no   *)
(* mode unknown (config.go, Load).                                                *)
THEOREM LoadedIsSoundHolds == Spec => []LoadedIsSound
<1>1. LoadedIsSound
  BY LoadIsSound DEF LoadedIsSound
<1> QED
  BY <1>1, PTL
=============================================================================
