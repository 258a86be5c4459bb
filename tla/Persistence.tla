----------------------------- MODULE Persistence -----------------------------
(***************************************************************************)
(* Saving and restoring the emulator's state (state/persistence.py) under  *)
(* the runtime's lifecycle (runtime/runtime.py, runtime/shutdown.py).      *)
(*                                                                         *)
(* The state lives in memory: stores of the services and, apart from them, *)
(* the bodies of S3 objects.  A save writes body files and their index,    *)
(* then one file per store, then the manifest.  The scheduler thread, a    *)
(* POST to the dashboard and the final save of a shutdown may all save,    *)
(* one at a time; clients create and delete meanwhile.  A save may fail at *)
(* any of its writes, the process may crash at any step, and a start       *)
(* restores what the manifest lists.                                       *)
(***************************************************************************)
EXTENDS Integers, FiniteSets

CONSTANTS
    Stores,       \* what a save dumps: native stores, moto backends, CloudTrail
    S3,           \* the store with the metadata of S3 objects
    SQS,          \* the store with the queues of SQS
    Items,        \* what clients create in a store: its resources, S3's objects
    Strategies,   \* values of SNAPSHOT_SAVE_STRATEGY
    MaxCalls,     \* bound on the calls of clients
    MaxFailures,  \* bound on the writes of saves that fail
    MaxEnds       \* bound on the crashes and shutdowns

ASSUME ConstantsAssumption ==
    /\ S3 \in Stores /\ SQS \in Stores /\ S3 # SQS
    /\ Strategies \subseteq {"ON_SHUTDOWN", "SCHEDULED", "MANUAL"}
    /\ MaxCalls \in Nat /\ MaxFailures \in Nat /\ MaxEnds \in Nat

VARIABLES
    strategy,   \* SNAPSHOT_SAVE_STRATEGY
    phase,      \* of the process: see Phases
    \* in memory
    live,       \* what each store can serve
    bodies,     \* EphemeralS3ObjectStore._filesystem
    putting,    \* objects whose put_object has opened the body
    removing,   \* objects whose delete_object has yet to remove the body
    \* on disk
    file,       \* <store>.state
    bodyFiles,  \* assets/s3_bodies/<bucket>/<key>.body
    index,      \* assets/s3_bodies/_index.json
    manifest,   \* the services in _manifest.json
    \* the save that holds _SAVE_LOCK
    saver,      \* who runs it
    step,       \* what it does next
    todo,       \* the bodies it has yet to stream, the stores it has yet to dump
    saved,      \* the stores it has dumped
    torn,       \* the iteration over the bodies will raise a RuntimeError
    scheduler,  \* the persistence-scheduler thread
    \* what the bounds have left
    calls, failures, ends,
    \* history
    completed,  \* what the last complete save captured of each store and no client
                \* has deleted since
    disturbed,  \* the save under way may have missed bodies: see ObjectsHaveBodies
    lost,       \* objects that have been without their bodies
    clean,      \* the snapshot on disk is a complete, undisturbed one
    atExit,     \* what each store had when the last shutdown began and no client
                \* has deleted since
    skipped,    \* its final save was skipped
    failed,     \* its final save raised, or a dump of it or of a later save failed
    late,       \* a store was dumped after the services had stopped
    orderly     \* the process ended at the end of a shutdown

pending == <<putting, removing>>
memory  == <<live, bodies, pending>>
disk    == <<file, bodyFiles, index, manifest>>
saving  == <<saver, step, todo, saved, torn>>
bounds  == <<calls, failures, ends>>
exit    == <<atExit, skipped, failed, late, orderly>>
history == <<completed, disturbed, lost, clean, exit>>

vars == <<strategy, phase, memory, disk, saving, scheduler, bounds, history>>

-----------------------------------------------------------------------------
\* up:       requests are served
\* stopping: Runtime.shutdown has begun; only calls under way and internal
\*           endpoints are still served
\* handled:  SHUTDOWN_HANDLERS have run
\* closed:   services are stopped
\* down:     the process has ended
Phases == {"up", "stopping", "handled", "closed", "down"}

TypeOK ==
    /\ strategy \in Strategies /\ phase \in Phases
    /\ live \in [Stores -> SUBSET Items] /\ bodies \subseteq Items
    /\ putting \subseteq Items /\ removing \subseteq Items
    /\ file \in [Stores -> SUBSET Items] /\ manifest \subseteq Stores
    /\ index \subseteq Items /\ bodyFiles \subseteq Items
    /\ saver \in {"nobody", "scheduler", "manual", "final"}
    /\ step \in {"idle", "wipe", "stream", "dump", "manifest"}
    /\ step = "idle" <=> saver = "nobody"
    /\ todo \subseteq IF step = "stream" THEN Items ELSE Stores
    /\ saved \subseteq Stores /\ torn \in BOOLEAN
    /\ scheduler \in {"waiting", "woken"}
    /\ calls \in 0..MaxCalls /\ failures \in 0..MaxFailures /\ ends \in 0..MaxEnds
    /\ completed \in [Stores -> SUBSET Items] /\ atExit \in [Stores -> SUBSET Items]
    /\ lost \subseteq Items
    /\ {disturbed, clean, skipped, failed, late, orderly} \subseteq BOOLEAN

Nothing == [s \in Stores |-> {}]

Init ==
    /\ strategy \in Strategies /\ phase = "up"
    /\ live = Nothing /\ bodies = {} /\ putting = {} /\ removing = {}
    /\ file = Nothing /\ bodyFiles = {} /\ index = {} /\ manifest = {}
    /\ saver = "nobody" /\ step = "idle" /\ todo = {} /\ saved = {} /\ torn = FALSE
    /\ scheduler = "waiting"
    /\ calls = 0 /\ failures = 0 /\ ends = 0
    /\ completed = Nothing /\ disturbed = FALSE /\ lost = {} /\ clean = FALSE
    /\ atExit = Nothing /\ skipped = FALSE /\ failed = FALSE /\ late = FALSE /\ orderly = FALSE

-----------------------------------------------------------------------------
(* Clients.  RuntimeShutdownHandler refuses new calls during a shutdown,   *)
(* but what is under way still takes effect.                               *)

\* A call begins.
Call == phase # "down" /\ calls < MaxCalls /\ calls' = calls + 1

Create(s, i) ==
    /\ Call /\ s # S3 /\ i \notin live[s]
    /\ live' = [live EXCEPT ![s] = @ \cup {i}]
    /\ UNCHANGED <<strategy, phase, bodies, pending, disk, saving, scheduler, failures, ends,
                   history>>

\* The item is out of the store, and out of what a restart owes the client.
Drop(s, i) ==
    /\ i \in live[s]
    /\ live' = [live EXCEPT ![s] = @ \ {i}]
    /\ completed' = [completed EXCEPT ![s] = @ \ {i}]
    /\ atExit' = [atExit EXCEPT ![s] = @ \ {i}]

Delete(s, i) ==
    /\ Call /\ s # S3
    /\ Drop(s, i)
    /\ UNCHANGED <<strategy, phase, bodies, pending, disk, saving, scheduler, failures, ends,
                   disturbed, lost, clean, skipped, failed, late, orderly>>

\* The bodies of the bucket over which a save iterates may have changed their
\* number, which breaks the iteration.
Torn == torn' \in IF step = "stream" /\ bodies' # bodies THEN {torn, TRUE} ELSE {torn}

\* put_object opens the body, a new one unless the key has one.  A save that has
\* begun to stream may do without it.
PutBody(i) ==
    /\ Call /\ i \notin putting
    /\ putting' = putting \cup {i}
    /\ bodies' = bodies \cup {i} /\ Torn
    /\ disturbed' = (disturbed \/ (bodies' # bodies /\ step \notin {"idle", "wipe"}))
    /\ UNCHANGED <<strategy, phase, live, removing, disk, saver, step, todo, saved, scheduler,
                   failures, ends, completed, lost, clean, exit>>

\* ... and then sets the object, whose body a delete may have removed meanwhile.
PutObject(i) ==
    /\ phase # "down" /\ i \in putting
    /\ putting' = putting \ {i}
    /\ live' = [live EXCEPT ![S3] = @ \cup {i}]
    /\ lost' = lost \cup ({i} \ bodies)
    /\ UNCHANGED <<strategy, phase, bodies, removing, disk, saving, scheduler, bounds,
                   completed, disturbed, clean, exit>>

\* EphemeralS3ObjectStore.remove
RemoveBody(i) ==
    /\ bodies' = bodies \ {i} /\ Torn
    /\ lost' = lost \cup ({i} \cap live[S3])
    /\ disturbed' = (disturbed \/ (bodies' # bodies /\ step = "stream"))

\* A put_object that finds a wrong checksum removes the body, were it of an
\* object that it should have replaced.
PutFails(i) ==
    /\ phase # "down" /\ i \in putting
    /\ putting' = putting \ {i}
    /\ RemoveBody(i)
    /\ UNCHANGED <<strategy, phase, live, removing, disk, saver, step, todo, saved, scheduler,
                   bounds, completed, clean, exit>>

\* delete_object pops the object ...
DeleteObject(i) ==
    /\ Call /\ i \notin removing
    /\ Drop(S3, i)
    /\ removing' = removing \cup {i}
    /\ UNCHANGED <<strategy, phase, bodies, putting, disk, saving, scheduler, failures, ends,
                   disturbed, lost, clean, skipped, failed, late, orderly>>

\* ... and then removes its body.
DeleteBody(i) ==
    /\ phase # "down" /\ i \in removing
    /\ removing' = removing \ {i}
    /\ RemoveBody(i)
    /\ UNCHANGED <<strategy, phase, live, putting, disk, saver, step, todo, saved, scheduler,
                   bounds, completed, clean, exit>>

\* A delete_bucket, or the first multipart upload of a bucket, changes no body
\* but the number of buckets over which a save iterates.
ChangeBuckets ==
    /\ step = "stream" /\ ~torn
    /\ torn' = TRUE /\ disturbed' = TRUE
    /\ UNCHANGED <<strategy, phase, memory, disk, saver, step, todo, saved, scheduler, bounds,
                   completed, lost, clean, exit>>

-----------------------------------------------------------------------------
(* SaveOrchestrator._save                                                  *)

\* The lock is taken without waiting.
BeginSave(who) ==
    /\ saver = "nobody"
    /\ saver' = who /\ step' = "wipe" /\ saved' = {}
    /\ disturbed' = (phase = "closed")
    /\ UNCHANGED <<todo, torn>>

\* A write fails.
Failure == failures < MaxFailures /\ failures' = failures + 1

\* The save is over, and a final one was the work of the shutdown handler.
EndSave ==
    /\ saver' = "nobody" /\ step' = "idle" /\ todo' = {} /\ saved' = {} /\ torn' = FALSE
    /\ phase' = IF saver = "final" THEN "handled" ELSE phase
    /\ disturbed' = FALSE

\* The directories cannot be made, or the manifest cannot be written: the save
\* raises, its caller logs that, and the manifest stays what it was.
SaveRaises ==
    /\ step \in {"wipe", "manifest"} /\ Failure
    /\ EndSave
    /\ failed' = (failed \/ saver = "final")
    /\ UNCHANGED <<strategy, memory, disk, scheduler, calls, ends, completed, lost, clean, atExit,
                   skipped, late, orderly>>

\* _save_s3_bodies removes the body files of the snapshot before ...
WipeBodyFiles ==
    /\ step = "wipe"
    /\ bodyFiles' = {} /\ index' = {}
    /\ step' = "stream" /\ todo' = bodies /\ torn' = FALSE
    /\ clean' = FALSE
    /\ UNCHANGED <<strategy, phase, memory, file, manifest, saver, saved, scheduler,
                   bounds, completed, disturbed, lost, exit>>

\* (some of them may stay, and the save then does without bodies)
WipeFails ==
    /\ step = "wipe" /\ Failure
    /\ bodyFiles' \in SUBSET bodyFiles /\ index' \in {index, {}}
    /\ step' = "dump" /\ todo' = Stores
    /\ clean' = FALSE /\ disturbed' = TRUE
    /\ UNCHANGED <<strategy, phase, memory, file, manifest, saver, saved, torn, scheduler,
                   calls, ends, completed, lost, exit>>

\* ... streams the bodies one by one, those added meanwhile perhaps too ...
StreamBody(i) ==
    /\ step = "stream" /\ i \in bodies /\ i \notin bodyFiles
    /\ bodyFiles' = bodyFiles \cup {i}
    /\ todo' = todo \ {i}
    /\ UNCHANGED <<strategy, phase, memory, file, index, manifest, saver, step, saved,
                   torn, scheduler, bounds, history>>

\* ... without one that cannot be read ...
StreamFails(i) ==
    /\ step = "stream" /\ i \in todo /\ Failure
    /\ todo' = todo \ {i} /\ disturbed' = TRUE
    /\ UNCHANGED <<strategy, phase, memory, disk, saver, step, saved, torn, scheduler,
                   calls, ends, completed, lost, clean, exit>>

\* Mutant: the loop over the bodies may end early.
StreamedSome == TRUE

\* The loop over the bodies has seen every one that was there at its start.
StreamedAll == todo \cap bodies = {}

\* ... and writes the index, unless the iteration broke.
WriteIndex ==
    /\ step = "stream"
    /\ torn \/ StreamedAll
    /\ index' = IF torn THEN index ELSE bodyFiles
    /\ step' = "dump" /\ todo' = Stores
    /\ UNCHANGED <<strategy, phase, memory, file, bodyFiles, manifest, saver, saved, torn,
                   scheduler, bounds, history>>

\* A bucket's directory cannot be made or the index cannot be written: as with a
\* broken iteration the save goes on, without an index.
IndexFails ==
    /\ step = "stream" /\ Failure
    /\ step' = "dump" /\ todo' = Stores /\ disturbed' = TRUE
    /\ UNCHANGED <<strategy, phase, memory, disk, saver, saved, torn, scheduler, calls, ends,
                   completed, lost, clean, exit>>

\* Mutant: the manifest is written after the first store.
ManifestAtOnce(left) == "manifest"

\* Mutant: the manifest is not written.
NoManifest(left) == IF left = {} THEN "idle" ELSE "dump"

\* The manifest is written last.
NextStep(left) == IF left = {} THEN "manifest" ELSE "dump"

\* _atomic_dump of the next store, whose file is replaced as a whole.  Queues
\* that the stop of SQS has shut down are gone from it for good.
Dump(s) ==
    /\ step = "dump" /\ s \in todo
    /\ file' = [file EXCEPT ![s] = live[s]]
    /\ saved' = saved \cup {s}
    /\ todo' = todo \ {s} /\ step' = NextStep(todo')
    /\ late' = (late \/ phase = "closed")
    /\ completed' = IF phase = "closed" THEN [completed EXCEPT ![s] = @ \cap live[s]]
                    ELSE completed
    /\ UNCHANGED <<strategy, phase, memory, bodyFiles, index, manifest, saver, torn,
                   scheduler, bounds, disturbed, lost, clean, atExit, skipped, failed, orderly>>

\* Mutant: the dump writes to the file itself.
Truncated(s) == {}

\* A dump that fails leaves only its temporary file, which it removes.
AfterFailure(s) == file[s]

\* The dump raises: the store is left out.
DumpFails(s) ==
    /\ step = "dump" /\ s \in todo /\ Failure
    /\ failed' = (failed \/ saver = "final" \/ phase \in {"handled", "closed"})
    /\ file' = [file EXCEPT ![s] = AfterFailure(s)]
    /\ todo' = todo \ {s} /\ step' = NextStep(todo')
    /\ UNCHANGED <<strategy, phase, memory, bodyFiles, index, manifest, saver, saved, torn,
                   scheduler, calls, ends, completed, disturbed, lost, clean, atExit, skipped, late,
                   orderly>>

\* The manifest is replaced and the lock released.
WriteManifest ==
    /\ step = "manifest"
    /\ manifest' = saved
    /\ EndSave
    /\ completed' = [s \in Stores |-> IF s \in saved THEN file[s] \cap live[s] ELSE {}]
    /\ clean' = ~disturbed
    /\ UNCHANGED <<strategy, memory, file, bodyFiles, index, scheduler, bounds, lost, exit>>

SaveStep ==
    \/ WipeBodyFiles \/ WipeFails \/ WriteIndex \/ IndexFails \/ WriteManifest \/ SaveRaises
    \/ \E i \in Items : StreamBody(i) \/ StreamFails(i)
    \/ \E s \in Stores : Dump(s) \/ DumpFails(s)

-----------------------------------------------------------------------------
(* Who saves                                                               *)

\* Mutant: the scheduler saves once.
WakeOnce ==
    /\ strategy = "SCHEDULED" /\ phase \in {"up", "stopping"} /\ manifest = {}
    /\ scheduler = "waiting" /\ saver \notin {"scheduler", "final"}
    /\ scheduler' = "woken"
    /\ UNCHANGED <<strategy, phase, memory, disk, saving, bounds, history>>

\* _scheduled_loop: the interval is over and nobody has set stop_event ...
Wake ==
    /\ strategy = "SCHEDULED" /\ phase \in {"up", "stopping"}
    /\ scheduler = "waiting" /\ saver \notin {"scheduler", "final"}
    /\ scheduler' = "woken"
    /\ UNCHANGED <<strategy, phase, memory, disk, saving, bounds, history>>

\* ... and it saves, or does without when somebody else does.
ScheduledSave ==
    /\ scheduler = "woken"
    /\ scheduler' = "waiting"
    /\ \/ BeginSave("scheduler")
       \/ saver # "nobody" /\ UNCHANGED <<saving, disturbed>>
    /\ UNCHANGED <<strategy, phase, memory, disk, bounds, completed, lost, clean, exit>>

\* POST /_localemu/state/save, served as long as the process runs.
ManualSave ==
    /\ phase # "down"
    /\ BeginSave("manual")
    /\ UNCHANGED <<strategy, phase, memory, disk, scheduler, bounds, completed, lost, clean, exit>>

\* Mutant: the final save waits for the lock.
FinalSaveWaits ==
    /\ phase = "stopping" /\ strategy # "MANUAL"
    /\ BeginSave("final")
    /\ UNCHANGED <<strategy, phase, memory, disk, scheduler, bounds, completed, lost, clean,
                   exit>>

\* The handler registered with SHUTDOWN_HANDLERS.
FinalSave ==
    /\ phase = "stopping" /\ strategy # "MANUAL" /\ saver # "final"
    /\ \/ /\ BeginSave("final")
          /\ UNCHANGED <<phase, skipped>>
       \/ /\ saver # "nobody"
          /\ phase' = "handled" /\ skipped' = TRUE
          /\ UNCHANGED <<saving, disturbed>>
    /\ UNCHANGED <<strategy, memory, disk, scheduler, bounds, completed, lost, clean, atExit,
                   failed, late, orderly>>

-----------------------------------------------------------------------------
(* The process                                                             *)

\* Runtime.shutdown, once.
Exit ==
    /\ phase = "up" /\ ends < MaxEnds
    /\ ends' = ends + 1
    /\ phase' = "stopping"
    /\ atExit' = live
    /\ UNCHANGED <<strategy, memory, disk, saving, scheduler, calls, failures, completed,
                   disturbed, lost, clean, skipped, failed, late, orderly>>

\* ShutdownHandlers.run finds no save to do.
NoFinalSave ==
    /\ phase = "stopping" /\ strategy = "MANUAL"
    /\ phase' = "handled"
    /\ UNCHANGED <<strategy, memory, disk, saving, scheduler, bounds, history>>

\* shutdown_services: the S3 provider closes its storage backend, which clears
\* the bodies; the SQS provider shuts every queue down, and one that is stored
\* like that gives no message after a restart.
StopServices ==
    /\ phase = "handled"
    /\ phase' = "closed"
    /\ bodies' = {} /\ Torn
    /\ live' = [live EXCEPT ![SQS] = {}]
    /\ disturbed' = (disturbed \/ step \in {"wipe", "stream"})
    /\ UNCHANGED <<strategy, pending, disk, saver, step, todo, saved, scheduler, bounds,
                   completed, lost, clean, exit>>

\* The process ends, and any save with it; what is on disk stays.
End ==
    /\ phase' = "down"
    /\ live' = Nothing /\ bodies' = {} /\ putting' = {} /\ removing' = {}
    /\ saver' = "nobody" /\ step' = "idle" /\ todo' = {} /\ saved' = {} /\ torn' = FALSE
    /\ scheduler' = "waiting" /\ disturbed' = FALSE
    /\ UNCHANGED <<strategy, disk, calls, failures, completed, lost, clean, atExit, skipped, failed,
                   late>>

\* The last step of Runtime.shutdown: the server stops and run returns.  The
\* threads that save are not waited for.
Return ==
    /\ phase = "closed" /\ End
    /\ orderly' = TRUE /\ UNCHANGED ends

Crash ==
    /\ phase # "down" /\ ends < MaxEnds /\ End
    /\ ends' = ends + 1 /\ orderly' = FALSE

\* What LoadOrchestrator.load makes of the files: stores by the manifest,
\* bodies by their index.
Restored(s)    == IF s \in manifest THEN file[s] ELSE {}
RestoredBodies == index \cap bodyFiles

\* register_persistence at the start, before a request is served.
Start ==
    /\ phase = "down"
    /\ phase' = "up"
    /\ live' = [s \in Stores |-> Restored(s)]
    /\ bodies' = IF manifest = {} THEN {} ELSE RestoredBodies
    /\ atExit' = Nothing
    /\ skipped' = FALSE /\ failed' = FALSE /\ late' = FALSE /\ orderly' = FALSE
    /\ lost' = lost \cup (live'[S3] \ bodies')
    /\ UNCHANGED <<strategy, pending, disk, saving, scheduler, bounds, completed, disturbed, clean>>

-----------------------------------------------------------------------------
Next ==
    \/ \E s \in Stores, i \in Items : Create(s, i) \/ Delete(s, i)
    \/ \E i \in Items : \/ PutBody(i) \/ PutObject(i) \/ PutFails(i)
                       \/ DeleteObject(i) \/ DeleteBody(i)
    \/ ChangeBuckets
    \/ SaveStep
    \/ Wake \/ ScheduledSave \/ ManualSave \/ FinalSave
    \/ Exit \/ NoFinalSave \/ StopServices \/ Return \/ Crash \/ Start

\* The threads of the process go on: the one that saves, the scheduler (its
\* interval ends) and the one that shuts down.  Clients, crashes and restarts
\* are not obliged to happen.
Fairness ==
    /\ WF_vars(SaveStep)
    /\ WF_vars(Wake \/ ScheduledSave)
    /\ WF_vars(FinalSave \/ NoFinalSave \/ StopServices \/ Return)

Spec == Init /\ [][Next]_vars /\ Fairness

-----------------------------------------------------------------------------
(* Properties                                                              *)

\* Whatever later save is under way, breaks off or fails, a restart brings back
\* of each store at least what the last complete save captured of it and no
\* client has deleted since.  ("written last so a reader that sees a manifest
\* knows every referenced .state file is fully flushed", persistence.py:218-219)
SavedSurvives == \A s \in Stores : completed[s] \subseteq Restored(s)

\* A complete save leaves a snapshot in which every object has its body, unless
\* the body was lost before, a put_object added one from the streaming of the
\* bodies on, a put_object or delete_object removed one, a bucket came or went
\* or the services stopped while they were streamed, or a write of bodies or
\* index failed.
\* Puts and deletes at any other time do no harm, nor do saves that break off
\* before.  ("S3Provider.on_before_stop wipes the ephemeral filesystem, so any
\* save that runs later persists S3 metadata whose bodies have been cleared",
\* persistence.py:937-941)
ObjectsHaveBodies == clean => (Restored(S3) \ lost) \subseteq RestoredBodies

\* After an orderly shutdown whose final save was neither skipped nor failed, a
\* restart brings back what was there when the shutdown began and no client
\* has deleted since, whatever saves follow the final one; S3's bodies apart,
\* and the queues if one of those saves came after the stop of SQS.  ("Stop the
\* scheduler AND do a final save on shutdown.", persistence.py:968)
ShutdownSaves ==
    (phase = "down" /\ orderly /\ strategy # "MANUAL" /\ ~skipped /\ ~failed) =>
        \A s \in Stores : (s = SQS /\ late) \/ atExit[s] \subseteq Restored(s)

\* With scheduled saves, what stays in a store gets into the snapshot as long as
\* the process is up, whoever else saves.
EventuallySaved ==
    \A s \in Stores, i \in Items :
        (strategy = "SCHEDULED" /\ i \in live[s])
            ~> (i \in Restored(s) \/ i \notin live[s] \/ phase # "up")

\* A shutdown ends the process, even when the lock is taken.
ShutdownEnds == phase = "stopping" ~> phase = "down"
=============================================================================
