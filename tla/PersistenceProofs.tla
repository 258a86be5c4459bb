-------------------------- MODULE PersistenceProofs --------------------------
(***************************************************************************)
(* Proofs about saving and restoring, for any stores, contents and save    *)
(* strategy, and any number of saves, failures, crashes and restarts.      *)
(***************************************************************************)
EXTENDS Persistence, TLAPS

-----------------------------------------------------------------------------
(* The inductive invariants                                                *)

\* What the arguments below need of the types.
Typed ==
    /\ live \in [Stores -> SUBSET Items] /\ file \in [Stores -> SUBSET Items]
    /\ completed \in [Stores -> SUBSET Items] /\ atExit \in [Stores -> SUBSET Items]
    /\ manifest \subseteq Stores /\ saved \subseteq Stores
    /\ phase \in Phases

\* No thread saves, or is about to, when the process is down; a final save
\* belongs to a shutdown.
ProcessInv ==
    /\ phase = "down" => saver = "nobody" /\ scheduler = "waiting"
    /\ step = "idle" <=> saver = "nobody"
    /\ saver = "nobody" => saved = {}
    /\ step \in {"wipe", "stream"} => saved = {}
    /\ saver = "final" => phase = "stopping" /\ strategy # "MANUAL"

\* Behind SavedSurvives: what was captured and not deleted since is still in
\* its store, so that a file which a save replaces gets it too; only the stop
\* of SQS takes more than clients do.
SavedInv ==
    /\ \A s \in Stores : completed[s] \subseteq Restored(s)
    /\ phase # "down" =>
          \A s \in Stores : (phase = "closed" /\ s = SQS) \/ completed[s] \subseteq live[s]

SaveInv == Typed /\ ProcessInv /\ SavedInv

\* Behind ObjectsHaveBodies: while services run, every object has its body
\* unless it was lost, and an undisturbed save has the bodies of all objects in
\* its index, before it dumps them.
BodiesInv ==
    /\ phase \in {"up", "stopping", "handled"} => (live[S3] \ lost) \subseteq bodies
    /\ (step \in {"wipe", "stream"} /\ ~disturbed) => phase \in {"up", "stopping", "handled"}
    /\ (step = "stream" /\ ~disturbed) => ~torn /\ bodies \subseteq bodyFiles \cup todo
    /\ (step \in {"dump", "manifest"} /\ ~disturbed) =>
          /\ bodies \subseteq index /\ (live[S3] \ lost) \subseteq index
          /\ index \subseteq bodyFiles
          /\ S3 \in saved => (file[S3] \ lost) \subseteq index
    /\ step \in {"stream", "dump", "manifest"} => ~clean
    /\ step \in {"idle", "wipe", "stream", "dump", "manifest"}
    /\ disturbed \in BOOLEAN /\ torn \in BOOLEAN
    /\ phase = "down" => step = "idle"
    /\ ObjectsHaveBodies

\* The final save is not skipped, and neither it nor a dump after it fails.
Kept == strategy # "MANUAL" /\ ~skipped /\ ~failed

\* The queues may have been stored after they were shut down.
Shut(s) == s = SQS /\ late

\* Behind ShutdownSaves: the final save, and every save after it, dumps every
\* store, with all that was there when the shutdown began.
ShutdownInv ==
    /\ phase \in {"stopping", "handled", "closed"} =>
          \A s \in Stores : (phase = "closed" /\ s = SQS) \/ atExit[s] \subseteq live[s]
    /\ (Kept /\ (phase \in {"handled", "closed"} \/ (phase = "down" /\ orderly))) =>
          \A s \in Stores : Shut(s) \/ atExit[s] \subseteq Restored(s)
    /\ (Kept /\ (saver = "final" \/ phase \in {"handled", "closed"})) =>
          /\ step = "dump" => Stores \subseteq saved \cup todo
          /\ step = "manifest" => Stores \subseteq saved
          /\ \A s \in saved : Shut(s) \/ atExit[s] \subseteq file[s]

-----------------------------------------------------------------------------
(* Saved state survives                                                    *)

\* Nothing is saved at first.
LEMMA InitSaveInv == Init => SaveInv
BY DEF Init, SaveInv, Typed, ProcessInv, SavedInv, Restored, Nothing, Phases

\* Every step of a client, a save or the process keeps the argument.
LEMMA StepSaveInv == SaveInv /\ [Next]_vars => SaveInv'
<1> SUFFICES ASSUME SaveInv, [Next]_vars PROVE SaveInv'
  OBVIOUS
<1> USE ConstantsAssumption
    DEF SaveInv, Typed, ProcessInv, SavedInv, Restored, memory, pending, disk, saving, bounds, history, exit
<1>1. ASSUME NEW s \in Stores, NEW i \in Items, Create(s, i) PROVE SaveInv'
  BY <1>1 DEF Create, Call
<1>2. ASSUME NEW s \in Stores, NEW i \in Items, Delete(s, i) PROVE SaveInv'
  BY <1>2 DEF Delete, Call, Drop
<1>3. ASSUME NEW i \in Items, PutBody(i) PROVE SaveInv'
  BY <1>3 DEF PutBody, Call, Torn
<1>4. ASSUME NEW i \in Items, PutObject(i) PROVE SaveInv'
  BY <1>4 DEF PutObject
<1>5. ASSUME NEW i \in Items, PutFails(i) PROVE SaveInv'
  BY <1>5 DEF PutFails, RemoveBody, Torn
<1>6. ASSUME NEW i \in Items, DeleteObject(i) PROVE SaveInv'
  BY <1>6 DEF DeleteObject, Call, Drop
<1>7. ASSUME NEW i \in Items, DeleteBody(i) PROVE SaveInv'
  BY <1>7 DEF DeleteBody, RemoveBody, Torn
<1>8. ASSUME ChangeBuckets PROVE SaveInv'
  BY <1>8 DEF ChangeBuckets
<1>9. ASSUME WipeBodyFiles PROVE SaveInv'
  BY <1>9 DEF WipeBodyFiles
<1>10. ASSUME WipeFails PROVE SaveInv'
  BY <1>10 DEF WipeFails, Failure
<1>11. ASSUME NEW i \in Items, StreamBody(i) PROVE SaveInv'
  BY <1>11 DEF StreamBody
<1>12. ASSUME NEW i \in Items, StreamFails(i) PROVE SaveInv'
  BY <1>12 DEF StreamFails, Failure
<1>13. ASSUME WriteIndex PROVE SaveInv'
  BY <1>13 DEF WriteIndex, StreamedAll
<1>14. ASSUME IndexFails PROVE SaveInv'
  BY <1>14 DEF IndexFails, Failure
<1>15. ASSUME NEW s \in Stores, Dump(s) PROVE SaveInv'
  BY <1>15 DEF Dump, NextStep
<1>16. ASSUME NEW s \in Stores, DumpFails(s) PROVE SaveInv'
  BY <1>16 DEF DumpFails, AfterFailure, NextStep, Failure
<1>17. ASSUME WriteManifest PROVE SaveInv'
  BY <1>17 DEF WriteManifest, EndSave, Phases
<1>18. ASSUME SaveRaises PROVE SaveInv'
  BY <1>18 DEF SaveRaises, EndSave, Failure, Phases
<1>19. ASSUME Wake PROVE SaveInv'
  BY <1>19 DEF Wake
<1>20. ASSUME ScheduledSave PROVE SaveInv'
  BY <1>20 DEF ScheduledSave, BeginSave, Phases
<1>21. ASSUME ManualSave PROVE SaveInv'
  BY <1>21 DEF ManualSave, BeginSave, Phases
<1>22. ASSUME FinalSave PROVE SaveInv'
  BY <1>22 DEF FinalSave, BeginSave, Phases
<1>23. ASSUME Exit PROVE SaveInv'
  BY <1>23 DEF Exit, Phases
<1>24. ASSUME NoFinalSave PROVE SaveInv'
  BY <1>24 DEF NoFinalSave, Phases
<1>25. ASSUME StopServices PROVE SaveInv'
  BY <1>25 DEF StopServices, Torn, Phases
<1>26. ASSUME Return PROVE SaveInv'
  BY <1>26 DEF Return, End, Nothing, Phases
<1>27. ASSUME Crash PROVE SaveInv'
  BY <1>27 DEF Crash, End, Nothing, Phases
<1>28. ASSUME Start PROVE SaveInv'
  BY <1>28 DEF Start, Nothing, Phases
<1>29. ASSUME UNCHANGED vars PROVE SaveInv'
  BY <1>29 DEF vars
<1> QED
  BY <1>1, <1>2, <1>3, <1>4, <1>5, <1>6, <1>7, <1>8, <1>9, <1>10, <1>11, <1>12, <1>13, <1>14,
     <1>15, <1>16, <1>17, <1>18, <1>19, <1>20, <1>21, <1>22, <1>23, <1>24, <1>25, <1>26, <1>27, <1>28,
     <1>29
  DEF Next, SaveStep

\* A restart brings back what the last complete save captured (_save, load),
\* for all stores, contents and interleavings of saves, clients and crashes.
THEOREM SavedSurvivesAlways == Spec => []SavedSurvives
<1>1. SaveInv => SavedSurvives
  BY DEF SaveInv, SavedInv, SavedSurvives
<1> QED BY <1>1, InitSaveInv, StepSaveInv, PTL DEF Spec

-----------------------------------------------------------------------------
(* Objects and their bodies                                                *)

\* The first snapshot is not clean.
LEMMA InitBodiesInv == Init => BodiesInv
BY ConstantsAssumption DEF Init, BodiesInv, ObjectsHaveBodies, Nothing, Restored, RestoredBodies

\* Every step of a client, a save or the process keeps the argument.
LEMMA StepBodiesInv == SaveInv /\ BodiesInv /\ [Next]_vars => BodiesInv'
<1> SUFFICES ASSUME SaveInv, BodiesInv, [Next]_vars PROVE BodiesInv'
  OBVIOUS
<1> USE ConstantsAssumption
    DEF SaveInv, Typed, ProcessInv, BodiesInv, ObjectsHaveBodies, Restored, RestoredBodies,
        memory, pending, disk, saving, bounds, history, exit
<1>1. ASSUME NEW s \in Stores, NEW i \in Items, Create(s, i) PROVE BodiesInv'
  BY <1>1 DEF Create, Call
<1>2. ASSUME NEW s \in Stores, NEW i \in Items, Delete(s, i) PROVE BodiesInv'
  BY <1>2 DEF Delete, Call, Drop
<1>3. ASSUME NEW i \in Items, PutBody(i) PROVE BodiesInv'
  BY <1>3 DEF PutBody, Call, Torn
<1>4. ASSUME NEW i \in Items, PutObject(i) PROVE BodiesInv'
  BY <1>4 DEF PutObject
<1>5. ASSUME NEW i \in Items, PutFails(i) PROVE BodiesInv'
  BY <1>5 DEF PutFails, RemoveBody, Torn
<1>6. ASSUME NEW i \in Items, DeleteObject(i) PROVE BodiesInv'
  BY <1>6 DEF DeleteObject, Call, Drop
<1>7. ASSUME NEW i \in Items, DeleteBody(i) PROVE BodiesInv'
  BY <1>7 DEF DeleteBody, RemoveBody, Torn
<1>8. ASSUME ChangeBuckets PROVE BodiesInv'
  BY <1>8 DEF ChangeBuckets
<1>9. ASSUME WipeBodyFiles PROVE BodiesInv'
  BY <1>9 DEF WipeBodyFiles
<1>10. ASSUME WipeFails PROVE BodiesInv'
  BY <1>10 DEF WipeFails, Failure
<1>11. ASSUME NEW i \in Items, StreamBody(i) PROVE BodiesInv'
  BY <1>11 DEF StreamBody
<1>12. ASSUME NEW i \in Items, StreamFails(i) PROVE BodiesInv'
  BY <1>12 DEF StreamFails, Failure
<1>13. ASSUME WriteIndex PROVE BodiesInv'
  BY <1>13 DEF WriteIndex, StreamedAll
<1>14. ASSUME IndexFails PROVE BodiesInv'
  BY <1>14 DEF IndexFails, Failure
<1>15. ASSUME NEW s \in Stores, Dump(s) PROVE BodiesInv'
  BY <1>15 DEF Dump, NextStep
<1>16. ASSUME NEW s \in Stores, DumpFails(s) PROVE BodiesInv'
  BY <1>16 DEF DumpFails, AfterFailure, NextStep, Failure
<1>17. ASSUME WriteManifest PROVE BodiesInv'
  BY <1>17 DEF WriteManifest, EndSave, Phases
<1>18. ASSUME SaveRaises PROVE BodiesInv'
  BY <1>18 DEF SaveRaises, EndSave, Failure, Phases
<1>19. ASSUME Wake PROVE BodiesInv'
  BY <1>19 DEF Wake
<1>20. ASSUME ScheduledSave PROVE BodiesInv'
  <2>1. CASE BeginSave("scheduler")
    BY <1>20, <2>1 DEF ScheduledSave, BeginSave, Phases
  <2>2. CASE UNCHANGED <<saving, disturbed>>
    BY <1>20, <2>2 DEF ScheduledSave
  <2> QED BY <1>20, <2>1, <2>2 DEF ScheduledSave
<1>21. ASSUME ManualSave PROVE BodiesInv'
  BY <1>21 DEF ManualSave, BeginSave, Phases
<1>22. ASSUME FinalSave PROVE BodiesInv'
  <2>1. CASE BeginSave("final") /\ UNCHANGED <<phase, skipped>>
    BY <1>22, <2>1 DEF FinalSave, BeginSave, Phases
  <2>2. CASE phase' = "handled" /\ UNCHANGED <<saving, disturbed>>
    BY <1>22, <2>2 DEF FinalSave
  <2> QED BY <1>22, <2>1, <2>2 DEF FinalSave
<1>23. ASSUME Exit PROVE BodiesInv'
  BY <1>23 DEF Exit, Phases
<1>24. ASSUME NoFinalSave PROVE BodiesInv'
  BY <1>24 DEF NoFinalSave, Phases
<1>25. ASSUME StopServices PROVE BodiesInv'
  BY <1>25 DEF StopServices, Torn, Phases
<1>26. ASSUME Return PROVE BodiesInv'
  BY <1>26 DEF Return, End, Nothing, Phases
<1>27. ASSUME Crash PROVE BodiesInv'
  BY <1>27 DEF Crash, End, Nothing, Phases
<1>28. ASSUME Start PROVE BodiesInv'
  BY <1>28 DEF Start, Nothing, Phases
<1>29. ASSUME UNCHANGED vars PROVE BodiesInv'
  BY <1>29 DEF vars
<1> QED
  BY <1>1, <1>2, <1>3, <1>4, <1>5, <1>6, <1>7, <1>8, <1>9, <1>10, <1>11, <1>12, <1>13, <1>14,
     <1>15, <1>16, <1>17, <1>18, <1>19, <1>20, <1>21, <1>22, <1>23, <1>24, <1>25, <1>26, <1>27, <1>28,
     <1>29
  DEF Next, SaveStep

\* Every object of an undisturbed snapshot has its body (_save_s3_bodies and
\* _restore_s3_bodies), however many objects, saves, crashes and restarts.
THEOREM ObjectsHaveBodiesAlways == Spec => []ObjectsHaveBodies
<1>1. BodiesInv => ObjectsHaveBodies
  BY DEF BodiesInv
<1> QED BY <1>1, InitSaveInv, StepSaveInv, InitBodiesInv, StepBodiesInv, PTL DEF Spec

-----------------------------------------------------------------------------
(* An orderly shutdown                                                     *)

\* No shutdown has begun.
LEMMA InitShutdownInv == Init => ShutdownInv
BY DEF Init, ShutdownInv, Nothing

\* Every step of a client, a save or the process keeps the argument.
LEMMA StepShutdownInv == SaveInv /\ ShutdownInv /\ [Next]_vars => ShutdownInv'
<1> SUFFICES ASSUME SaveInv, ShutdownInv, [Next]_vars PROVE ShutdownInv'
  OBVIOUS
<1> USE ConstantsAssumption
    DEF SaveInv, Typed, ProcessInv, ShutdownInv, Kept, Shut, Restored,
        memory, pending, disk, saving, bounds, history, exit
<1>1. ASSUME NEW s \in Stores, NEW i \in Items, Create(s, i) PROVE ShutdownInv'
  BY <1>1 DEF Create, Call
<1>2. ASSUME NEW s \in Stores, NEW i \in Items, Delete(s, i) PROVE ShutdownInv'
  BY <1>2 DEF Delete, Call, Drop
<1>3. ASSUME NEW i \in Items, PutBody(i) PROVE ShutdownInv'
  BY <1>3 DEF PutBody, Call, Torn
<1>4. ASSUME NEW i \in Items, PutObject(i) PROVE ShutdownInv'
  BY <1>4 DEF PutObject
<1>5. ASSUME NEW i \in Items, PutFails(i) PROVE ShutdownInv'
  BY <1>5 DEF PutFails, RemoveBody, Torn
<1>6. ASSUME NEW i \in Items, DeleteObject(i) PROVE ShutdownInv'
  BY <1>6 DEF DeleteObject, Call, Drop
<1>7. ASSUME NEW i \in Items, DeleteBody(i) PROVE ShutdownInv'
  BY <1>7 DEF DeleteBody, RemoveBody, Torn
<1>8. ASSUME ChangeBuckets PROVE ShutdownInv'
  BY <1>8 DEF ChangeBuckets
<1>9. ASSUME WipeBodyFiles PROVE ShutdownInv'
  BY <1>9 DEF WipeBodyFiles
<1>10. ASSUME WipeFails PROVE ShutdownInv'
  BY <1>10 DEF WipeFails, Failure
<1>11. ASSUME NEW i \in Items, StreamBody(i) PROVE ShutdownInv'
  BY <1>11 DEF StreamBody
<1>12. ASSUME NEW i \in Items, StreamFails(i) PROVE ShutdownInv'
  BY <1>12 DEF StreamFails, Failure
<1>13. ASSUME WriteIndex PROVE ShutdownInv'
  BY <1>13 DEF WriteIndex, StreamedAll
<1>14. ASSUME IndexFails PROVE ShutdownInv'
  BY <1>14 DEF IndexFails, Failure
<1>15. ASSUME NEW s \in Stores, Dump(s) PROVE ShutdownInv'
  BY <1>15 DEF Dump, NextStep
<1>16. ASSUME NEW s \in Stores, DumpFails(s) PROVE ShutdownInv'
  BY <1>16 DEF DumpFails, AfterFailure, NextStep, Failure
<1>17. ASSUME WriteManifest PROVE ShutdownInv'
  BY <1>17 DEF WriteManifest, EndSave, Phases
<1>18. ASSUME SaveRaises PROVE ShutdownInv'
  BY <1>18 DEF SaveRaises, EndSave, Failure, Phases
<1>19. ASSUME Wake PROVE ShutdownInv'
  BY <1>19 DEF Wake
<1>20. ASSUME ScheduledSave PROVE ShutdownInv'
  BY <1>20 DEF ScheduledSave, BeginSave, Phases
<1>21. ASSUME ManualSave PROVE ShutdownInv'
  BY <1>21 DEF ManualSave, BeginSave, Phases
<1>22. ASSUME FinalSave PROVE ShutdownInv'
  BY <1>22 DEF FinalSave, BeginSave, Phases
<1>23. ASSUME Exit PROVE ShutdownInv'
  BY <1>23 DEF Exit, Phases
<1>24. ASSUME NoFinalSave PROVE ShutdownInv'
  BY <1>24 DEF NoFinalSave, Phases
<1>25. ASSUME StopServices PROVE ShutdownInv'
  BY <1>25 DEF StopServices, Torn, Phases
<1>26. ASSUME Return PROVE ShutdownInv'
  BY <1>26 DEF Return, End, Nothing, Phases
<1>27. ASSUME Crash PROVE ShutdownInv'
  BY <1>27 DEF Crash, End, Nothing, Phases
<1>28. ASSUME Start PROVE ShutdownInv'
  BY <1>28 DEF Start, Nothing, Phases
<1>29. ASSUME UNCHANGED vars PROVE ShutdownInv'
  BY <1>29 DEF vars
<1> QED
  BY <1>1, <1>2, <1>3, <1>4, <1>5, <1>6, <1>7, <1>8, <1>9, <1>10, <1>11, <1>12, <1>13, <1>14,
     <1>15, <1>16, <1>17, <1>18, <1>19, <1>20, <1>21, <1>22, <1>23, <1>24, <1>25, <1>26, <1>27, <1>28,
     <1>29
  DEF Next, SaveStep

\* The final save keeps what was there when the shutdown began, unless it is
\* skipped or fails (_stop_and_save and the lambda of ON_SHUTDOWN).
THEOREM ShutdownSavesAlways == Spec => []ShutdownSaves
<1>1. ShutdownInv => ShutdownSaves
  BY DEF ShutdownInv, ShutdownSaves, Kept, Shut
<1> QED BY <1>1, InitSaveInv, StepSaveInv, InitShutdownInv, StepShutdownInv, PTL DEF Spec

-----------------------------------------------------------------------------
(* Types                                                                   *)

\* The empty state is well typed.
LEMMA InitTypeOK == Init => TypeOK
<1> SUFFICES ASSUME Init PROVE TypeOK
  OBVIOUS
<1>1. /\ live \in [Stores -> SUBSET Items] /\ file \in [Stores -> SUBSET Items]
      /\ completed \in [Stores -> SUBSET Items] /\ atExit \in [Stores -> SUBSET Items]
  BY DEF Init, Nothing
<1>2. calls \in 0..MaxCalls /\ failures \in 0..MaxFailures /\ ends \in 0..MaxEnds
  BY ConstantsAssumption DEF Init
<1>3. {disturbed, clean, skipped, failed, late, orderly} \subseteq BOOLEAN /\ torn \in BOOLEAN
  BY DEF Init
<1>4. todo \subseteq IF step = "stream" THEN Items ELSE Stores
  BY DEF Init
<1> QED BY <1>1, <1>2, <1>3, <1>4 DEF Init, TypeOK, Phases

\* Every step of a client, a save or the process keeps the types.
LEMMA StepTypeOK == TypeOK /\ [Next]_vars => TypeOK'
<1> SUFFICES ASSUME TypeOK, [Next]_vars PROVE TypeOK'
  OBVIOUS
<1> USE ConstantsAssumption
    DEF TypeOK, memory, pending, disk, saving, bounds, history, exit
<1>1. ASSUME NEW s \in Stores, NEW i \in Items, Create(s, i) PROVE TypeOK'
  BY <1>1 DEF Create, Call
<1>2. ASSUME NEW s \in Stores, NEW i \in Items, Delete(s, i) PROVE TypeOK'
  BY <1>2 DEF Delete, Call, Drop
<1>3. ASSUME NEW i \in Items, PutBody(i) PROVE TypeOK'
  <2>1. /\ {disturbed', clean', skipped', failed', late', orderly'} \subseteq BOOLEAN
        /\ torn' \in BOOLEAN
    BY <1>3 DEF PutBody, Call, Torn
  <2> QED BY <1>3, <2>1 DEF PutBody, Call, Torn
<1>4. ASSUME NEW i \in Items, PutObject(i) PROVE TypeOK'
  BY <1>4 DEF PutObject
<1>5. ASSUME NEW i \in Items, PutFails(i) PROVE TypeOK'
  BY <1>5 DEF PutFails, RemoveBody, Torn
<1>6. ASSUME NEW i \in Items, DeleteObject(i) PROVE TypeOK'
  BY <1>6 DEF DeleteObject, Call, Drop
<1>7. ASSUME NEW i \in Items, DeleteBody(i) PROVE TypeOK'
  BY <1>7 DEF DeleteBody, RemoveBody, Torn
<1>8. ASSUME ChangeBuckets PROVE TypeOK'
  BY <1>8 DEF ChangeBuckets
<1>9. ASSUME WipeBodyFiles PROVE TypeOK'
  BY <1>9 DEF WipeBodyFiles
<1>10. ASSUME WipeFails PROVE TypeOK'
  <2>1. failures' \in 0..MaxFailures
    BY <1>10 DEF WipeFails, Failure
  <2>2. bodyFiles' \subseteq Items /\ index' \subseteq Items
    BY <1>10 DEF WipeFails
  <2>3. /\ {disturbed', clean', skipped', failed', late', orderly'} \subseteq BOOLEAN
        /\ torn' \in BOOLEAN
    BY <1>10 DEF WipeFails
  <2> QED BY <1>10, <2>1, <2>2, <2>3 DEF WipeFails
<1>11. ASSUME NEW i \in Items, StreamBody(i) PROVE TypeOK'
  BY <1>11 DEF StreamBody
<1>12. ASSUME NEW i \in Items, StreamFails(i) PROVE TypeOK'
  BY <1>12 DEF StreamFails, Failure
<1>13. ASSUME WriteIndex PROVE TypeOK'
  BY <1>13 DEF WriteIndex, StreamedAll
<1>14. ASSUME IndexFails PROVE TypeOK'
  BY <1>14 DEF IndexFails, Failure
<1>15. ASSUME NEW s \in Stores, Dump(s) PROVE TypeOK'
  BY <1>15 DEF Dump, NextStep
<1>16. ASSUME NEW s \in Stores, DumpFails(s) PROVE TypeOK'
  BY <1>16 DEF DumpFails, AfterFailure, NextStep, Failure
<1>17. ASSUME WriteManifest PROVE TypeOK'
  BY <1>17 DEF WriteManifest, EndSave, Phases
<1>18. ASSUME SaveRaises PROVE TypeOK'
  <2>1. failures' \in 0..MaxFailures
    BY <1>18 DEF SaveRaises, Failure
  <2>2. /\ {disturbed', clean', skipped', failed', late', orderly'} \subseteq BOOLEAN
        /\ torn' \in BOOLEAN
    BY <1>18 DEF SaveRaises, EndSave
  <2> QED BY <1>18, <2>1, <2>2 DEF SaveRaises, EndSave, Phases
<1>19. ASSUME Wake PROVE TypeOK'
  BY <1>19 DEF Wake
<1>20. ASSUME ScheduledSave PROVE TypeOK'
  BY <1>20 DEF ScheduledSave, BeginSave, Phases
<1>21. ASSUME ManualSave PROVE TypeOK'
  BY <1>21 DEF ManualSave, BeginSave, Phases
<1>22. ASSUME FinalSave PROVE TypeOK'
  BY <1>22 DEF FinalSave, BeginSave, Phases
<1>23. ASSUME Exit PROVE TypeOK'
  BY <1>23 DEF Exit, Phases
<1>24. ASSUME NoFinalSave PROVE TypeOK'
  BY <1>24 DEF NoFinalSave, Phases
<1>25. ASSUME StopServices PROVE TypeOK'
  BY <1>25 DEF StopServices, Torn, Phases
<1>26. ASSUME Return PROVE TypeOK'
  BY <1>26 DEF Return, End, Nothing, Phases
<1>27. ASSUME Crash PROVE TypeOK'
  <2>1. ends' \in 0..MaxEnds
    BY <1>27 DEF Crash
  <2>2. live' \in [Stores -> SUBSET Items]
    BY <1>27 DEF Crash, End, Nothing
  <2>3. /\ {disturbed', clean', skipped', failed', late', orderly'} \subseteq BOOLEAN
        /\ torn' \in BOOLEAN
    BY <1>27 DEF Crash, End
  <2> QED BY <1>27, <2>1, <2>2, <2>3 DEF Crash, End, Phases
<1>28. ASSUME Start PROVE TypeOK'
  <2>1. /\ live' \in [Stores -> SUBSET Items] /\ bodies' \subseteq Items
        /\ atExit' \in [Stores -> SUBSET Items]
    BY <1>28 DEF Start, Restored, RestoredBodies, Nothing
  <2>2. lost' \subseteq Items
    BY <1>28, <2>1 DEF Start
  <2> QED BY <1>28, <2>1, <2>2 DEF Start, Phases
<1>29. ASSUME UNCHANGED vars PROVE TypeOK'
  BY <1>29 DEF vars
<1> QED
  BY <1>1, <1>2, <1>3, <1>4, <1>5, <1>6, <1>7, <1>8, <1>9, <1>10, <1>11, <1>12, <1>13, <1>14,
     <1>15, <1>16, <1>17, <1>18, <1>19, <1>20, <1>21, <1>22, <1>23, <1>24, <1>25, <1>26, <1>27, <1>28,
     <1>29
  DEF Next, SaveStep

\* The state of memory, disk and saves is well typed; among it, the lock is held
\* exactly during a save.
THEOREM TypeCorrect == Spec => []TypeOK
BY InitTypeOK, StepTypeOK, PTL DEF Spec
==============================================================================
