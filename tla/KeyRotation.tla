---------------------------- MODULE KeyRotation -----------------------------
(***************************************************************************)
(* Moving every sealed document to the active key: the sweep in batches,   *)
(* the run that persists its progress, the restarts that interrupt it, and *)
(* the verification that a key may be retired (services/rotation.ts,       *)
(* keys.controller.ts, models/KeyRotationRun.ts).                          *)
(*                                                                         *)
(* Keys and documents are numbered in their order.  One scope is modelled, *)
(* and its collections, swept one after the other, are one list.  A        *)
(* restart ends every handler and driver of the one process there is.      *)
(***************************************************************************)
EXTENDS Naturals, FiniteSets, FiniteSetsExt, Nothing

CONSTANTS
  DocCount,      \* the documents of the scope
  Batch,         \* BATCH
  Runs,          \* KeyRotationRun documents
  Admins,        \* the administrators' requests
  MaxKeys,       \* bound: the newest key that is ever made active
  MaxErrors,     \* bound: batches the database refuses
  MaxEdits,      \* bound: edits of the documents
  MaxRestarts    \* bound: restarts of the process

ASSUME RotationAssumption ==
  /\ DocCount \in Nat /\ Batch \in Nat \ {0}
  /\ MaxKeys \in Nat \ {0} /\ MaxErrors \in Nat /\ MaxEdits \in Nat /\ MaxRestarts \in Nat
  /\ None \notin Runs

VARIABLES
  activeKey,     \* DATA_KEY_ACTIVE of the process
  doc,           \* each document: its oldest encV, whether it can be read, and what it says
  run,           \* each run: status, cursor, done, failures, toVersion
  driver,        \* `running` and the loop of driveRotation: its copy and its batch
  admin,         \* each request: how far, its run, and what it read
  errors,        \* batches refused so far
  edits,         \* edits so far
  restarts,      \* restarts so far
  verifiedKey,   \* history: the key a run was verified for
  latest,        \* history: what was last saved in each document
  overtaken      \* history: the documents last saved while a sweep had them in hand

history == <<verifiedKey, latest, overtaken>>

rotationVars == <<activeKey, doc, run, driver, admin, errors, edits, restarts, history>>

Docs == 1..DocCount
Keys == 0..MaxKeys

\* The sealed fields a document says: which of its edits they are from.
Contents == 0..MaxEdits

Document == [key : Keys, readable : BOOLEAN, content : Contents]

RunStatus == {"NONE", "RUNNING", "PAUSED", "COMPLETED", "VERIFIED"}

\* A failure names a document, or none of them: documentId "-".
Failures == SUBSET (Docs \cup {0})

Run == [status : RunStatus, cursor : 0..DocCount, done : BOOLEAN, failures : Failures,
        toVersion : Keys]
Driver == [stage : {"none", "loading", "finding", "writing", "saving", "completing", "pausing"},
           cursor : 0..DocCount, done : BOOLEAN, found : Failures, batch : SUBSET Docs,
           copy : [Docs -> Contents]]
Admin == [stage : {"idle", "starting", "resuming", "counting", "verifying"},
          on : Runs \cup {None}, status : RunStatus, failed : BOOLEAN, outstanding : 0..DocCount]

RotationTypeOK ==
  /\ activeKey \in Keys
  /\ doc \in [Docs -> Document]
  /\ run \in [Runs -> Run]
  /\ driver \in [Runs -> Driver]
  /\ admin \in [Admins -> Admin]
  /\ errors \in 0..MaxErrors /\ edits \in 0..MaxEdits /\ restarts \in 0..MaxRestarts
  /\ verifiedKey \in [Runs -> Keys]
  /\ latest \in [Docs -> Contents] /\ overtaken \in SUBSET Docs

NoRun == [status |-> "NONE", cursor |-> 0, done |-> FALSE, failures |-> {}, toVersion |-> 0]
NoCopy == [d \in Docs |-> 0]
NoDriver == [stage |-> "none", cursor |-> 0, done |-> FALSE, found |-> {}, batch |-> {},
             copy |-> NoCopy]
NoRequest == [stage |-> "idle", on |-> None, status |-> "NONE", failed |-> FALSE, outstanding |-> 0]

\* The newest key has just been made active; a document may be unreadable.
RotationInit ==
  /\ activeKey = 1
  /\ doc \in [Docs -> [key : {0}, readable : BOOLEAN, content : {0}]]
  /\ run = [u \in Runs |-> NoRun]
  /\ driver = [u \in Runs |-> NoDriver]
  /\ admin = [a \in Admins |-> NoRequest]
  /\ errors = 0 /\ edits = 0 /\ restarts = 0
  /\ verifiedKey = [u \in Runs |-> 0]
  /\ latest = [d \in Docs |-> 0] /\ overtaken = {}

\* staleUserFilter, outstandingCount
Stale == {d \in Docs : doc[d].key # activeKey}

-----------------------------------------------------------------------------
(* driveRotation *)

Drives(u, stage) == driver[u].stage = stage

DriveTo(u, stage) == driver' = [driver EXCEPT ![u] = [driver[u] EXCEPT !.stage = stage]]

\* The top of the loop: a run that is not RUNNING is left to itself.
LoadRun(u) ==
  /\ Drives(u, "loading")
  /\ driver' = [driver EXCEPT ![u] =
       IF run[u].status # "RUNNING" THEN NoDriver
       ELSE [stage |-> IF run[u].done THEN "completing" ELSE "finding",
             cursor |-> run[u].cursor, done |-> run[u].done, found |-> {}, batch |-> {},
             copy |-> NoCopy]]
  /\ UNCHANGED <<activeKey, doc, run, admin, errors, edits, restarts, history>>

\* The first stale documents behind the cursor.
NextBatch(cursor) ==
  LET behind == {d \in Stale : d > cursor}
  IN  {d \in behind : Cardinality({e \in behind : e < d}) < Batch}

\* (mutant) The batch is read from a copy of the collection older than the edits.
ReadOldCopies(batch) == [d \in Docs |-> 0]

\* What is read of a batch.
Copies(batch) == [d \in Docs |-> IF d \in batch THEN doc[d].content ELSE 0]

\* (mutant) The progress is saved before the batch is written.
FindAndAdvance(u) ==
  LET batch == NextBatch(driver[u].cursor)
      unreadable == {d \in batch : ~doc[d].readable}
  IN
  /\ Drives(u, "finding")
  /\ driver' = [driver EXCEPT ![u] =
       IF batch = {} THEN [driver[u] EXCEPT !.stage = "saving", !.done = TRUE]
       ELSE [driver[u] EXCEPT !.stage = IF batch = unreadable THEN "saving" ELSE "writing",
               !.cursor = Max(batch),
               !.found = unreadable, !.batch = batch \ unreadable,
               !.copy = Copies(batch \ unreadable)]]
  /\ run' = [run EXCEPT ![u] = IF batch = {} THEN run[u]
                               ELSE [run[u] EXCEPT !.cursor = Max(batch)]]
  /\ UNCHANGED <<activeKey, doc, admin, errors, edits, restarts, history>>

\* rotateUserBatch: the batch is read; an empty one is the end of the collection,
\* and an unreadable document is recorded and passed over.
FindBatch(u) ==
  LET batch == NextBatch(driver[u].cursor)
      unreadable == {d \in batch : ~doc[d].readable}
  IN
  /\ Drives(u, "finding")
  /\ driver' = [driver EXCEPT ![u] =
       IF batch = {} THEN [driver[u] EXCEPT !.stage = "saving", !.done = TRUE]
       ELSE [driver[u] EXCEPT !.stage = IF batch = unreadable THEN "saving" ELSE "writing",
               !.cursor = Max(batch),
               !.found = unreadable, !.batch = batch \ unreadable,
               !.copy = Copies(batch \ unreadable)]]
  /\ UNCHANGED <<activeKey, doc, run, admin, errors, edits, restarts, history>>

\* What was read of a batch ends with its function.
LeaveBatch(u, stage) ==
  driver' = [driver EXCEPT ![u] = [driver[u] EXCEPT !.stage = stage, !.batch = {}, !.copy = NoCopy]]

\* bulkWrite: one document after the other is set by its _id alone to what was read of
\* it, sealed with the active key.
WriteDocument(u) ==
  LET d == Min(driver[u].batch) IN
  /\ Drives(u, "writing")
  /\ doc' = [doc EXCEPT ![d] = [doc[d] EXCEPT !.key = activeKey, !.content = driver[u].copy[d]]]
  /\ IF driver[u].batch = {d} THEN LeaveBatch(u, "saving")
     ELSE driver' = [driver EXCEPT ![u] = [driver[u] EXCEPT !.batch = driver[u].batch \ {d}]]
  /\ UNCHANGED <<activeKey, run, admin, errors, edits, restarts, history>>

\* The database refuses the batch, read or what is left of it to write.
RefuseBatch(u) ==
  /\ Drives(u, "finding") \/ Drives(u, "writing")
  /\ errors < MaxErrors
  /\ errors' = errors + 1
  /\ LeaveBatch(u, "pausing")
  /\ UNCHANGED <<activeKey, doc, run, admin, edits, restarts, history>>

Pause(u) ==
  /\ Drives(u, "pausing")
  /\ run' = [run EXCEPT ![u] = [run[u] EXCEPT !.status = "PAUSED",
               !.failures = run[u].failures \cup driver[u].found \cup {0}]]
  /\ driver' = [driver EXCEPT ![u] = NoDriver]
  /\ UNCHANGED <<activeKey, doc, admin, errors, edits, restarts, history>>

\* run.save: the progress and the new failures; the status is not modified.
SaveProgress(u) ==
  /\ Drives(u, "saving")
  /\ run' = [run EXCEPT ![u] = [run[u] EXCEPT !.cursor = driver[u].cursor,
               !.done = driver[u].done, !.failures = run[u].failures \cup driver[u].found]]
  /\ DriveTo(u, "loading")
  /\ UNCHANGED <<activeKey, doc, admin, errors, edits, restarts, history>>

Complete(u) ==
  /\ Drives(u, "completing")
  /\ run' = [run EXCEPT ![u] = [run[u] EXCEPT !.status = "COMPLETED"]]
  /\ driver' = [driver EXCEPT ![u] = NoDriver]
  /\ UNCHANGED <<activeKey, doc, admin, errors, edits, restarts, history>>

-----------------------------------------------------------------------------
(* keys.controller.ts *)

\* driveRotation: the loop starts unless `running` holds the run.
StartDriver(u) ==
  driver' = IF Drives(u, "none")
            THEN [driver EXCEPT ![u] = [NoDriver EXCEPT !.stage = "loading"]] ELSE driver

\* createRotation: no open run, and something to convert.
AskRotation(a) ==
  /\ admin[a].stage = "idle"
  /\ \A u \in Runs : run[u].status \notin {"RUNNING", "PAUSED"}
  /\ Stale # {}
  /\ admin' = [admin EXCEPT ![a] = [NoRequest EXCEPT !.stage = "starting"]]
  /\ UNCHANGED <<activeKey, doc, run, driver, errors, edits, restarts, history>>

StartRotation(a, u) ==
  /\ admin[a].stage = "starting"
  /\ run[u].status = "NONE"
  /\ run' = [run EXCEPT ![u] = [NoRun EXCEPT !.status = "RUNNING", !.toVersion = activeKey]]
  /\ StartDriver(u)
  /\ admin' = [admin EXCEPT ![a] = NoRequest]
  /\ UNCHANGED <<activeKey, doc, errors, edits, restarts, history>>

\* resumeRotation: refused for a run that has ended.
AskResume(a, u) ==
  /\ admin[a].stage = "idle"
  /\ run[u].status \in {"RUNNING", "PAUSED"}
  /\ admin' = [admin EXCEPT ![a] =
       [NoRequest EXCEPT !.stage = "resuming", !.on = u, !.status = run[u].status]]
  /\ UNCHANGED <<activeKey, doc, run, driver, errors, edits, restarts, history>>

\* (mutant) Only the status is set again.
ResumeWithoutDriver(a) ==
  /\ admin[a].stage = "resuming"
  /\ run' = [run EXCEPT ![admin[a].on] = [run[admin[a].on] EXCEPT
       !.status = IF admin[a].status = "RUNNING" THEN run[admin[a].on].status ELSE "RUNNING"]]
  /\ admin' = [admin EXCEPT ![a] = NoRequest]
  /\ UNCHANGED <<activeKey, doc, driver, errors, edits, restarts, history>>

\* The save writes the status only if the copy's was another.
ResumeRotation(a) ==
  /\ admin[a].stage = "resuming"
  /\ run' = [run EXCEPT ![admin[a].on] = [run[admin[a].on] EXCEPT
       !.status = IF admin[a].status = "RUNNING" THEN run[admin[a].on].status ELSE "RUNNING"]]
  /\ StartDriver(admin[a].on)
  /\ admin' = [admin EXCEPT ![a] = NoRequest]
  /\ UNCHANGED <<activeKey, doc, errors, edits, restarts, history>>

\* verifyRotation: the run is read, then the stale documents are counted.
AskVerify(a, u) ==
  /\ admin[a].stage = "idle"
  /\ run[u].status # "NONE"
  /\ admin' = [admin EXCEPT ![a] = [NoRequest EXCEPT !.stage = "counting", !.on = u,
                 !.status = run[u].status, !.failed = run[u].failures # {}]]
  /\ UNCHANGED <<activeKey, doc, run, driver, errors, edits, restarts, history>>

CountOutstanding(a) ==
  /\ admin[a].stage = "counting"
  /\ admin' = [admin EXCEPT ![a] =
       [admin[a] EXCEPT !.stage = "verifying", !.outstanding = Cardinality(Stale)]]
  /\ UNCHANGED <<activeKey, doc, run, driver, errors, edits, restarts, history>>

Verify(a, verified) ==
  /\ admin[a].stage = "verifying"
  /\ IF verified
     THEN /\ run' = [run EXCEPT ![admin[a].on] = [run[admin[a].on] EXCEPT !.status = "VERIFIED"]]
          /\ verifiedKey' = [verifiedKey EXCEPT ![admin[a].on] = activeKey]
     ELSE UNCHANGED <<run, verifiedKey>>
  /\ admin' = [admin EXCEPT ![a] = NoRequest]
  /\ UNCHANGED <<activeKey, doc, driver, errors, edits, restarts, latest, overtaken>>

VerifyRotation(a) ==
  Verify(a, admin[a].outstanding = 0 /\ ~admin[a].failed /\ admin[a].status = "COMPLETED")

-----------------------------------------------------------------------------
(* The surroundings *)

\* A sweep has read the document and not written it back yet.
InHand(d) == \E u \in Runs : Drives(u, "writing") /\ d \in driver[u].batch

\* A user saves one of the parts the document may have, a profile or the billing details,
\* sealed with the active key.  Another part keeps its own: the oldest key of the document
\* is the one that counts for the sweep.
EditDocument(d) ==
  /\ doc[d].readable
  /\ edits < MaxEdits
  /\ edits' = edits + 1
  /\ \E key \in doc[d].key .. activeKey :
       doc' = [doc EXCEPT ![d] = [doc[d] EXCEPT !.key = key, !.content = edits + 1]]
  /\ latest' = [latest EXCEPT ![d] = edits + 1]
  /\ overtaken' = IF InHand(d) THEN overtaken \cup {d} ELSE overtaken \ {d}
  /\ UNCHANGED <<activeKey, run, driver, admin, errors, restarts, verifiedKey>>

\* Someone deals with an unreadable document: it is sealed anew.
RepairDocument(d) ==
  /\ ~doc[d].readable
  /\ doc' = [doc EXCEPT ![d] = [doc[d] EXCEPT !.key = activeKey, !.readable = TRUE]]
  /\ UNCHANGED <<activeKey, run, driver, admin, errors, edits, restarts, history>>

\* The host restarts, perhaps deployed with a newer key: handlers and drivers end.
Restart ==
  /\ restarts < MaxRestarts
  /\ restarts' = restarts + 1
  /\ activeKey' \in activeKey..MaxKeys
  /\ driver' = [u \in Runs |-> NoDriver]
  /\ admin' = [a \in Admins |-> NoRequest]
  /\ UNCHANGED <<doc, run, errors, edits, history>>

DriverStep(u) ==
  \/ LoadRun(u) \/ FindBatch(u) \/ WriteDocument(u)
  \/ Pause(u) \/ SaveProgress(u) \/ Complete(u)

RotationNext ==
  \/ \E u \in Runs : DriverStep(u) \/ RefuseBatch(u)
  \/ \E a \in Admins : AskRotation(a) \/ ResumeRotation(a) \/ CountOutstanding(a) \/ VerifyRotation(a)
  \/ \E a \in Admins, u \in Runs : StartRotation(a, u) \/ AskResume(a, u) \/ AskVerify(a, u)
  \/ \E d \in Docs : EditDocument(d) \/ RepairDocument(d)
  \/ Restart

RotationSpec == RotationInit /\ [][RotationNext]_rotationVars

\* The process runs its handlers and drivers; "this restarts the loop from the stored
\* cursor": an administrator sees a run that is open and resumes it.
AdminStep(a) ==
  \/ \E u \in Runs : StartRotation(a, u)
  \/ ResumeRotation(a) \/ CountOutstanding(a) \/ VerifyRotation(a)

RotationFairness ==
  /\ \A u \in Runs : WF_rotationVars(DriverStep(u))
  /\ \A a \in Admins : WF_rotationVars(AdminStep(a))
  /\ \A u \in Runs : SF_rotationVars(\E a \in Admins : AskResume(a, u))

RotationFairSpec == RotationSpec /\ RotationFairness

-----------------------------------------------------------------------------
(* Properties *)

\* "VERIFIED is the evidence that it is safe" to retire the keys before the active
\* one (keys.controller.ts): no document is on one, whatever restarts with newer keys
\* and resumed sweeps came between.
VerifiedMeansNoneOlder ==
  \A u \in Runs : run[u].status = "VERIFIED" => \A d \in Docs : doc[d].key >= verifiedKey[u]

\* A sweep that ran to its end converted everything but what it recorded, however
\* often it was interrupted: "progress is persisted per batch, so an interruption is
\* a pause" (rotation.ts).
CompletedConverted ==
  \A u \in Runs : run[u].status \in {"COMPLETED", "VERIFIED"} =>
    \A d \in Docs : doc[d].key >= run[u].toVersion \/ d \in run[u].failures

\* What a run says of the documents is true (rotation.ts, keys.controller.ts).
RunsTellTheTruth == VerifiedMeansNoneOlder /\ CompletedConverted

\* The sweep "reads each record ... and writes it back" (rotation.ts) and leaves what
\* the users saved alone: a document says what was last saved in it, unless a sweep had
\* read it before that and writes it back after (rotateUserBatch sets by _id only).
EditsSurvive == \A d \in Docs \ overtaken : doc[d].content = latest[d]

\* What a sweep says of the documents is true, and it changes none of them.
SweepsAreSound == RunsTellTheTruth /\ EditsSurvive

\* A run that was started ends, if the restarts do.
RotationEnds ==
  \A u \in Runs : run[u].status \in {"RUNNING", "PAUSED"} ~> run[u].status \in {"COMPLETED", "VERIFIED"}
=============================================================================
