------------------------- MODULE KeyRotationProofs --------------------------
(***************************************************************************)
(* Proofs about KeyRotation, for every number of documents, batch size,    *)
(* set of runs and of administrators, and any number of refused batches,   *)
(* restarts and keys: what a run says of the documents is true.            *)
(*                                                                         *)
(* The argument: behind its cursor a run has converted everything but the  *)
(* failures it recorded, because a key never gets older; a driver that has *)
(* moved its own cursor on owes the batch it has not written and the       *)
(* failures it has not saved; and a count of no outstanding documents      *)
(* stays true as long as the process that counted them lives.              *)
(***************************************************************************)
EXTENDS KeyRotation, FiniteSetTheorems, WellFoundedInduction, TLAPS

-----------------------------------------------------------------------------
(* The inductive invariant *)

USE DEF history

\* Up to c, every document that is not one of F has the key run u converts to.
Covered(u, c, F) ==
  \A d \in Docs : d <= c => doc[d].key >= run[u].toVersion \/ d \in F

\* No document is on a key that was never active.
KeysBehind == \A d \in Docs : doc[d].key <= activeKey

RunSound(u) ==
  /\ run[u].toVersion <= activeKey
  /\ Covered(u, run[u].cursor, run[u].failures)
  /\ run[u].done => Covered(u, DocCount, run[u].failures)
  /\ run[u].status \in {"COMPLETED", "VERIFIED"} => run[u].done
  /\ run[u].status = "VERIFIED" => \A d \in Docs : doc[d].key >= verifiedKey[u]

\* What the driver has done beyond what its run says.
DriverSound(u) ==
  /\ driver[u].stage # "none" => run[u].status # "NONE"
  /\ driver[u].stage \in {"finding", "writing", "saving"} => ~run[u].done
  /\ driver[u].stage = "completing" => run[u].done
  /\ driver[u].stage = "writing" => driver[u].batch # {}
  /\ driver[u].stage \in {"finding", "writing"} => ~driver[u].done
  /\ driver[u].stage = "finding" => Covered(u, driver[u].cursor, run[u].failures)
  /\ driver[u].stage = "writing" =>
       Covered(u, driver[u].cursor, run[u].failures \cup driver[u].found \cup driver[u].batch)
  /\ driver[u].stage = "saving" =>
       /\ Covered(u, driver[u].cursor, run[u].failures \cup driver[u].found)
       /\ driver[u].done => Covered(u, DocCount, run[u].failures \cup driver[u].found)

\* What a request has read and still relies on.
AdminSound(a) ==
  /\ admin[a].stage \in {"resuming", "counting", "verifying"} =>
       admin[a].on \in Runs /\ run[admin[a].on].status # "NONE"
  /\ admin[a].stage \in {"counting", "verifying"} /\ admin[a].status = "COMPLETED" =>
       run[admin[a].on].done
  /\ admin[a].stage = "verifying" /\ admin[a].outstanding = 0 =>
       \A d \in Docs : doc[d].key = activeKey

IInv ==
  /\ RotationTypeOK
  /\ KeysBehind
  /\ \A u \in Runs : RunSound(u) /\ DriverSound(u)
  /\ \A a \in Admins : AdminSound(a)

-----------------------------------------------------------------------------
(* Batches *)

LEMMA Least ==
  ASSUME NEW S \in SUBSET Nat, S # {}
  PROVE  \E x \in S : \A y \in S : x <= y
<1> DEFINE less == OpToRel(<, Nat)
<1>1. \A x, y \in Nat : <<y, x>> \in less <=> y < x
  BY DEF OpToRel
<1>2. IsWellFoundedOn(less, Nat)
  BY NatLessThanWellFounded
<1> HIDE DEF less
<1>3. PICK x \in S : \A y \in S : ~(<<y, x>> \in less)
  BY <1>2, WFMin
<1>4. ASSUME NEW y \in S
      PROVE  x <= y
  <2>1. x \in Nat /\ y \in Nat
    OBVIOUS
  <2>2. ~(y < x)
    BY <1>1, <1>3, <2>1
  <2> QED
    BY <2>1, <2>2
<1> QED
  BY <1>4

LEMMA Greatest ==
  ASSUME NEW S \in SUBSET Docs, S # {}
  PROVE  Max(S) \in S /\ \A y \in S : Max(S) >= y
<1> DEFINE Below == {DocCount - x : x \in S}
<1>0. DocCount \in Nat /\ \A x \in S : x \in Nat /\ DocCount - x \in Nat
  BY RotationAssumption DEF Docs
<1>1. Below \in SUBSET Nat /\ Below # {}
  BY <1>0
<1>2. PICK b \in Below : \A y \in Below : b <= y
  BY <1>1, Least
<1>3. PICK x \in S : b = DocCount - x
  OBVIOUS
<1>4. ASSUME NEW y \in S
      PROVE  x >= y
  <2>1. DocCount - x <= DocCount - y
    BY <1>2, <1>3
  <2> QED
    BY <1>0, <2>1
<1> QED
  BY <1>4 DEF Max

\* A batch is made of stale documents and skips none, and an empty one is the end.
LEMMA BatchSkipsNone ==
  ASSUME RotationTypeOK, NEW c \in 0..DocCount
  PROVE  /\ NextBatch(c) \in SUBSET Docs
         /\ NextBatch(c) = {} => \A d \in Docs : d > c => doc[d].key = activeKey
         /\ NextBatch(c) # {} =>
              /\ Max(NextBatch(c)) \in Docs /\ Max(NextBatch(c)) > c
              /\ \A d \in Docs : c < d /\ d <= Max(NextBatch(c)) =>
                   doc[d].key = activeKey \/ d \in NextBatch(c)
<1> DEFINE behind == {d \in Stale : d > c}
           before(d) == {e \in behind : e < d}
<1>1. behind \in SUBSET Docs /\ IsFiniteSet(Docs)
  BY FS_Interval, RotationAssumption DEF Stale, Docs
<1>2. \A d \in Docs : IsFiniteSet(before(d)) /\ Cardinality(before(d)) \in Nat
  BY <1>1, FS_Subset, FS_CardinalityType
<1>3. NextBatch(c) = {d \in behind : Cardinality(before(d)) < Batch}
  BY DEF NextBatch
<1>4. NextBatch(c) \in SUBSET Docs
  BY <1>1, <1>3
<1>5. ASSUME NextBatch(c) = {}
      PROVE  behind = {}
  <2>1. SUFFICES ASSUME behind # {} PROVE FALSE
    OBVIOUS
  <2>0. behind \in SUBSET Nat
    BY <1>1 DEF Docs
  <2> HIDE DEF behind
  <2>2. PICK d \in behind : \A e \in behind : d <= e
    BY <2>0, <2>1, Least
  <2> USE DEF behind
  <2>3. before(d) = {}
    BY <1>1, <2>2 DEF Docs
  <2>4. Cardinality(before(d)) = 0
    BY <2>3, FS_EmptySet
  <2> QED
    BY <1>3, <1>5, <2>4, RotationAssumption
<1>6. ASSUME NextBatch(c) # {}
      PROVE  /\ Max(NextBatch(c)) \in Docs /\ Max(NextBatch(c)) > c
             /\ \A d \in Docs : c < d /\ d <= Max(NextBatch(c)) =>
                  doc[d].key = activeKey \/ d \in NextBatch(c)
  <2> DEFINE m == Max(NextBatch(c))
  <2>1. m \in NextBatch(c)
    BY <1>4, <1>6, Greatest
  <2>2. m \in behind /\ Cardinality(before(m)) < Batch
    BY <1>3, <2>1
  <2>3. ASSUME NEW d \in Docs, c < d, d <= m, doc[d].key # activeKey
        PROVE  d \in NextBatch(c)
    <3>1. d \in behind
      BY <2>3 DEF Stale
    <3>2. before(d) \in SUBSET before(m)
      BY <1>1, <2>2, <2>3 DEF Docs
    <3>3. Cardinality(before(d)) <= Cardinality(before(m))
      BY <1>1, <1>2, <2>2, <3>2, FS_Subset
    <3>4. Cardinality(before(d)) \in Nat /\ Cardinality(before(m)) \in Nat /\ Batch \in Nat
      BY <1>1, <1>2, <2>2, <2>3, RotationAssumption
    <3>5. Cardinality(before(d)) < Batch
      BY <2>2, <3>3, <3>4
    <3> QED
      BY <1>3, <3>1, <3>5
  <2> QED
    BY <1>1, <2>2, <2>3
<1> QED
  BY <1>4, <1>5, <1>6 DEF Stale

-----------------------------------------------------------------------------
(* Type correctness *)

LEMMA StaleCount ==
  RotationTypeOK => Cardinality(Stale) \in 0..DocCount /\ (Cardinality(Stale) = 0 => Stale = {})
<1> SUFFICES ASSUME RotationTypeOK PROVE Cardinality(Stale) \in 0..DocCount
                                        /\ (Cardinality(Stale) = 0 => Stale = {})
  OBVIOUS
<1>1. IsFiniteSet(Docs) /\ Cardinality(Docs) = DocCount
  BY FS_Interval, RotationAssumption DEF Docs
<1>2. Stale \in SUBSET Docs
  BY DEF Stale
<1>3. IsFiniteSet(Stale) /\ Cardinality(Stale) <= DocCount
  BY <1>1, <1>2, FS_Subset
<1>4. Cardinality(Stale) \in Nat
  BY <1>3, FS_CardinalityType
<1> QED
  BY <1>3, <1>4, FS_EmptySet, RotationAssumption

LEMMA FindBatchTyped ==
  ASSUME RotationTypeOK, NEW u \in Runs, FindBatch(u)
  PROVE  RotationTypeOK'
<1> DEFINE batch == NextBatch(driver[u].cursor)
           unreadable == {d \in batch : ~doc[d].readable}
           copies == Copies(batch \ unreadable)
           after == IF batch = {} THEN [driver[u] EXCEPT !.stage = "saving", !.done = TRUE]
                    ELSE [driver[u] EXCEPT !.stage = IF batch = unreadable THEN "saving" ELSE "writing",
                            !.cursor = Max(batch),
                            !.found = unreadable, !.batch = batch \ unreadable, !.copy = copies]
<1>1. driver[u] \in Driver /\ driver[u].cursor \in 0..DocCount
  BY DEF RotationTypeOK, Driver
<1>2. batch \in SUBSET Docs /\ (batch # {} => Max(batch) \in Docs)
  BY <1>1, BatchSkipsNone
<1> HIDE DEF batch
<1>3. unreadable \in Failures /\ batch \ unreadable \in SUBSET Docs
  BY <1>2 DEF Failures
<1>4. batch # {} => Max(batch) \in 0..DocCount
  BY <1>2, RotationAssumption DEF Docs
<1> HIDE DEF unreadable
<1>a. copies \in [Docs -> Contents]
  BY RotationAssumption DEF Copies, Contents, RotationTypeOK, Document
<1> HIDE DEF copies
<1>5. after \in Driver
  BY <1>1, <1>3, <1>4, <1>a DEF Driver
<1>6. driver' = [driver EXCEPT ![u] = after]
  BY DEF FindBatch, batch, unreadable, copies
<1> HIDE DEF after
<1>7. driver' \in [Runs -> Driver]
  BY <1>5, <1>6 DEF RotationTypeOK
<1> QED
  BY <1>7 DEF RotationTypeOK, FindBatch

LEMMA Typed ==
  ASSUME RotationTypeOK, \A a \in Admins : AdminSound(a), [RotationNext]_rotationVars
  PROVE  RotationTypeOK'
<1> USE RotationAssumption DEF RotationTypeOK
<1>a. NoRun \in Run /\ NoDriver \in Driver /\ NoRequest \in Admin
  <2>1. NoCopy \in [Docs -> Contents]
    BY DEF NoCopy, Contents
  <2> QED
    BY <2>1 DEF NoRun, NoDriver, NoRequest, Run, Driver, Admin, RunStatus, Failures, Keys
<1>b. ASSUME NEW e \in Driver,
             NEW s \in {"none", "loading", "finding", "writing", "saving", "completing", "pausing"}
      PROVE  [e EXCEPT !.stage = s] \in Driver
  BY DEF Driver
<1>c. ASSUME NEW e \in Run, NEW s \in RunStatus
      PROVE  [e EXCEPT !.status = s] \in Run
  BY DEF Run
<1>d. ASSUME NEW u \in Runs
      PROVE  /\ run[u] \in Run /\ driver[u] \in Driver
             /\ run[u].status \in RunStatus /\ run[u].failures \in Failures
             /\ run[u].cursor \in 0..DocCount /\ run[u].done \in BOOLEAN
             /\ driver[u].cursor \in 0..DocCount /\ driver[u].done \in BOOLEAN
             /\ driver[u].found \in Failures /\ driver[u].batch \in SUBSET Docs
             /\ driver[u].copy \in [Docs -> Contents]
  BY DEF Run, Driver
<1>e. ASSUME NEW a \in Admins
      PROVE  /\ admin[a] \in Admin
             /\ admin[a].status \in RunStatus /\ admin[a].failed \in BOOLEAN
             /\ admin[a].outstanding \in 0..DocCount /\ admin[a].on \in Runs \cup {None}
  BY DEF Admin
<1>f. ASSUME NEW u \in Runs, StartDriver(u)
      PROVE  driver' \in [Runs -> Driver]
  <2>1. [NoDriver EXCEPT !.stage = "loading"] \in Driver
    BY <1>a, <1>b
  <2> QED
    BY <1>f, <2>1 DEF StartDriver
<1>g. ASSUME NEW u \in Runs, LeaveBatch(u, "saving") \/ LeaveBatch(u, "pausing")
      PROVE  driver' \in [Runs -> Driver]
  <2>1. NoDriver.copy \in [Docs -> Contents]
    BY <1>a DEF Driver
  <2>2. NoCopy \in [Docs -> Contents]
    BY <2>1 DEF NoDriver
  <2>3. ASSUME NEW s \in {"saving", "pausing"}
        PROVE  [driver[u] EXCEPT !.stage = s, !.batch = {}, !.copy = NoCopy] \in Driver
    BY <1>d, <2>2 DEF Driver
  <2> QED
    BY <1>g, <2>3 DEF LeaveBatch
<1>1. ASSUME NEW u \in Runs, LoadRun(u)
      PROVE  RotationTypeOK'
  <2> DEFINE next == [stage |-> IF run[u].done THEN "completing" ELSE "finding",
                      cursor |-> run[u].cursor, done |-> run[u].done, found |-> {}, batch |-> {},
                      copy |-> NoCopy]
  <2>0. NoCopy \in [Docs -> Contents]
    BY DEF NoCopy, Contents
  <2>1. next \in Driver
    BY <1>d, <2>0 DEF Driver, Failures
  <2>2. driver' = [driver EXCEPT ![u] = IF run[u].status # "RUNNING" THEN NoDriver ELSE next]
    BY <1>1 DEF LoadRun
  <2> HIDE DEF next
  <2>3. driver' \in [Runs -> Driver]
    BY <1>a, <2>1, <2>2
  <2> QED
    BY <1>1, <2>3 DEF LoadRun
<1>2. ASSUME NEW u \in Runs, FindBatch(u)
      PROVE  RotationTypeOK'
  BY <1>2, FindBatchTyped
<1>3. ASSUME NEW u \in Runs, WriteDocument(u)
      PROVE  RotationTypeOK'
  <2> DEFINE d == Min(driver[u].batch)
             rest == [driver[u] EXCEPT !.batch = driver[u].batch \ {d}]
  <2>1. ASSUME NEW e \in Docs
        PROVE  [doc[e] EXCEPT !.key = activeKey, !.content = driver[u].copy[e]] \in Document
    <3>1. doc[e] \in Document /\ activeKey \in Keys /\ driver[u].copy[e] \in Contents
      BY <1>d
    <3> QED
      BY <3>1 DEF Document
  <2>2. doc' = [doc EXCEPT ![d] = [doc[d] EXCEPT !.key = activeKey, !.content = driver[u].copy[d]]]
    BY <1>3 DEF WriteDocument
  <2>3. rest \in Driver
    BY <1>d DEF Driver
  <2>4. LeaveBatch(u, "saving") \/ driver' = [driver EXCEPT ![u] = rest]
    BY <1>3 DEF WriteDocument
  <2> HIDE DEF d, rest
  <2>5. doc' \in [Docs -> Document]
    <3>1. CASE d \in Docs
      BY <2>1, <2>2, <3>1
    <3>2. CASE d \notin Docs
      BY <2>2, <3>2
    <3> QED
      BY <3>1, <3>2
  <2>6. driver' \in [Runs -> Driver]
    BY <1>g, <2>3, <2>4
  <2> QED
    BY <1>3, <2>5, <2>6 DEF WriteDocument
<1>4. ASSUME NEW u \in Runs, RefuseBatch(u)
      PROVE  RotationTypeOK'
  <2>1. driver' \in [Runs -> Driver]
    BY <1>4, <1>g DEF RefuseBatch
  <2>2. errors' \in 0..MaxErrors
    BY <1>4 DEF RefuseBatch
  <2> QED
    BY <1>4, <2>1, <2>2 DEF RefuseBatch
<1>5. ASSUME NEW u \in Runs, Pause(u)
      PROVE  RotationTypeOK'
  <2>1. run[u].failures \cup driver[u].found \cup {0} \in Failures
    BY <1>d DEF Failures
  <2>2. [run[u] EXCEPT !.status = "PAUSED",
                       !.failures = run[u].failures \cup driver[u].found \cup {0}] \in Run
    BY <1>d, <2>1 DEF Run, RunStatus
  <2>3. run' \in [Runs -> Run] /\ driver' \in [Runs -> Driver]
    BY <1>5, <1>a, <2>2 DEF Pause
  <2> QED
    BY <1>5, <2>3 DEF Pause
<1>6. ASSUME NEW u \in Runs, SaveProgress(u)
      PROVE  RotationTypeOK'
  <2>1. run[u].failures \cup driver[u].found \in Failures
    BY <1>d DEF Failures
  <2>2. [run[u] EXCEPT !.cursor = driver[u].cursor, !.done = driver[u].done,
                       !.failures = run[u].failures \cup driver[u].found] \in Run
    BY <1>d, <2>1 DEF Run
  <2>3. run' \in [Runs -> Run]
    BY <1>6, <2>2 DEF SaveProgress
  <2>4. driver' \in [Runs -> Driver]
    BY <1>6, <1>b, <1>d DEF SaveProgress, DriveTo
  <2> QED
    BY <1>6, <2>3, <2>4 DEF SaveProgress
<1>7. ASSUME NEW u \in Runs, Complete(u)
      PROVE  RotationTypeOK'
  <2>1. run' \in [Runs -> Run] /\ driver' \in [Runs -> Driver]
    BY <1>7, <1>a, <1>c, <1>d DEF Complete, RunStatus
  <2> QED
    BY <1>7, <2>1 DEF Complete
<1>8. ASSUME NEW a \in Admins, AskRotation(a)
      PROVE  RotationTypeOK'
  <2>1. [NoRequest EXCEPT !.stage = "starting"] \in Admin
    BY <1>a DEF Admin
  <2>2. admin' \in [Admins -> Admin]
    BY <1>8, <2>1 DEF AskRotation
  <2> QED
    BY <1>8, <2>2 DEF AskRotation
<1>9. ASSUME NEW a \in Admins, NEW u \in Runs, StartRotation(a, u)
      PROVE  RotationTypeOK'
  <2>1. [NoRun EXCEPT !.status = "RUNNING", !.toVersion = activeKey] \in Run
    BY <1>a DEF Run, RunStatus
  <2>2. run' \in [Runs -> Run] /\ admin' \in [Admins -> Admin]
    BY <1>9, <1>a, <2>1 DEF StartRotation
  <2>3. driver' \in [Runs -> Driver]
    BY <1>9, <1>f DEF StartRotation
  <2> QED
    BY <1>9, <2>2, <2>3 DEF StartRotation
<1>10. ASSUME NEW a \in Admins, NEW u \in Runs, AskResume(a, u)
       PROVE  RotationTypeOK'
  <2>1. [NoRequest EXCEPT !.stage = "resuming", !.on = u, !.status = run[u].status] \in Admin
    BY <1>a, <1>d DEF Admin
  <2>2. admin' \in [Admins -> Admin]
    BY <1>10, <2>1 DEF AskResume
  <2> QED
    BY <1>10, <2>2 DEF AskResume
<1>11. ASSUME NEW a \in Admins, ResumeRotation(a)
       PROVE  RotationTypeOK'
  <2> DEFINE u == admin[a].on
             s == IF admin[a].status = "RUNNING" THEN run[u].status ELSE "RUNNING"
  <2>0. admin[a].on \in Runs
    BY <1>11 DEF ResumeRotation, AdminSound
  <2>1. [run[u] EXCEPT !.status = s] \in Run
    BY <2>0, <1>c, <1>d DEF RunStatus
  <2>2. run' = [run EXCEPT ![u] = [run[u] EXCEPT !.status = s]]
    BY <1>11 DEF ResumeRotation
  <2>3. driver' \in [Runs -> Driver]
    BY <1>11, <2>0, <1>f DEF ResumeRotation
  <2>4. admin' \in [Admins -> Admin]
    BY <1>11, <1>a DEF ResumeRotation
  <2> HIDE DEF s, u
  <2>5. run' \in [Runs -> Run]
    BY <2>1, <2>2
  <2> QED
    BY <1>11, <2>3, <2>4, <2>5 DEF ResumeRotation
<1>12. ASSUME NEW a \in Admins, NEW u \in Runs, AskVerify(a, u)
       PROVE  RotationTypeOK'
  <2> DEFINE failed == run[u].failures # {}
  <2>0. failed \in BOOLEAN
    OBVIOUS
  <2> HIDE DEF failed
  <2>1. [NoRequest EXCEPT !.stage = "counting", !.on = u, !.status = run[u].status,
                          !.failed = failed] \in Admin
    BY <1>a, <1>d, <2>0 DEF Admin
  <2>2. admin' \in [Admins -> Admin]
    BY <1>12, <2>1 DEF AskVerify, failed
  <2> QED
    BY <1>12, <2>2 DEF AskVerify
<1>13. ASSUME NEW a \in Admins, CountOutstanding(a)
       PROVE  RotationTypeOK'
  <2>1. Cardinality(Stale) \in 0..DocCount
    BY StaleCount
  <2>2. [admin[a] EXCEPT !.stage = "verifying", !.outstanding = Cardinality(Stale)] \in Admin
    BY <1>e, <2>1 DEF Admin
  <2>3. admin' \in [Admins -> Admin]
    BY <1>13, <2>2 DEF CountOutstanding
  <2> QED
    BY <1>13, <2>3 DEF CountOutstanding
<1>14. ASSUME NEW a \in Admins, VerifyRotation(a)
       PROVE  RotationTypeOK'
  <2>0. admin[a].on \in Runs
    BY <1>14 DEF VerifyRotation, Verify, AdminSound
  <2>1. [run[admin[a].on] EXCEPT !.status = "VERIFIED"] \in Run
    BY <2>0, <1>c, <1>d DEF RunStatus
  <2>2. run' \in [Runs -> Run] /\ verifiedKey' \in [Runs -> Keys]
    BY <1>14, <2>0, <2>1 DEF VerifyRotation, Verify
  <2>3. admin' \in [Admins -> Admin]
    BY <1>14, <1>a DEF VerifyRotation, Verify
  <2> QED
    BY <1>14, <2>2, <2>3 DEF VerifyRotation, Verify
<1>15. ASSUME NEW d \in Docs, EditDocument(d) \/ RepairDocument(d)
       PROVE  RotationTypeOK'
  <2>1. CASE EditDocument(d)
    <3>1. edits' \in 0..MaxEdits /\ edits + 1 \in Contents
      BY <2>1 DEF EditDocument, Contents
    <3>2. PICK key \in doc[d].key .. activeKey :
            doc' = [doc EXCEPT ![d] = [doc[d] EXCEPT !.key = key, !.content = edits + 1]]
      BY <2>1 DEF EditDocument
    <3>3. key \in Keys
      BY <3>2 DEF Keys, Document
    <3>4. [doc[d] EXCEPT !.key = key, !.content = edits + 1] \in Document
      BY <3>1, <3>3 DEF Document
    <3>5. /\ doc' \in [Docs -> Document]
          /\ latest' \in [Docs -> Contents] /\ overtaken' \in SUBSET Docs
      BY <2>1, <3>1, <3>2, <3>4 DEF EditDocument
    <3> QED
      BY <2>1, <3>1, <3>5 DEF EditDocument
  <2>2. CASE RepairDocument(d)
    <3>1. [doc[d] EXCEPT !.key = activeKey, !.readable = TRUE] \in Document
      BY DEF Document
    <3>2. doc' \in [Docs -> Document]
      BY <2>2, <3>1 DEF RepairDocument
    <3> QED
      BY <2>2, <3>2 DEF RepairDocument
  <2> QED
    BY <1>15, <2>1, <2>2
<1>16. ASSUME Restart
       PROVE  RotationTypeOK'
  <2>1. activeKey' \in Keys
    BY <1>16 DEF Restart, Keys
  <2> QED
    BY <1>16, <1>a, <2>1 DEF Restart
<1>17. CASE UNCHANGED rotationVars
  BY <1>17 DEF rotationVars
<1> QED
  BY <1>1, <1>2, <1>3, <1>4, <1>5, <1>6, <1>7, <1>8, <1>9, <1>10, <1>11, <1>12, <1>13, <1>14,
     <1>15, <1>16, <1>17 DEF RotationNext, DriverStep

-----------------------------------------------------------------------------
(* Keys never get older *)

KeysGrow ==
  /\ activeKey' >= activeKey
  /\ \A d \in Docs : doc'[d].key >= doc[d].key /\ doc'[d].key <= activeKey'

LEMMA NumbersTyped ==
  ASSUME RotationTypeOK
  PROVE  /\ activeKey \in Nat
         /\ \A d \in Docs : doc[d].key \in Nat /\ d \in Nat
         /\ \A u \in Runs : /\ run[u].toVersion \in Nat /\ verifiedKey[u] \in Nat
                            /\ run[u].cursor \in Nat /\ run[u].cursor <= DocCount
                            /\ driver[u].cursor \in Nat /\ driver[u].cursor <= DocCount
                            /\ driver[u].cursor \in 0..DocCount
                            /\ run[u] \in Run /\ driver[u] \in Driver
         /\ DocCount \in Nat
         /\ \A d \in Docs : d <= DocCount
  BY RotationAssumption DEF RotationTypeOK, Document, Keys, Docs, Run, Driver

LEMMA OnlyNewer ==
  ASSUME IInv, RotationTypeOK', [RotationNext]_rotationVars
  PROVE  KeysGrow
<1> USE NumbersTyped, RotationAssumption DEF IInv, KeysBehind, KeysGrow, RotationTypeOK
<1>1. CASE UNCHANGED <<activeKey, doc>>
  BY <1>1
<1>2. ASSUME NEW u \in Runs, WriteDocument(u)
      PROVE  KeysGrow
  BY <1>2 DEF WriteDocument, Document
<1>3. ASSUME NEW d \in Docs, EditDocument(d)
      PROVE  KeysGrow
  <2>1. PICK key \in doc[d].key .. activeKey :
          doc' = [doc EXCEPT ![d] = [doc[d] EXCEPT !.key = key, !.content = edits + 1]]
    BY <1>3 DEF EditDocument
  <2>2. activeKey' = activeKey
    BY <1>3 DEF EditDocument
  <2> QED
    BY <2>1, <2>2 DEF Document
<1>4. ASSUME NEW d \in Docs, RepairDocument(d)
      PROVE  KeysGrow
  BY <1>4 DEF RepairDocument, Document
<1>5. ASSUME Restart
      PROVE  KeysGrow
  <2>1. activeKey' \in activeKey..MaxKeys /\ doc' = doc
    BY <1>5 DEF Restart
  <2>2. activeKey' >= activeKey /\ activeKey' \in Nat
    BY <2>1
  <2> QED
    BY <2>1, <2>2
<1> HIDE DEF IInv, KeysBehind, KeysGrow, RotationTypeOK
<1>6. ASSUME NEW u \in Runs, DriverStep(u) \/ RefuseBatch(u)
      PROVE  KeysGrow
  BY <1>1, <1>2, <1>6 DEF DriverStep, LoadRun, FindBatch, RefuseBatch, Pause, SaveProgress, Complete
<1>7. ASSUME NEW a \in Admins, AskRotation(a) \/ ResumeRotation(a) \/ CountOutstanding(a)
                               \/ VerifyRotation(a)
      PROVE  KeysGrow
  BY <1>1, <1>7 DEF AskRotation, ResumeRotation, CountOutstanding, VerifyRotation, Verify
<1>8. ASSUME NEW a \in Admins, NEW u \in Runs,
             StartRotation(a, u) \/ AskResume(a, u) \/ AskVerify(a, u)
      PROVE  KeysGrow
  BY <1>1, <1>8 DEF StartRotation, AskResume, AskVerify
<1>9. CASE UNCHANGED rotationVars
  BY <1>1, <1>9 DEF rotationVars
<1> QED
  BY <1>3, <1>4, <1>5, <1>6, <1>7, <1>8, <1>9 DEF RotationNext

\* A run nobody writes stays sound, and so does its driver.
LEMMA OthersKeep ==
  ASSUME IInv, RotationTypeOK', KeysGrow, NEW u \in Runs,
         run'[u] = run[u], verifiedKey'[u] = verifiedKey[u]
  PROVE  RunSound(u)' /\ (driver'[u] = driver[u] => DriverSound(u)')
<1>1. /\ activeKey \in Nat /\ activeKey' \in Nat /\ activeKey' >= activeKey
      /\ run[u].toVersion \in Nat /\ verifiedKey[u] \in Nat
      /\ \A d \in Docs : doc[d].key \in Nat /\ doc'[d].key \in Nat /\ doc'[d].key >= doc[d].key
  BY NumbersTyped, RotationAssumption DEF IInv, KeysGrow, RotationTypeOK, Document, Keys
<1>2. ASSUME NEW c, NEW F, Covered(u, c, F)
      PROVE  \A d \in Docs : d <= c => doc'[d].key >= run[u].toVersion \/ d \in F
  BY <1>1, <1>2 DEF Covered
<1>3. RunSound(u)'
  <2>1. RunSound(u)
    BY DEF IInv
  <2>2. run[u].toVersion <= activeKey'
    BY <1>1, <2>1 DEF RunSound
  <2>3. \A d \in Docs : d <= run[u].cursor =>
          doc'[d].key >= run[u].toVersion \/ d \in run[u].failures
    BY <1>2, <2>1 DEF RunSound
  <2>4. run[u].done => \A d \in Docs : d <= DocCount =>
          doc'[d].key >= run[u].toVersion \/ d \in run[u].failures
    BY <1>2, <2>1 DEF RunSound
  <2>5. run[u].status = "VERIFIED" => \A d \in Docs : doc'[d].key >= verifiedKey[u]
    BY <1>1, <2>1 DEF RunSound
  <2> QED
    BY <2>1, <2>2, <2>3, <2>4, <2>5 DEF RunSound, Covered
<1>4. ASSUME driver'[u] = driver[u]
      PROVE  DriverSound(u)'
  <2>1. DriverSound(u)
    BY DEF IInv
  <2> USE DEF DriverSound
  <2>2. driver[u].stage = "finding" => \A d \in Docs : d <= driver[u].cursor =>
          doc'[d].key >= run[u].toVersion \/ d \in run[u].failures
    BY <1>2, <2>1
  <2>3. driver[u].stage = "writing" => \A d \in Docs : d <= driver[u].cursor =>
          doc'[d].key >= run[u].toVersion
            \/ d \in run[u].failures \cup driver[u].found \cup driver[u].batch
    BY <1>2, <2>1
  <2>4. driver[u].stage = "saving" => \A d \in Docs : d <= driver[u].cursor =>
          doc'[d].key >= run[u].toVersion \/ d \in run[u].failures \cup driver[u].found
    BY <1>2, <2>1
  <2>5. driver[u].stage = "saving" /\ driver[u].done => \A d \in Docs : d <= DocCount =>
          doc'[d].key >= run[u].toVersion \/ d \in run[u].failures \cup driver[u].found
    BY <1>2, <2>1
  <2> QED
    BY <1>4, <2>1, <2>2, <2>3, <2>4, <2>5 DEF Covered
<1> QED
  BY <1>3, <1>4

\* What a request relies on stays true as long as its process lives.
LEMMA AdminKeeps ==
  ASSUME IInv, RotationTypeOK', KeysGrow, activeKey' = activeKey,
         \A u \in Runs : run[u].status # "NONE" =>
           run'[u].status # "NONE" /\ (run[u].done => run'[u].done),
         NEW a \in Admins, admin'[a] = admin[a]
  PROVE  AdminSound(a)'
<1>1. AdminSound(a)
  BY DEF IInv
<1>2. ASSUME admin[a].stage = "verifying", admin[a].outstanding = 0, NEW d \in Docs
      PROVE  doc'[d].key = activeKey'
  <2>1. /\ activeKey \in Nat /\ doc[d].key = activeKey
        /\ doc'[d].key \in Nat /\ doc'[d].key >= doc[d].key /\ doc'[d].key <= activeKey
    BY <1>1, <1>2, NumbersTyped DEF IInv, KeysGrow, AdminSound, RotationTypeOK, Document, Keys
  <2> QED
    BY <2>1
<1> QED
  BY <1>1, <1>2 DEF AdminSound

-----------------------------------------------------------------------------
(* The steps of a driver *)

\* What a step of the driver of u leaves to be shown: its own run and driver.
LEMMA DriverOnly ==
  ASSUME IInv, RotationTypeOK', KeysGrow, NEW u \in Runs,
         activeKey' = activeKey, admin' = admin, verifiedKey' = verifiedKey,
         \A w \in Runs \ {u} : run'[w] = run[w] /\ driver'[w] = driver[w],
         run[u].status # "NONE" => run'[u].status # "NONE" /\ (run[u].done => run'[u].done),
         RunSound(u)', DriverSound(u)'
  PROVE  IInv'
<1>1. \A w \in Runs : RunSound(w)' /\ DriverSound(w)'
  BY OthersKeep
<1>2. \A w \in Runs : run[w].status # "NONE" =>
        run'[w].status # "NONE" /\ (run[w].done => run'[w].done)
  OBVIOUS
<1>3. \A a \in Admins : AdminSound(a)'
  BY <1>2, AdminKeeps
<1>4. KeysBehind'
  BY DEF KeysBehind, KeysGrow
<1> QED
  BY <1>1, <1>3, <1>4 DEF IInv

LEMMA LoadRunSound ==
  ASSUME IInv, RotationTypeOK', KeysGrow, NEW u \in Runs, LoadRun(u)
  PROVE  IInv'
<1> USE DEF LoadRun, Drives, RotationTypeOK, IInv
<1>1. /\ run' = run /\ doc' = doc /\ activeKey' = activeKey /\ admin' = admin
      /\ verifiedKey' = verifiedKey
      /\ \A w \in Runs \ {u} : driver'[w] = driver[w]
  OBVIOUS
<1>2. RunSound(u)'
  BY <1>1, OthersKeep
<1>3. DriverSound(u)'
  <2>1. CASE run[u].status # "RUNNING"
    BY <1>1, <2>1 DEF DriverSound, NoDriver
  <2>2. CASE run[u].status = "RUNNING"
    <3>1. driver'[u] = [stage |-> IF run[u].done THEN "completing" ELSE "finding",
                        cursor |-> run[u].cursor, done |-> run[u].done,
                        found |-> {}, batch |-> {}, copy |-> NoCopy]
      BY <2>2
    <3>2. RunSound(u)
      OBVIOUS
    <3> QED
      BY <1>1, <2>2, <3>1, <3>2, NumbersTyped DEF DriverSound, RunSound, Covered, Run
  <2> QED
    BY <2>1, <2>2
<1> HIDE DEF LoadRun, Drives, RotationTypeOK, IInv
<1> QED
  BY <1>1, <1>2, <1>3, DriverOnly

LEMMA FindBatchSound ==
  ASSUME IInv, RotationTypeOK', KeysGrow, NEW u \in Runs, FindBatch(u)
  PROVE  IInv'
<1> DEFINE c == driver[u].cursor
           batch == NextBatch(c)
           unreadable == {d \in batch : ~doc[d].readable}
<1>1. /\ run' = run /\ doc' = doc /\ activeKey' = activeKey /\ admin' = admin
      /\ verifiedKey' = verifiedKey
      /\ \A w \in Runs \ {u} : driver'[w] = driver[w]
  BY DEF FindBatch, IInv, RotationTypeOK
<1>2. RunSound(u)'
  BY <1>1, OthersKeep
<1>3. /\ RunSound(u) /\ DriverSound(u) /\ driver[u].stage = "finding"
      /\ c \in 0..DocCount /\ driver[u] \in Driver
      /\ driver'[u] = IF batch = {} THEN [driver[u] EXCEPT !.stage = "saving", !.done = TRUE]
                      ELSE [driver[u] EXCEPT !.stage = IF batch = unreadable THEN "saving" ELSE "writing",
                              !.cursor = Max(batch),
                              !.found = unreadable, !.batch = batch \ unreadable,
                              !.copy = Copies(batch \ unreadable)]
  BY NumbersTyped DEF FindBatch, Drives, IInv, RotationTypeOK
<1>4. Covered(u, c, run[u].failures) /\ run[u].status # "NONE" /\ ~run[u].done
  BY <1>3 DEF DriverSound
<1>5. /\ activeKey \in Nat /\ run[u].toVersion \in Nat /\ run[u].toVersion <= activeKey
      /\ \A d \in Docs : d \in Nat /\ doc[d].key \in Nat
  BY <1>3, NumbersTyped DEF IInv, RunSound
<1>6. CASE batch = {}
  <2>1. \A d \in Docs : d > c => doc[d].key = activeKey
    BY <1>3, <1>6, BatchSkipsNone DEF IInv
  <2>2. \A d \in Docs : doc[d].key >= run[u].toVersion \/ d \in run[u].failures
    <3> TAKE d \in Docs
    <3>1. CASE d <= c
      BY <1>4, <3>1 DEF Covered
    <3>2. CASE d > c
      BY <1>5, <2>1, <3>2
    <3> QED
      BY <1>3, <1>5, <3>1, <3>2
  <2>3. driver'[u].stage = "saving" /\ driver'[u].done /\ driver'[u].cursor = c
    BY <1>3, <1>6 DEF Driver
  <2>4. DriverSound(u)'
    BY <1>1, <1>4, <2>2, <2>3 DEF DriverSound, Covered
  <2> QED
    BY <1>1, <1>2, <2>4, DriverOnly
<1>7. CASE batch # {}
  <2> DEFINE m == Max(batch)
  <2>1. /\ m \in Docs /\ m > c /\ batch \in SUBSET Docs
        /\ \A d \in Docs : c < d /\ d <= m => doc[d].key = activeKey \/ d \in batch
    BY <1>3, <1>7, BatchSkipsNone DEF IInv
  <2> HIDE DEF m
  <2>2. \A d \in Docs : d <= m => doc[d].key >= run[u].toVersion
          \/ d \in run[u].failures \cup unreadable \cup (batch \ unreadable)
    <3> TAKE d \in Docs
    <3>1. CASE d <= c
      BY <1>4, <3>1 DEF Covered
    <3>2. CASE d > c
      BY <1>3, <1>5, <2>1, <3>2
    <3> QED
      BY <1>3, <1>5, <3>1, <3>2
  <2>3. /\ driver'[u].stage = IF batch = unreadable THEN "saving" ELSE "writing"
        /\ driver'[u].cursor = m /\ driver'[u].found = unreadable
        /\ driver'[u].batch = batch \ unreadable /\ driver'[u].done = driver[u].done
    <3> DEFINE copies == Copies(batch \ unreadable)
               stage == IF batch = unreadable THEN "saving" ELSE "writing"
    <3>1. driver'[u] = [driver[u] EXCEPT !.stage = stage, !.cursor = m, !.found = unreadable,
                          !.batch = batch \ unreadable, !.copy = copies]
      BY <1>3, <1>7 DEF m
    <3>2. driver[u] \in Driver
      BY <1>3
    <3> HIDE DEF batch, unreadable, copies, stage
    <3>3. /\ driver'[u].stage = stage /\ driver'[u].cursor = m /\ driver'[u].found = unreadable
          /\ driver'[u].batch = batch \ unreadable /\ driver'[u].done = driver[u].done
      BY <3>1, <3>2 DEF Driver
    <3> QED
      BY <3>3 DEF stage
  <2>a. unreadable \subseteq batch
    OBVIOUS
  <2> HIDE DEF batch, unreadable, c
  <2>4. ~driver[u].done
    BY <1>3 DEF DriverSound
  <2>5. DriverSound(u)'
    <3>1. CASE batch = unreadable
      BY <1>1, <1>4, <2>2, <2>3, <2>4, <3>1 DEF DriverSound, Covered
    <3>2. CASE batch # unreadable
      BY <1>1, <1>4, <2>2, <2>3, <2>4, <2>a, <3>2 DEF DriverSound, Covered
    <3> QED
      BY <3>1, <3>2
  <2> QED
    BY <1>1, <1>2, <2>5, DriverOnly
<1> QED
  BY <1>6, <1>7

\* The least of a batch is one of it.
LEMMA MinInBatch ==
  ASSUME NEW S \in SUBSET Docs, S # {}
  PROVE  Min(S) \in S
<1>1. S \in SUBSET Nat
  BY RotationAssumption DEF Docs
<1>2. \E x \in S : \A y \in S : x <= y
  BY <1>1, Least
<1> QED
  BY <1>2 DEF Min

\* What a write changes: one document of the batch, and what is left of the batch.
LEMMA WriteEffect ==
  ASSUME IInv, NEW u \in Runs, WriteDocument(u)
  PROVE  /\ UNCHANGED <<activeKey, run, admin, verifiedKey, latest, overtaken>>
         /\ driver[u].stage = "writing"
         /\ \A w \in Runs \ {u} : driver'[w] = driver[w]
         /\ driver'[u].cursor = driver[u].cursor /\ driver'[u].found = driver[u].found
         /\ driver'[u].done = driver[u].done
         /\ \E d \in driver[u].batch :
              /\ d \in Docs
              /\ doc'[d].key = activeKey /\ doc'[d].content = driver[u].copy[d]
              /\ \A e \in Docs \ {d} : doc'[e] = doc[e]
              /\ driver'[u].batch = driver[u].batch \ {d}
              /\ driver'[u].stage = IF driver[u].batch = {d} THEN "saving" ELSE "writing"
              /\ driver[u].batch # {d} => driver'[u].copy = driver[u].copy
<1>1. /\ driver[u] \in Driver /\ driver[u].batch \in SUBSET Docs /\ driver[u].batch # {}
      /\ driver \in [Runs -> Driver] /\ doc \in [Docs -> Document]
  BY DEF IInv, RotationTypeOK, DriverSound, WriteDocument, Drives, Driver
<1>2. PICK d \in driver[u].batch : d = Min(driver[u].batch)
  BY <1>1, MinInBatch
<1>3. /\ d \in Docs
      /\ doc' = [doc EXCEPT ![d] = [doc[d] EXCEPT !.key = activeKey, !.content = driver[u].copy[d]]]
      /\ driver[u].stage = "writing"
  BY <1>1, <1>2 DEF WriteDocument, Drives
<1>4. /\ doc'[d].key = activeKey /\ doc'[d].content = driver[u].copy[d]
      /\ \A e \in Docs \ {d} : doc'[e] = doc[e]
  BY <1>1, <1>3 DEF Document
<1>5. CASE driver[u].batch = {d}
  <2>1. driver' = [driver EXCEPT ![u] =
          [driver[u] EXCEPT !.stage = "saving", !.batch = {}, !.copy = NoCopy]]
    BY <1>2, <1>5 DEF WriteDocument, LeaveBatch
  <2>2. /\ \A w \in Runs \ {u} : driver'[w] = driver[w]
        /\ driver'[u].cursor = driver[u].cursor /\ driver'[u].found = driver[u].found
        /\ driver'[u].done = driver[u].done /\ driver'[u].stage = "saving"
        /\ driver'[u].batch = {}
    BY <1>1, <2>1 DEF Driver
  <2> QED
    BY <1>3, <1>4, <1>5, <2>2 DEF WriteDocument
<1>6. CASE driver[u].batch # {d}
  <2>1. driver' = [driver EXCEPT ![u] = [driver[u] EXCEPT !.batch = driver[u].batch \ {d}]]
    BY <1>2, <1>6 DEF WriteDocument
  <2>2. /\ \A w \in Runs \ {u} : driver'[w] = driver[w]
        /\ driver'[u].cursor = driver[u].cursor /\ driver'[u].found = driver[u].found
        /\ driver'[u].done = driver[u].done /\ driver'[u].stage = driver[u].stage
        /\ driver'[u].copy = driver[u].copy /\ driver'[u].batch = driver[u].batch \ {d}
    BY <1>1, <2>1 DEF Driver
  <2> QED
    BY <1>3, <1>4, <1>6, <2>2 DEF WriteDocument
<1> QED
  BY <1>5, <1>6

LEMMA WriteDocumentSound ==
  ASSUME IInv, RotationTypeOK', KeysGrow, NEW u \in Runs, WriteDocument(u)
  PROVE  IInv'
<1>1. /\ run' = run /\ activeKey' = activeKey /\ admin' = admin /\ verifiedKey' = verifiedKey
      /\ \A w \in Runs \ {u} : driver'[w] = driver[w]
      /\ driver[u].stage = "writing"
      /\ driver'[u].cursor = driver[u].cursor /\ driver'[u].found = driver[u].found
      /\ driver'[u].done = driver[u].done
  BY WriteEffect
<1>2. PICK d \in driver[u].batch :
        /\ d \in Docs /\ doc'[d].key = activeKey
        /\ \A e \in Docs \ {d} : doc'[e] = doc[e]
        /\ driver'[u].batch = driver[u].batch \ {d}
        /\ driver'[u].stage = IF driver[u].batch = {d} THEN "saving" ELSE "writing"
  BY WriteEffect
<1>3. RunSound(u)'
  BY <1>1, OthersKeep
<1>4. /\ RunSound(u) /\ DriverSound(u)
      /\ run[u].toVersion \in Nat /\ activeKey \in Nat
  BY NumbersTyped DEF IInv
<1>5. /\ Covered(u, driver[u].cursor, run[u].failures \cup driver[u].found \cup driver[u].batch)
      /\ ~run[u].done /\ ~driver[u].done /\ run[u].status # "NONE"
  BY <1>1, <1>4 DEF DriverSound
<1>6. \A e \in Docs : e <= driver[u].cursor =>
        doc'[e].key >= run[u].toVersion
          \/ e \in run[u].failures \cup driver[u].found \cup driver'[u].batch
  <2> TAKE e \in Docs
  <2>1. activeKey >= run[u].toVersion
    BY <1>4 DEF RunSound
  <2> QED
    BY <1>2, <1>5, <2>1 DEF Covered
<1>7. driver'[u].stage = "saving" => driver'[u].batch = {}
  BY <1>2
<1>8. driver'[u].stage = "writing" => driver'[u].batch # {}
  BY <1>2
<1>9. driver'[u].stage \in {"saving", "writing"}
  BY <1>2
<1>10. DriverSound(u)'
  BY <1>1, <1>5, <1>6, <1>7, <1>8, <1>9 DEF DriverSound, Covered
<1> QED
  BY <1>1, <1>3, <1>10, DriverOnly

LEMMA RefuseBatchSound ==
  ASSUME IInv, RotationTypeOK', KeysGrow, NEW u \in Runs, RefuseBatch(u)
  PROVE  IInv'
<1>1. /\ run' = run /\ activeKey' = activeKey /\ admin' = admin /\ verifiedKey' = verifiedKey
      /\ \A w \in Runs \ {u} : driver'[w] = driver[w]
      /\ driver[u].stage \in {"finding", "writing"} /\ driver'[u].stage = "pausing"
  BY NumbersTyped DEF RefuseBatch, LeaveBatch, Drives, IInv, RotationTypeOK, Driver
<1>2. RunSound(u)'
  BY <1>1, OthersKeep
<1>3. DriverSound(u)'
  BY <1>1 DEF IInv, DriverSound
<1> QED
  BY <1>1, <1>2, <1>3, DriverOnly

LEMMA PauseSound ==
  ASSUME IInv, RotationTypeOK', KeysGrow, NEW u \in Runs, Pause(u)
  PROVE  IInv'
<1>1. /\ doc' = doc /\ activeKey' = activeKey /\ admin' = admin /\ verifiedKey' = verifiedKey
      /\ \A w \in Runs \ {u} : run'[w] = run[w] /\ driver'[w] = driver[w]
      /\ run'[u].status = "PAUSED" /\ run'[u].toVersion = run[u].toVersion
      /\ run'[u].cursor = run[u].cursor /\ run'[u].done = run[u].done
      /\ run[u].failures \subseteq run'[u].failures
      /\ driver'[u].stage = "none"
  BY NumbersTyped DEF Pause, IInv, RotationTypeOK, Run, NoDriver
<1>2. RunSound(u)'
  BY <1>1 DEF IInv, RunSound, Covered
<1>3. DriverSound(u)'
  BY <1>1 DEF DriverSound
<1> QED
  BY <1>1, <1>2, <1>3, DriverOnly

LEMMA SaveProgressSound ==
  ASSUME IInv, RotationTypeOK', KeysGrow, NEW u \in Runs, SaveProgress(u)
  PROVE  IInv'
<1>1. /\ doc' = doc /\ activeKey' = activeKey /\ admin' = admin /\ verifiedKey' = verifiedKey
      /\ \A w \in Runs \ {u} : run'[w] = run[w] /\ driver'[w] = driver[w]
      /\ run'[u].status = run[u].status /\ run'[u].toVersion = run[u].toVersion
      /\ run'[u].cursor = driver[u].cursor /\ run'[u].done = driver[u].done
      /\ run'[u].failures = run[u].failures \cup driver[u].found
      /\ driver[u].stage = "saving" /\ driver'[u].stage = "loading"
  BY NumbersTyped DEF SaveProgress, DriveTo, Drives, IInv, RotationTypeOK, Run, Driver
<1>2. RunSound(u) /\ DriverSound(u)
  BY DEF IInv
<1>3. /\ ~run[u].done /\ run[u].status # "NONE"
      /\ Covered(u, driver[u].cursor, run[u].failures \cup driver[u].found)
      /\ driver[u].done => Covered(u, DocCount, run[u].failures \cup driver[u].found)
  BY <1>1, <1>2 DEF DriverSound
<1>4. run[u].status \notin {"COMPLETED", "VERIFIED"}
  BY <1>2, <1>3 DEF RunSound
<1>5. RunSound(u)'
  BY <1>1, <1>2, <1>3, <1>4 DEF RunSound, Covered
<1>6. DriverSound(u)'
  BY <1>1, <1>3 DEF DriverSound
<1> QED
  BY <1>1, <1>3, <1>5, <1>6, DriverOnly

LEMMA CompleteSound ==
  ASSUME IInv, RotationTypeOK', KeysGrow, NEW u \in Runs, Complete(u)
  PROVE  IInv'
<1>1. /\ doc' = doc /\ activeKey' = activeKey /\ admin' = admin /\ verifiedKey' = verifiedKey
      /\ \A w \in Runs \ {u} : run'[w] = run[w] /\ driver'[w] = driver[w]
      /\ run'[u].status = "COMPLETED" /\ run'[u].toVersion = run[u].toVersion
      /\ run'[u].cursor = run[u].cursor /\ run'[u].done = run[u].done
      /\ run'[u].failures = run[u].failures
      /\ driver[u].stage = "completing" /\ driver'[u].stage = "none"
  BY NumbersTyped DEF Complete, Drives, IInv, RotationTypeOK, Run, NoDriver
<1>2. RunSound(u)'
  BY <1>1 DEF IInv, RunSound, DriverSound, Covered
<1>3. DriverSound(u)'
  BY <1>1 DEF DriverSound
<1> QED
  BY <1>1, <1>2, <1>3, DriverOnly

-----------------------------------------------------------------------------
(* The steps of a request *)

\* What a step of request a leaves to be shown, when it writes at most the run u.
LEMMA RequestOnly ==
  ASSUME IInv, RotationTypeOK', KeysGrow, NEW a \in Admins, NEW u \in Runs,
         activeKey' = activeKey,
         \A b \in Admins \ {a} : admin'[b] = admin[b],
         \A w \in Runs \ {u} : /\ run'[w] = run[w] /\ driver'[w] = driver[w]
                               /\ verifiedKey'[w] = verifiedKey[w],
         run[u].status # "NONE" => run'[u].status # "NONE" /\ (run[u].done => run'[u].done),
         RunSound(u)', DriverSound(u)', AdminSound(a)'
  PROVE  IInv'
<1>1. \A w \in Runs : RunSound(w)' /\ DriverSound(w)'
  BY OthersKeep
<1>2. \A w \in Runs : run[w].status # "NONE" =>
        run'[w].status # "NONE" /\ (run[w].done => run'[w].done)
  OBVIOUS
<1>3. \A b \in Admins : AdminSound(b)'
  BY <1>2, AdminKeeps
<1>4. KeysBehind'
  BY DEF KeysBehind, KeysGrow
<1> QED
  BY <1>1, <1>3, <1>4 DEF IInv

\* A request that only reads.
LEMMA RequestReads ==
  ASSUME IInv, RotationTypeOK', KeysGrow, NEW a \in Admins,
         UNCHANGED <<activeKey, doc, run, driver, verifiedKey>>,
         \A b \in Admins \ {a} : admin'[b] = admin[b],
         AdminSound(a)'
  PROVE  IInv'
<1>1. \A w \in Runs : RunSound(w)' /\ DriverSound(w)'
  BY OthersKeep
<1>2. \A b \in Admins : AdminSound(b)'
  BY AdminKeeps
<1>3. KeysBehind'
  BY DEF KeysBehind, KeysGrow
<1> QED
  BY <1>1, <1>2, <1>3 DEF IInv

\* driveRotation starts a loop at its top, or leaves the one that runs.
LEMMA StartDriverSound ==
  ASSUME IInv, RotationTypeOK', KeysGrow, NEW u \in Runs, StartDriver(u),
         run'[u].status # "NONE",
         driver[u].stage # "none" =>
           /\ run'[u].done = run[u].done /\ run'[u].failures = run[u].failures
           /\ run'[u].toVersion = run[u].toVersion
  PROVE  /\ \A w \in Runs \ {u} : driver'[w] = driver[w]
         /\ DriverSound(u)'
<1>1. \A w \in Runs \ {u} : driver'[w] = driver[w]
  BY DEF StartDriver, IInv, RotationTypeOK
<1>2. CASE driver[u].stage = "none"
  <2>1. driver'[u].stage = "loading"
    BY <1>2 DEF StartDriver, Drives, NoDriver, IInv, RotationTypeOK
  <2> QED
    BY <1>1, <2>1 DEF DriverSound
<1>3. CASE driver[u].stage # "none"
  <2>1. driver' = driver
    BY <1>3 DEF StartDriver, Drives
  <2>2. /\ run'[u].done = run[u].done /\ run'[u].failures = run[u].failures
        /\ run'[u].toVersion = run[u].toVersion
    BY <1>3
  <2>3. /\ run[u].toVersion \in Nat
        /\ \A d \in Docs : doc[d].key \in Nat /\ doc'[d].key \in Nat /\ doc'[d].key >= doc[d].key
    BY NumbersTyped, RotationAssumption DEF IInv, KeysGrow, RotationTypeOK, Document, Keys
  <2>4. ASSUME NEW c, NEW F, Covered(u, c, F)
        PROVE  \A d \in Docs : d <= c => doc'[d].key >= run[u].toVersion \/ d \in F
    BY <2>3, <2>4 DEF Covered
  <2>5. DriverSound(u)
    BY DEF IInv
  <2> USE DEF DriverSound
  <2>6. driver[u].stage = "finding" => \A d \in Docs : d <= driver[u].cursor =>
          doc'[d].key >= run[u].toVersion \/ d \in run[u].failures
    BY <2>4, <2>5
  <2>7. driver[u].stage = "writing" => \A d \in Docs : d <= driver[u].cursor =>
          doc'[d].key >= run[u].toVersion
            \/ d \in run[u].failures \cup driver[u].found \cup driver[u].batch
    BY <2>4, <2>5
  <2>8. driver[u].stage = "saving" => \A d \in Docs : d <= driver[u].cursor =>
          doc'[d].key >= run[u].toVersion \/ d \in run[u].failures \cup driver[u].found
    BY <2>4, <2>5
  <2>9. driver[u].stage = "saving" /\ driver[u].done => \A d \in Docs : d <= DocCount =>
          doc'[d].key >= run[u].toVersion \/ d \in run[u].failures \cup driver[u].found
    BY <2>4, <2>5
  <2> QED
    BY <1>1, <2>1, <2>2, <2>5, <2>6, <2>7, <2>8, <2>9 DEF Covered
<1> QED
  BY <1>1, <1>2, <1>3

LEMMA StartRotationSound ==
  ASSUME IInv, RotationTypeOK', KeysGrow, NEW a \in Admins, NEW u \in Runs, StartRotation(a, u)
  PROVE  IInv'
<1>1. /\ doc' = doc /\ activeKey' = activeKey /\ verifiedKey' = verifiedKey
      /\ \A b \in Admins \ {a} : admin'[b] = admin[b]
      /\ \A w \in Runs \ {u} : run'[w] = run[w]
      /\ run[u].status = "NONE" /\ run'[u].status = "RUNNING" /\ run'[u].toVersion = activeKey
      /\ run'[u].cursor = 0 /\ run'[u].done = FALSE /\ run'[u].failures = {}
      /\ admin'[a].stage = "idle"
      /\ StartDriver(u)
  BY DEF StartRotation, IInv, RotationTypeOK, NoRun, NoRequest
<1>2. driver[u].stage = "none"
  BY <1>1 DEF IInv, DriverSound
<1>3. /\ \A w \in Runs \ {u} : driver'[w] = driver[w]
      /\ DriverSound(u)'
  BY <1>1, <1>2, StartDriverSound
<1>4. \A d \in Docs : ~(d <= 0)
  BY RotationAssumption DEF Docs
<1>5. activeKey \in Nat
  BY NumbersTyped DEF IInv
<1>6. RunSound(u)'
  BY <1>1, <1>4, <1>5 DEF RunSound, Covered
<1>7. AdminSound(a)'
  BY <1>1 DEF AdminSound
<1> QED
  BY <1>1, <1>3, <1>6, <1>7, RequestOnly

LEMMA ResumeRotationSound ==
  ASSUME IInv, RotationTypeOK', KeysGrow, NEW a \in Admins, ResumeRotation(a)
  PROVE  IInv'
<1>1. PICK u \in Runs : u = admin[a].on /\ run[u].status # "NONE"
  BY DEF ResumeRotation, IInv, AdminSound
<1> DEFINE s == IF admin[a].status = "RUNNING" THEN run[u].status ELSE "RUNNING"
<1>2. /\ doc' = doc /\ activeKey' = activeKey /\ verifiedKey' = verifiedKey
      /\ \A b \in Admins \ {a} : admin'[b] = admin[b]
      /\ \A w \in Runs \ {u} : run'[w] = run[w]
      /\ run'[u] = [run[u] EXCEPT !.status = s]
      /\ admin'[a].stage = "idle"
      /\ StartDriver(u)
  BY <1>1 DEF ResumeRotation, IInv, RotationTypeOK, NoRequest
<1>3. /\ run'[u].status \in {run[u].status, "RUNNING"} /\ run'[u].toVersion = run[u].toVersion
      /\ run'[u].cursor = run[u].cursor /\ run'[u].done = run[u].done
      /\ run'[u].failures = run[u].failures
  BY <1>1, <1>2, NumbersTyped DEF IInv, Run
<1> HIDE DEF s
<1>4. /\ \A w \in Runs \ {u} : driver'[w] = driver[w]
      /\ DriverSound(u)'
  BY <1>1, <1>2, <1>3, StartDriverSound
<1>5. RunSound(u)'
  BY <1>1, <1>2, <1>3 DEF IInv, RunSound, Covered
<1>6. AdminSound(a)'
  BY <1>2 DEF AdminSound
<1>7. run[u].status # "NONE" => run'[u].status # "NONE" /\ (run[u].done => run'[u].done)
  BY <1>1, <1>3
<1>8. \A w \in Runs \ {u} : /\ run'[w] = run[w] /\ driver'[w] = driver[w]
                            /\ verifiedKey'[w] = verifiedKey[w]
  BY <1>2, <1>4
<1> QED
  BY <1>1, <1>2, <1>4, <1>5, <1>6, <1>7, <1>8, RequestOnly

LEMMA AskSound ==
  ASSUME IInv, RotationTypeOK', KeysGrow, NEW a \in Admins,
         \/ AskRotation(a)
         \/ \E u \in Runs : AskResume(a, u) \/ AskVerify(a, u)
  PROVE  IInv'
<1>1. CASE AskRotation(a)
  <2>1. AdminSound(a)'
    BY <1>1 DEF AskRotation, AdminSound, NoRequest, IInv, RotationTypeOK
  <2> QED
    BY <1>1, <2>1, RequestReads DEF AskRotation, IInv, RotationTypeOK
<1>2. ASSUME NEW u \in Runs, AskResume(a, u)
      PROVE  IInv'
  <2>1. AdminSound(a)'
    BY <1>2 DEF AskResume, AdminSound, NoRequest, IInv, RotationTypeOK
  <2> QED
    BY <1>2, <2>1, RequestReads DEF AskResume, IInv, RotationTypeOK
<1>3. ASSUME NEW u \in Runs, AskVerify(a, u)
      PROVE  IInv'
  <2>1. /\ run' = run /\ run[u].status # "NONE"
        /\ admin'[a].stage = "counting" /\ admin'[a].on = u /\ admin'[a].status = run[u].status
    BY <1>3 DEF AskVerify, NoRequest, IInv, RotationTypeOK
  <2>2. AdminSound(a)'
    BY <2>1 DEF AdminSound, RunSound, IInv
  <2> QED
    BY <1>3, <2>2, RequestReads DEF AskVerify, IInv, RotationTypeOK
<1> QED
  BY <1>1, <1>2, <1>3

\* A count of none says that every document is on the active key.
LEMMA CountOutstandingSound ==
  ASSUME IInv, RotationTypeOK', KeysGrow, NEW a \in Admins, CountOutstanding(a)
  PROVE  IInv'
<1>1. /\ UNCHANGED <<activeKey, doc, run, driver, verifiedKey>>
      /\ \A b \in Admins \ {a} : admin'[b] = admin[b]
      /\ admin[a].stage = "counting"
      /\ admin'[a].stage = "verifying" /\ admin'[a].outstanding = Cardinality(Stale)
      /\ admin'[a].on = admin[a].on /\ admin'[a].status = admin[a].status
  <2>1. admin[a] \in Admin
    BY DEF IInv, RotationTypeOK
  <2> QED
    BY <2>1 DEF CountOutstanding, IInv, RotationTypeOK, Admin
<1>2. Cardinality(Stale) = 0 => \A d \in Docs : doc[d].key = activeKey
  BY StaleCount DEF IInv, Stale
<1>3. AdminSound(a)'
  BY <1>1, <1>2 DEF AdminSound, IInv
<1> QED
  BY <1>1, <1>3, RequestReads

LEMMA VerifyRotationSound ==
  ASSUME IInv, RotationTypeOK', KeysGrow, NEW a \in Admins, VerifyRotation(a)
  PROVE  IInv'
<1>1. PICK u \in Runs :
        u = admin[a].on /\ run[u].status # "NONE" /\ AdminSound(a) /\ admin[a].stage = "verifying"
  BY DEF VerifyRotation, Verify, IInv, AdminSound
<1>2. /\ doc' = doc /\ activeKey' = activeKey /\ driver' = driver
      /\ \A b \in Admins \ {a} : admin'[b] = admin[b]
      /\ admin'[a].stage = "idle"
  BY DEF VerifyRotation, Verify, IInv, RotationTypeOK, NoRequest
<1>3. AdminSound(a)'
  BY <1>2 DEF AdminSound
<1>4. CASE run' = run /\ verifiedKey' = verifiedKey
  BY <1>2, <1>3, <1>4, RequestReads
<1>5. CASE admin[a].outstanding = 0 /\ ~admin[a].failed /\ admin[a].status = "COMPLETED"
  <2>1. run[u].done /\ \A d \in Docs : doc[d].key = activeKey
    BY <1>1, <1>5 DEF AdminSound
  <2>2. /\ \A w \in Runs \ {u} : run'[w] = run[w] /\ verifiedKey'[w] = verifiedKey[w]
        /\ run'[u] = [run[u] EXCEPT !.status = "VERIFIED"] /\ verifiedKey'[u] = activeKey
    BY <1>1, <1>5 DEF VerifyRotation, Verify, IInv, RotationTypeOK
  <2>3. /\ run'[u].status = "VERIFIED" /\ run'[u].toVersion = run[u].toVersion
        /\ run'[u].cursor = run[u].cursor /\ run'[u].done = run[u].done
        /\ run'[u].failures = run[u].failures
    BY <1>1, <2>2, NumbersTyped DEF IInv, Run
  <2>4. activeKey \in Nat
    BY NumbersTyped DEF IInv
  <2>5. RunSound(u)'
    BY <1>1, <1>2, <2>1, <2>2, <2>3, <2>4 DEF IInv, RunSound, Covered
  <2>6. DriverSound(u)'
    BY <1>1, <1>2, <2>3 DEF IInv, DriverSound, Covered
  <2> QED
    BY <1>1, <1>2, <1>3, <2>2, <2>3, <2>5, <2>6, RequestOnly
<1> QED
  BY <1>4, <1>5 DEF VerifyRotation, Verify

-----------------------------------------------------------------------------
(* The whole invariant *)

LEMMA InitHolds == RotationInit => IInv
<1> SUFFICES ASSUME RotationInit PROVE IInv
  OBVIOUS
<1>1. RotationTypeOK
  BY RotationAssumption DEF RotationInit, RotationTypeOK, Document, Contents, NoCopy, Keys, NoRun, NoDriver,
     NoRequest, Run, Driver, Admin, RunStatus, Failures
<1>2. KeysBehind
  BY DEF RotationInit, KeysBehind
<1>3. ASSUME NEW u \in Runs
      PROVE  RunSound(u) /\ DriverSound(u)
  BY RotationAssumption DEF RotationInit, RunSound, DriverSound, Covered, NoRun, NoDriver
<1>4. \A a \in Admins : AdminSound(a)
  BY DEF RotationInit, AdminSound, NoRequest
<1> QED
  BY <1>1, <1>2, <1>3, <1>4 DEF IInv

LEMMA StepHolds == IInv /\ [RotationNext]_rotationVars => IInv'
<1> SUFFICES ASSUME IInv, [RotationNext]_rotationVars PROVE IInv'
  OBVIOUS
<1>1. RotationTypeOK'
  BY Typed DEF IInv
<1>2. KeysGrow
  BY <1>1, OnlyNewer
<1>3. ASSUME NEW u \in Runs, DriverStep(u) \/ RefuseBatch(u)
      PROVE  IInv'
  BY <1>1, <1>2, <1>3, LoadRunSound, FindBatchSound, WriteDocumentSound, RefuseBatchSound,
     PauseSound, SaveProgressSound, CompleteSound DEF DriverStep
<1>4. ASSUME NEW a \in Admins, AskRotation(a) \/ \E u \in Runs : AskResume(a, u) \/ AskVerify(a, u)
      PROVE  IInv'
  BY <1>1, <1>2, <1>4, AskSound
<1>5. ASSUME NEW a \in Admins, ResumeRotation(a) \/ CountOutstanding(a) \/ VerifyRotation(a)
      PROVE  IInv'
  BY <1>1, <1>2, <1>5, ResumeRotationSound, CountOutstandingSound, VerifyRotationSound
<1>6. ASSUME NEW a \in Admins, NEW u \in Runs, StartRotation(a, u)
      PROVE  IInv'
  BY <1>1, <1>2, <1>6, StartRotationSound
<1>7. ASSUME run' = run, driver' = driver, admin' = admin, activeKey' = activeKey,
             verifiedKey' = verifiedKey
      PROVE  IInv'
  <2>1. \A u \in Runs : RunSound(u)' /\ DriverSound(u)'
    BY <1>1, <1>2, <1>7, OthersKeep
  <2>2. \A a \in Admins : AdminSound(a)'
    BY <1>1, <1>2, <1>7, AdminKeeps
  <2>3. KeysBehind'
    BY <1>2 DEF KeysBehind, KeysGrow
  <2> QED
    BY <1>1, <2>1, <2>2, <2>3 DEF IInv
<1>8. ASSUME NEW d \in Docs, EditDocument(d) \/ RepairDocument(d)
      PROVE  IInv'
  BY <1>7, <1>8 DEF EditDocument, RepairDocument
<1>9. ASSUME Restart
      PROVE  IInv'
  <2>1. /\ run' = run /\ verifiedKey' = verifiedKey
        /\ \A u \in Runs : driver'[u] = NoDriver
        /\ \A a \in Admins : admin'[a] = NoRequest
    BY <1>9 DEF Restart
  <2>2. \A u \in Runs : RunSound(u)'
    BY <1>1, <1>2, <2>1, OthersKeep
  <2>3. \A u \in Runs : DriverSound(u)'
    BY <2>1 DEF DriverSound, NoDriver
  <2>4. \A a \in Admins : AdminSound(a)'
    BY <2>1 DEF AdminSound, NoRequest
  <2>5. KeysBehind'
    BY <1>2 DEF KeysBehind, KeysGrow
  <2> QED
    BY <1>1, <2>2, <2>3, <2>4, <2>5 DEF IInv
<1>10. CASE UNCHANGED rotationVars
  BY <1>7, <1>10 DEF rotationVars
<1> QED
  BY <1>3, <1>4, <1>5, <1>6, <1>8, <1>9, <1>10 DEF RotationNext

LEMMA InvImplies == IInv => RunsTellTheTruth
<1> SUFFICES ASSUME IInv PROVE RunsTellTheTruth
  OBVIOUS
<1>1. VerifiedMeansNoneOlder
  BY DEF IInv, RunSound, VerifiedMeansNoneOlder
<1>2. CompletedConverted
  <2> SUFFICES ASSUME NEW u \in Runs, run[u].status \in {"COMPLETED", "VERIFIED"}, NEW d \in Docs
               PROVE  doc[d].key >= run[u].toVersion \/ d \in run[u].failures
    BY DEF CompletedConverted
  <2>1. Covered(u, DocCount, run[u].failures)
    BY DEF IInv, RunSound
  <2>2. d <= DocCount
    BY NumbersTyped DEF IInv
  <2> QED
    BY <2>1, <2>2 DEF Covered
<1> QED
  BY <1>1, <1>2 DEF RunsTellTheTruth

-----------------------------------------------------------------------------
(* What the users saved *)

\* What a sweep holds of a document is what it says, but for an edit in between.
CopiesCurrent(u) ==
  driver[u].stage = "writing" =>
    \A d \in driver[u].batch \ overtaken : driver[u].copy[d] = doc[d].content

EditInv == EditsSurvive /\ \A u \in Runs : CopiesCurrent(u)

\* A step that writes no content, and after which no other batch is in hand.
LEMMA EditsIdle ==
  ASSUME RotationTypeOK, EditInv, latest' = latest, overtaken' = overtaken,
         \A d \in Docs : doc'[d].content = doc[d].content,
         \A u \in Runs : driver'[u] = driver[u] \/ driver'[u].stage # "writing"
  PROVE  EditInv'
<1>1. EditsSurvive'
  BY DEF EditInv, EditsSurvive
<1>2. ASSUME NEW u \in Runs
      PROVE  CopiesCurrent(u)'
  <2>1. driver[u].batch \in SUBSET Docs
    BY DEF RotationTypeOK, Driver
  <2> QED
    BY <2>1 DEF EditInv, CopiesCurrent
<1> QED
  BY <1>1, <1>2 DEF EditInv

\* The copies are taken of what the documents say.
LEMMA FindBatchEdits ==
  ASSUME IInv, EditInv, NEW u \in Runs, FindBatch(u)
  PROVE  EditInv'
<1> DEFINE batch == NextBatch(driver[u].cursor)
           unreadable == {d \in batch : ~doc[d].readable}
           copies == Copies(batch \ unreadable)
           stage == IF batch = unreadable THEN "saving" ELSE "writing"
<1>1. /\ driver[u] \in Driver /\ driver[u].cursor \in 0..DocCount
      /\ driver \in [Runs -> Driver]
      /\ UNCHANGED <<doc, latest, overtaken>>
  BY DEF IInv, RotationTypeOK, Driver, FindBatch
<1>2. \A w \in Runs \ {u} : driver'[w] = driver[w]
  BY <1>1 DEF FindBatch
<1>3. CASE batch = {}
  <2>1. driver'[u] = [driver[u] EXCEPT !.stage = "saving", !.done = TRUE]
    BY <1>1, <1>3 DEF FindBatch
  <2>2. driver'[u].stage = "saving"
    BY <1>1, <2>1 DEF Driver
  <2> QED
    BY <1>1, <1>2, <2>2, EditsIdle DEF IInv
<1>4. CASE batch # {}
  <2>1. driver'[u] = [driver[u] EXCEPT !.stage = stage, !.cursor = Max(batch), !.found = unreadable,
                        !.batch = batch \ unreadable, !.copy = copies]
    BY <1>1, <1>4 DEF FindBatch
  <2>2. batch \in SUBSET Docs
    BY <1>1, BatchSkipsNone DEF IInv
  <2>3. \A d \in batch \ unreadable : copies[d] = doc[d].content
    BY <2>2 DEF Copies
  <2> HIDE DEF batch, unreadable, copies, stage
  <2>4. driver'[u].batch = batch \ unreadable /\ driver'[u].copy = copies
    BY <1>1, <2>1 DEF Driver
  <2>5. CopiesCurrent(u)'
    BY <1>1, <2>3, <2>4 DEF CopiesCurrent
  <2>6. \A w \in Runs \ {u} : CopiesCurrent(w)'
    BY <1>1, <1>2 DEF EditInv, CopiesCurrent
  <2> QED
    BY <1>1, <2>5, <2>6 DEF EditInv, EditsSurvive
<1> QED
  BY <1>3, <1>4

\* What is written back says what the document says already, unless it was overtaken.
LEMMA WriteDocumentEdits ==
  ASSUME IInv, EditInv, NEW u \in Runs, WriteDocument(u)
  PROVE  EditInv'
<1>1. /\ latest' = latest /\ overtaken' = overtaken /\ driver[u].stage = "writing"
      /\ \A w \in Runs \ {u} : driver'[w] = driver[w]
  BY WriteEffect
<1>2. PICK d \in driver[u].batch :
        /\ d \in Docs /\ doc'[d].content = driver[u].copy[d]
        /\ \A e \in Docs \ {d} : doc'[e] = doc[e]
        /\ driver'[u].batch = driver[u].batch \ {d}
        /\ driver'[u].stage = IF driver[u].batch = {d} THEN "saving" ELSE "writing"
        /\ driver[u].batch # {d} => driver'[u].copy = driver[u].copy
  BY WriteEffect
<1>3. \A w \in Runs : driver[w].batch \in SUBSET Docs
  BY DEF IInv, RotationTypeOK, Driver
<1>4. d \notin overtaken => driver[u].copy[d] = doc[d].content
  BY <1>1, <1>2 DEF EditInv, CopiesCurrent
<1>5. \A e \in Docs \ overtaken : doc'[e].content = doc[e].content
  BY <1>2, <1>4
<1>6. EditsSurvive'
  BY <1>1, <1>5 DEF EditInv, EditsSurvive
<1>7. ASSUME NEW w \in Runs \ {u}
      PROVE  CopiesCurrent(w)'
  BY <1>1, <1>3, <1>5 DEF EditInv, CopiesCurrent
<1>8. CopiesCurrent(u)'
  <2>1. CASE driver[u].batch = {d}
    BY <1>2, <2>1 DEF CopiesCurrent
  <2>2. CASE driver[u].batch # {d}
    BY <1>1, <1>2, <1>3, <1>5, <2>2 DEF EditInv, CopiesCurrent
  <2> QED
    BY <2>1, <2>2
<1> QED
  BY <1>6, <1>7, <1>8 DEF EditInv

\* An edit is the last that was saved, and overtakes every copy of its document.
LEMMA EditDocumentEdits ==
  ASSUME IInv, EditInv, NEW d \in Docs, EditDocument(d)
  PROVE  EditInv'
<1>0. PICK key : doc' = [doc EXCEPT ![d] = [doc[d] EXCEPT !.key = key, !.content = edits + 1]]
  BY DEF EditDocument
<1>1. /\ driver' = driver
      /\ doc'[d].content = edits + 1 /\ latest'[d] = edits + 1
      /\ \A e \in Docs \ {d} : doc'[e] = doc[e] /\ latest'[e] = latest[e]
      /\ overtaken' = IF InHand(d) THEN overtaken \cup {d} ELSE overtaken \ {d}
  BY <1>0 DEF EditDocument, IInv, RotationTypeOK, Document
<1>2. EditsSurvive'
  BY <1>1 DEF EditInv, EditsSurvive
<1>3. ASSUME NEW u \in Runs, driver[u].stage = "writing",
             NEW e \in driver[u].batch, e \notin overtaken'
      PROVE  driver[u].copy[e] = doc'[e].content
  <2>1. e \in Docs
    BY DEF IInv, RotationTypeOK, Driver
  <2>2. e # d
    BY <1>1, <1>3 DEF InHand, Drives
  <2> QED
    BY <1>1, <1>3, <2>1, <2>2 DEF EditInv, CopiesCurrent
<1> QED
  BY <1>1, <1>2, <1>3 DEF EditInv, CopiesCurrent

LEMMA EditsStep ==
  IInv /\ EditInv /\ [RotationNext]_rotationVars => EditInv'
<1> SUFFICES ASSUME IInv, EditInv, [RotationNext]_rotationVars PROVE EditInv'
  OBVIOUS
<1>0. RotationTypeOK
  BY DEF IInv
<1>1. ASSUME NEW u \in Runs, FindBatch(u)
      PROVE  EditInv'
  BY <1>1, FindBatchEdits
<1>2. ASSUME NEW u \in Runs, WriteDocument(u)
      PROVE  EditInv'
  BY <1>2, WriteDocumentEdits
<1>3. ASSUME NEW u \in Runs, LoadRun(u) \/ RefuseBatch(u) \/ Pause(u) \/ SaveProgress(u) \/ Complete(u)
      PROVE  EditInv'
  <2>0. driver \in [Runs -> Driver] /\ driver[u] \in Driver
    BY <1>0 DEF RotationTypeOK
  <2>1. driver'[u].stage # "writing" /\ \A w \in Runs \ {u} : driver'[w] = driver[w]
    <3>1. CASE LoadRun(u)
      <4> DEFINE next == [stage |-> IF run[u].done THEN "completing" ELSE "finding",
                          cursor |-> run[u].cursor, done |-> run[u].done, found |-> {},
                          batch |-> {}, copy |-> NoCopy]
      <4>1. driver' = [driver EXCEPT ![u] = IF run[u].status # "RUNNING" THEN NoDriver ELSE next]
        BY <3>1 DEF LoadRun
      <4>2. next.stage # "writing" /\ NoDriver.stage # "writing"
        BY DEF NoDriver
      <4> HIDE DEF next
      <4> QED
        BY <2>0, <4>1, <4>2
    <3>2. CASE RefuseBatch(u)
      BY <2>0, <3>2 DEF RefuseBatch, LeaveBatch, Driver
    <3>3. CASE SaveProgress(u)
      BY <2>0, <3>3 DEF SaveProgress, DriveTo, Driver
    <3>4. CASE Pause(u) \/ Complete(u)
      BY <2>0, <3>4 DEF Pause, Complete, NoDriver
    <3> QED
      BY <1>3, <3>1, <3>2, <3>3, <3>4
  <2>2. UNCHANGED <<doc, latest, overtaken>>
    BY <1>3 DEF LoadRun, RefuseBatch, Pause, SaveProgress, Complete
  <2> QED
    BY <1>0, <2>1, <2>2, EditsIdle
<1>4. ASSUME NEW u \in Runs, StartDriver(u), UNCHANGED <<doc, latest, overtaken>>
      PROVE  EditInv'
  <2>1. driver'[u].stage # "writing" \/ driver' = driver
    BY <1>0, <1>4 DEF StartDriver, Drives, NoDriver, RotationTypeOK
  <2>2. \A w \in Runs \ {u} : driver'[w] = driver[w]
    BY <1>0, <1>4 DEF StartDriver, RotationTypeOK
  <2> QED
    BY <1>0, <1>4, <2>1, <2>2, EditsIdle
<1>5. ASSUME NEW a \in Admins, NEW u \in Runs, StartRotation(a, u)
      PROVE  EditInv'
  BY <1>4, <1>5 DEF StartRotation
<1>6. ASSUME NEW a \in Admins, ResumeRotation(a)
      PROVE  EditInv'
  <2>1. admin[a].on \in Runs
    BY <1>6 DEF ResumeRotation, IInv, AdminSound
  <2> QED
    BY <1>4, <1>6, <2>1 DEF ResumeRotation
<1>7. ASSUME UNCHANGED <<doc, driver, latest, overtaken>>
      PROVE  EditInv'
  BY <1>0, <1>7, EditsIdle
<1>8. ASSUME NEW a \in Admins,
             \/ AskRotation(a) \/ CountOutstanding(a) \/ VerifyRotation(a)
             \/ \E u \in Runs : AskResume(a, u) \/ AskVerify(a, u)
      PROVE  EditInv'
  BY <1>7, <1>8 DEF AskRotation, CountOutstanding, VerifyRotation, Verify, AskResume, AskVerify
<1>9. ASSUME NEW d \in Docs, EditDocument(d)
      PROVE  EditInv'
  BY <1>9, EditDocumentEdits
<1>10. ASSUME NEW d \in Docs, RepairDocument(d)
       PROVE  EditInv'
  <2>1. \A e \in Docs : doc'[e].content = doc[e].content
    BY <1>0, <1>10 DEF RepairDocument, RotationTypeOK, Document
  <2> QED
    BY <1>0, <1>10, <2>1, EditsIdle DEF RepairDocument
<1>11. ASSUME Restart
       PROVE  EditInv'
  <2>1. UNCHANGED <<doc, latest, overtaken>> /\ \A u \in Runs : driver'[u].stage # "writing"
    BY <1>11 DEF Restart, NoDriver
  <2> QED
    BY <1>0, <2>1, EditsIdle
<1>12. CASE UNCHANGED rotationVars
  BY <1>7, <1>12 DEF rotationVars
<1> QED
  BY <1>1, <1>2, <1>3, <1>5, <1>6, <1>8, <1>9, <1>10, <1>11, <1>12 DEF RotationNext, DriverStep

LEMMA EditsInit == RotationInit => EditInv
  BY DEF RotationInit, EditInv, EditsSurvive, CopiesCurrent, NoDriver

-----------------------------------------------------------------------------
(* The theorems *)

\* The types of the documents, runs, drivers and requests are kept, whatever the
\* batches, keys and restarts (services/rotation.ts, keys.controller.ts).
THEOREM RotationTyped == RotationSpec => []RotationTypeOK
<1>1. IInv => RotationTypeOK
  BY DEF IInv
<1> QED
  BY InitHolds, StepHolds, <1>1, PTL DEF RotationSpec

\* A run that says it completed has converted every document it did not record as a
\* failure, and one that says it was verified left none on an older key than the one
\* it was verified for: for any number of documents and batches, of runs and requests
\* under way together, and wherever restarts interrupt them (driveRotation,
\* verifyRotation).
THEOREM RunsAreTruthful == RotationSpec => []RunsTellTheTruth
  BY InitHolds, StepHolds, InvImplies, PTL DEF RotationSpec

\* A document says what was last saved in it, unless a sweep had read it before that
\* edit: whatever the sweeps under way together, the batches the database refuses in the
\* middle, the restarts and the keys (rotateUserBatch).
THEOREM EditsOutsideASweep == RotationSpec => []EditsSurvive
<1>1. EditInv => EditsSurvive
  BY DEF EditInv
<1> QED
  BY InitHolds, StepHolds, EditsInit, EditsStep, <1>1, PTL DEF RotationSpec

\* A sweep tells the truth of the documents and changes none of them: the property of
\* the run, from the two theorems before.
THEOREM SweepsSound == RotationSpec => []SweepsAreSound
<1>1. RunsTellTheTruth /\ EditsSurvive => SweepsAreSound
  BY DEF SweepsAreSound
<1> QED
  BY RunsAreTruthful, EditsOutsideASweep, <1>1, PTL
=============================================================================
