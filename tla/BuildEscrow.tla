----------------------------- MODULE BuildEscrow -----------------------------
(***************************************************************************)
(* The construction escrow: one build contract, the stages (milestones) of *)
(* its schedule and the disputes filed on them.  A stage is funded, claimed,*)
(* inspected and released by build.controller.ts; a supervisor's decision  *)
(* in disputes.controller.ts moves the same money.                         *)
(*                                                                         *)
(* A handler loads the contract and the stage, checks its copies, awaits,  *)
(* and saves.  A save writes only the fields that differ from the copy,    *)
(* pushes to the list of payments whatever it holds by then, and signs the *)
(* WHOLE copy: the integrity tag covers fields the save did not write.     *)
(*                                                                         *)
(* The contract's tag also covers String(client) and String(contractor).   *)
(* The award and the gateway read a contract alone, and sign two ids;      *)
(* build.controller.ts has the parties read with it, and signs, and checks *)
(* the tag against, two people.  The parties' names are taken as fixed.    *)
(***************************************************************************)
EXTENDS Naturals, FiniteSets

CONSTANTS
  Stages,       \* the milestones of the contract
  Disputes,     \* the disputes that may be filed
  Requests,     \* the request handlers that can be in flight together
  Role,         \* who sends each of them
  Amount,       \* Milestone.amountBdt, the same for every stage
  Commission,   \* Math.round(amountBdt * commissionRate)
  None,         \* nothing
  MaxDeaths     \* bound: stages on which a request may die half way

MilestoneStatus == {"PENDING", "FUNDED", "AWAITING_INSPECTION",
                    "INSPECTION_PASSED", "RELEASED"}
BuildContractStatus == {"ACTIVE", "COMPLETED"}
DisputeStatus == {"OPEN", "UNDER_REVIEW", "RESOLVED", "WITHDRAWN"}

Roles == {"owner", "gateway", "contractor", "engineer", "supervisor"}

Dispute == [target : Stages, raisedBy : Roles, status : DisputeStatus]

ASSUME BuildAssumption ==
  /\ IsFiniteSet(Requests)
  /\ IsFiniteSet(Stages) /\ Stages # {}   \* DEFAULT_MILESTONE_TEMPLATE
  /\ Role \in [Requests -> Roles]
  /\ Amount \in Nat /\ Commission \in 0 .. Amount
  /\ None \notin Stages \cup Disputes \cup Dispute
  /\ MaxDeaths \in Nat

VARIABLES
  \* --- the build contract and the project
  contract,      \* number of payments, releasedToContractorBdt, commissionBdt, status
  contractTag,   \* BuildContract.integrity: what was signed
  spelt,         \* and how the client and the contractor were spelt in it
  project,       \* Project.status
  \* --- the stages
  stage,         \* Milestone.status and releasedAmountBdt
  stageTag,      \* Milestone.integrity: what was signed, or None when nothing was
  \* --- the disputes
  dispute,       \* Dispute.target, raisedBy and status, or None
  \* --- the requests in flight
  at,            \* the await each request has not come back from
  on,            \* the stage it works on
  about,         \* the dispute it works on
  copy,          \* the contract and the stage it loaded
  plan,          \* what a resolution gives back and pays out
  \* --- history, read by no action
  wired,         \* a deposit was paid through the gateway
  paidIn,        \* what the owner escrowed for each stage
  paidOut,       \* what the ledger paid out for each stage, either way
  ledgerOut,     \* what the entries of the ledger have released in all
  moves,         \* how often each dispute's decision moved money
  standing,      \* disputes live ever since the request loaded its stage
  arbitrated,    \* stages a supervisor moved money of
  interrupted,   \* stages a request died on
  overtaken,     \* a document was saved while another request held a copy to save
  rivals,        \* stages saved while another request held the status to do the same
  crossed,       \* a release was paid while another held the total it adds to
  contested      \* disputes decided while another supervisor was at work on them

tagVars      == <<contractTag, spelt, wired>>
contractVars == <<contract, tagVars, project>>
stageVars    == <<stage, stageTag>>
requestVars  == <<at, on, about, copy, plan>>
moneyVars    == <<paidIn, paidOut, ledgerOut, moves>>
vars == <<contractVars, stageVars, dispute, requestVars, moneyVars, standing,
          arbitrated, interrupted, overtaken, rivals, crossed, contested>>

Contract == [entries : Nat, released : Nat, commission : Nat, status : BuildContractStatus]
Stage    == [status : MilestoneStatus, paid : Nat]
Spellings == {"ids", "people"}
Copy     == [contract : Contract, stage : Stage, intact : BOOLEAN]

Places == {"idle", "depositing", "marking", "claiming", "inspecting", "asking",
           "releasing", "counting", "completing", "paying",
           "payingLast", "editing",
           "filing", "reviewing", "withdrawing", "weighing", "moving",
           "stamping", "resolving"}

TypeOK ==
  /\ contract \in Contract /\ contractTag \in Contract
  /\ spelt \in Spellings /\ wired \in BOOLEAN
  /\ project \in {"CONSTRUCTION", "COMPLETED"}
  /\ stage \in [Stages -> Stage] /\ stageTag \in [Stages -> Stage \cup {None}]
  /\ dispute \in [Disputes -> Dispute \cup {None}]
  /\ at \in [Requests -> Places]
  /\ on \in [Requests -> Stages \cup {None}]
  /\ about \in [Requests -> Disputes \cup {None}]
  /\ copy \in [Requests -> Copy \cup {None}]
  /\ plan \in [Requests -> [refund : Nat, release : Nat]]
  /\ paidIn \in [Stages -> Nat] /\ paidOut \in [Stages -> Nat]
  /\ ledgerOut \in Nat /\ moves \in [Disputes -> Nat]
  /\ standing \in [Requests -> SUBSET Disputes]
  /\ arbitrated \subseteq Stages /\ interrupted \subseteq Stages
  /\ overtaken \in BOOLEAN /\ rivals \subseteq Stages /\ crossed \in BOOLEAN
  /\ contested \subseteq Disputes

NoMoney == [refund |-> 0, release |-> 0]

\* awardBid has just created the contract and, by insertMany, which no hook signs,
\* its schedule.
Init ==
  /\ contract = [entries |-> 0, released |-> 0, commission |-> 0, status |-> "ACTIVE"]
  /\ contractTag = contract
  /\ spelt = "ids" /\ wired = FALSE
  /\ project = "CONSTRUCTION"
  /\ stage = [m \in Stages |-> [status |-> "PENDING", paid |-> 0]]
  /\ stageTag = [m \in Stages |-> None]
  /\ dispute = [d \in Disputes |-> None]
  /\ at = [r \in Requests |-> "idle"]
  /\ on = [r \in Requests |-> None]
  /\ about = [r \in Requests |-> None]
  /\ copy = [r \in Requests |-> None]
  /\ plan = [r \in Requests |-> NoMoney]
  /\ paidIn = [m \in Stages |-> 0]
  /\ paidOut = [m \in Stages |-> 0]
  /\ ledgerOut = 0
  /\ moves = [d \in Disputes |-> 0]
  /\ standing = [r \in Requests |-> {}]
  /\ arbitrated = {} /\ interrupted = {} /\ overtaken = FALSE
  /\ rivals = {} /\ crossed = FALSE /\ contested = {}

-----------------------------------------------------------------------------
(* Disputes, as the other handlers see them *)

\* LIVE_DISPUTE_STATUSES
IsLive(d) == dispute[d] # None /\ dispute[d].status \in {"OPEN", "UNDER_REVIEW"}

LiveOn(m) == {d \in Disputes : IsLive(d) /\ dispute[d].target = m}

\* (mutant) Only a dispute nobody has opened yet freezes the stage.
HasOpenDispute(m) == \E d \in LiveOn(m) : dispute[d].status = "OPEN"

HasLiveDispute(m) == LiveOn(m) # {}

-----------------------------------------------------------------------------
(* Requests *)

\* How the parties stand in a contract the request has read: settle reads it alone,
\* findContractOr404 populates them.
Spelling(r) == IF Role[r] = "gateway" THEN "ids" ELSE "people"

\* integrityVerdict: a record without a tag is let through.
Verifies(tag, doc) == tag \in {None, doc}

\* findContractOr404 and findMilestoneOr404: the request holds both copies, and
\* whether their tags match them (ledgerProblem judges the copies).
Load(r, place, m, d) ==
  /\ at[r] = "idle"
  /\ at' = [at EXCEPT ![r] = place]
  /\ on' = [on EXCEPT ![r] = m]
  /\ about' = [about EXCEPT ![r] = d]
  /\ copy' = [copy EXCEPT ![r] =
       [contract |-> contract, stage |-> stage[m],
        intact |-> /\ contractTag = contract /\ spelt = Spelling(r)
                   /\ Verifies(stageTag[m], stage[m])]]
  /\ standing' = [standing EXCEPT ![r] = LiveOn(m)]
  /\ UNCHANGED <<contractVars, stageVars, dispute, plan, moneyVars, arbitrated, interrupted,
                 overtaken, rivals, crossed, contested>>

Goto(r, place) ==
  /\ at' = [at EXCEPT ![r] = place]
  /\ UNCHANGED <<on, about, copy, plan, standing>>

Finish(r) ==
  /\ at' = [at EXCEPT ![r] = "idle"]
  /\ on' = [on EXCEPT ![r] = None]
  /\ about' = [about EXCEPT ![r] = None]
  /\ copy' = [copy EXCEPT ![r] = None]
  /\ plan' = [plan EXCEPT ![r] = NoMoney]
  /\ standing' = [standing EXCEPT ![r] = {}]

\* A step of request r that leaves everything but what it names alone.
Keep(unchanged) ==
  UNCHANGED <<unchanged, arbitrated, interrupted, overtaken, rivals, crossed, contested>>

\* One that saves a document.
KeepBeside(unchanged) == UNCHANGED <<unchanged, arbitrated, interrupted, contested>>

-----------------------------------------------------------------------------
(* Saving *)

\* The places of a request that may yet save the contract it loaded, or the stage.
HoldsContract == {"depositing", "asking", "releasing", "counting", "completing",
                  "paying", "payingLast"}
HoldsStage    == {"depositing", "marking", "editing", "claiming", "inspecting",
                  "asking", "releasing"}

MeetsOnContract(r) == \E q \in Requests \ {r} : at[q] \in HoldsContract
MeetsOnStage(r) == \E q \in Requests \ {r} : at[q] \in HoldsStage /\ on[q] = on[r]

\* The two claim, inspect or release the stage, from a copy in the same status.
Releasing == {"asking", "releasing"}
Rounds == {{"claiming"}, {"inspecting"}, Releasing}

MeetsInRound(r) ==
  \E q \in Requests \ {r}, round \in Rounds :
    on[q] = on[r] /\ {at[q], at[r]} \subseteq round

\* The two release, and each adds to the total of its copy.
Counting == {"counting", "completing", "paying", "payingLast"}

MeetsOnTotal(r) ==
  at[r] \in Counting /\ \E q \in Requests \ {r} : at[q] \in Releasing \cup Counting

\* A field the handler did not change is not written.
Written(old, new, now) == IF new = old THEN now ELSE new

\* The pre-save hook of protectLedger
Sign(r, new) ==
  /\ contractTag' = new
  /\ spelt' = Spelling(r)
  /\ wired' = (wired \/ Role[r] = "gateway")

\* (mutant) The totals of the copy are always written.
SaveWholeContract(r, new) ==
  /\ contract' = [new EXCEPT !.entries =
                    contract.entries + (new.entries - copy[r].contract.entries)]
  /\ Sign(r, new)
  /\ overtaken' = (overtaken \/ MeetsOnContract(r))
  /\ crossed' = (crossed \/ MeetsOnTotal(r))
  /\ UNCHANGED rivals

\* (mutant) The hook signs the contract as it was read.
SaveContractSignedBefore(r, new) ==
  /\ contract' = [new EXCEPT !.entries =
                    contract.entries + (new.entries - copy[r].contract.entries)]
  /\ Sign(r, copy[r].contract)
  /\ overtaken' = (overtaken \/ MeetsOnContract(r))
  /\ crossed' = (crossed \/ MeetsOnTotal(r))
  /\ UNCHANGED rivals

\* contract.save(): payments is a push, the totals are written as numbers, and
\* the copy is signed.
SaveContract(r, new) ==
  LET old == copy[r].contract IN
  /\ contract' = [entries    |-> contract.entries + (new.entries - old.entries),
                  released   |-> Written(old.released, new.released, contract.released),
                  commission |-> Written(old.commission, new.commission, contract.commission),
                  status     |-> Written(old.status, new.status, contract.status)]
  /\ Sign(r, new)
  /\ overtaken' = (overtaken \/ MeetsOnContract(r))
  /\ crossed' = (crossed \/ MeetsOnTotal(r))
  /\ UNCHANGED rivals

\* milestone.save()
SaveStage(r, new) ==
  LET old == copy[r].stage  m == on[r] IN
  /\ stage' = [stage EXCEPT ![m] =
       [status |-> Written(old.status, new.status, stage[m].status),
        paid   |-> Written(old.paid, new.paid, stage[m].paid)]]
  /\ stageTag' = [stageTag EXCEPT ![m] = new]
  /\ overtaken' = (overtaken \/ MeetsOnStage(r))
  /\ rivals' = IF MeetsInRound(r) THEN rivals \cup {on[r]} ELSE rivals
  /\ UNCHANGED crossed

\* (mutant) The status is set by an update, which no hook signs.
SetStageStatus(r, st) ==
  /\ stage' = [stage EXCEPT ![on[r]].status = st]
  /\ UNCHANGED <<stageTag, overtaken, rivals, crossed>>

SaveStageStatus(r, st) == SaveStage(r, [copy[r].stage EXCEPT !.status = st])

-----------------------------------------------------------------------------
(* POST /api/build/:id/milestones/:id/fund, and settle for a gateway payment *)

FundMilestone(r, m) ==
  /\ Role[r] \in {"owner", "gateway"}
  /\ stage[m].status = "PENDING"
  /\ Verifies(stageTag[m], stage[m])
  /\ Load(r, "depositing", m, None)

\* applyMilestoneFunding: the contract's ledger first,
SaveDeposit(r) ==
  LET c == copy[r].contract IN
  /\ at[r] = "depositing"
  /\ SaveContract(r, [c EXCEPT !.entries = c.entries + 1])
  /\ paidIn' = [paidIn EXCEPT ![on[r]] = @ + Amount]
  /\ Goto(r, "marking")
  /\ KeepBeside(<<project, stageVars, dispute, paidOut, ledgerOut, moves>>)

\* then the stage.
MarkFunded(r) ==
  /\ at[r] = "marking"
  /\ SaveStageStatus(r, "FUNDED")
  /\ Finish(r)
  /\ KeepBeside(<<contractVars, dispute, moneyVars>>)

-----------------------------------------------------------------------------
(* PATCH /api/build/:id/milestones/:id *)

\* The title is not modelled; the save signs the copy's status all the same.
UpdateMilestone(r, m) ==
  /\ Role[r] = "owner"
  /\ stage[m].status = "PENDING"
  /\ Load(r, "editing", m, None)

SaveEdit(r) ==
  /\ at[r] = "editing"
  /\ SaveStage(r, copy[r].stage)
  /\ Finish(r)
  /\ KeepBeside(<<contractVars, dispute, moneyVars>>)

-----------------------------------------------------------------------------
(* POST /api/build/:id/milestones/:id/claim *)

\* (mutant) A stage may be claimed again.
ClaimAgain(r, m) ==
  /\ Role[r] = "contractor"
  /\ stage[m].status # "PENDING"
  /\ Load(r, "claiming", m, None)

ClaimMilestone(r, m) ==
  /\ Role[r] = "contractor"
  /\ stage[m].status = "FUNDED"
  /\ Load(r, "claiming", m, None)

SaveClaim(r) ==
  /\ at[r] = "claiming"
  /\ SaveStageStatus(r, "AWAITING_INSPECTION")
  /\ Finish(r)
  /\ KeepBeside(<<contractVars, dispute, moneyVars>>)

-----------------------------------------------------------------------------
(* POST /api/build/:id/milestones/:id/inspect *)

\* An administrator may sign in the engineer's place: one more engineer here.
InspectMilestone(r, m) ==
  /\ Role[r] = "engineer"
  /\ stage[m].status = "AWAITING_INSPECTION"
  /\ Load(r, "inspecting", m, None)

\* (mutant) The verdict is saved as the status.
SaveVerdict(r) ==
  /\ at[r] = "inspecting"
  /\ \E st \in {"PASS", "FAIL"} : SaveStageStatus(r, st)
  /\ Finish(r)
  /\ KeepBeside(<<contractVars, dispute, moneyVars>>)

\* A failed inspection sends the stage back to the contractor.
SaveInspection(r) ==
  /\ at[r] = "inspecting"
  /\ \E st \in {"INSPECTION_PASSED", "FUNDED"} : SaveStageStatus(r, st)
  /\ Finish(r)
  /\ KeepBeside(<<contractVars, dispute, moneyVars>>)

-----------------------------------------------------------------------------
(* POST /api/build/:id/milestones/:id/release *)

Net == Amount - Commission

ReleaseMilestone(r, m) ==
  /\ Role[r] = "owner"
  /\ stage[m].status = "INSPECTION_PASSED"
  /\ Load(r, "asking", m, None)

\* hasLiveDispute, then ledgerProblem on both copies.
AskDispute(r) ==
  /\ at[r] = "asking"
  /\ IF HasLiveDispute(on[r]) \/ ~copy[r].intact
       THEN Finish(r)
       ELSE Goto(r, "releasing")
  /\ Keep(<<contractVars, stageVars, dispute, moneyVars>>)

\* The stage is saved first,
SaveReleased(r) ==
  /\ at[r] = "releasing"
  /\ SaveStage(r, [status |-> "RELEASED", paid |-> Net])
  /\ Goto(r, "counting")
  /\ KeepBeside(<<contractVars, dispute, moneyVars>>)

\* (mutant) Stages not yet funded are not counted.
OutstandingFunded == {m \in Stages : stage[m].status \notin {"PENDING", "RELEASED"}}

Outstanding == {m \in Stages : stage[m].status # "RELEASED"}

\* countDocuments: nothing is outstanding when this was the last stage,
CountOutstanding(r) ==
  /\ at[r] = "counting"
  /\ Goto(r, IF Outstanding = {} THEN "completing" ELSE "paying")
  /\ Keep(<<contractVars, stageVars, dispute, moneyVars>>)

\* Project.findByIdAndUpdate,
CompleteProject(r) ==
  /\ at[r] = "completing"
  /\ project' = "COMPLETED"
  /\ Goto(r, "payingLast")
  /\ Keep(<<contract, tagVars, stageVars, dispute, moneyVars>>)

\* and the contract last: the entry, the totals and its status in one save.
PayRelease(r) ==
  LET c == copy[r].contract IN
  /\ at[r] \in {"paying", "payingLast"}
  /\ SaveContract(r,
       [entries |-> c.entries + 1,
        released |-> c.released + Net,
        commission |-> c.commission + Commission,
        status |-> IF at[r] = "payingLast" THEN "COMPLETED" ELSE c.status])
  /\ paidOut' = [paidOut EXCEPT ![on[r]] = @ + Net]
  /\ ledgerOut' = ledgerOut + Net
  /\ Finish(r)
  /\ KeepBeside(<<project, stageVars, dispute, paidIn, moves>>)

-----------------------------------------------------------------------------
(* POST /api/disputes *)

\* resolveTarget does not look at the stage's status.
RaiseDispute(r, d, m) ==
  /\ Role[r] \in {"owner", "contractor"}
  /\ dispute[d] = None
  /\ \A q \in Requests : about[q] # d
  /\ ~HasLiveDispute(m)
  /\ Load(r, "filing", m, d)

FileDispute(r) ==
  /\ at[r] = "filing"
  /\ dispute' = [dispute EXCEPT ![about[r]] =
       [target |-> on[r], raisedBy |-> Role[r], status |-> "OPEN"]]
  /\ Finish(r)
  /\ Keep(<<contractVars, stageVars, moneyVars>>)

\* doc.status is saved over whatever it has become.
CloseOrReview(r, st) ==
  /\ dispute' = [dispute EXCEPT ![about[r]].status = st]
  /\ at' = [at EXCEPT ![r] = "idle"]
  /\ on' = [on EXCEPT ![r] = None]
  /\ about' = [about EXCEPT ![r] = None]
  /\ copy' = [copy EXCEPT ![r] = None]
  /\ plan' = [plan EXCEPT ![r] = NoMoney]
  /\ standing' = [q \in Requests |-> IF q = r THEN {} ELSE
                    IF st \in {"OPEN", "UNDER_REVIEW"} THEN standing[q]
                                                       ELSE standing[q] \ {about[r]}]

\* GET /api/disputes/:id by a supervisor
ReviewDispute(r, d) ==
  /\ Role[r] = "supervisor"
  /\ dispute[d] # None /\ dispute[d].status = "OPEN"
  /\ Load(r, "reviewing", dispute[d].target, d)

SaveReview(r) ==
  /\ at[r] = "reviewing"
  /\ CloseOrReview(r, "UNDER_REVIEW")
  /\ Keep(<<contractVars, stageVars, moneyVars>>)

\* POST /api/disputes/:id/withdraw, by the one who raised it
WithdrawDispute(r, d) ==
  /\ IsLive(d)
  /\ dispute[d].raisedBy = Role[r]
  /\ Load(r, "withdrawing", dispute[d].target, d)

SaveWithdrawal(r) ==
  /\ at[r] = "withdrawing"
  /\ CloseOrReview(r, "WITHDRAWN")
  /\ Keep(<<contractVars, stageVars, moneyVars>>)

-----------------------------------------------------------------------------
(* POST /api/disputes/:id/resolve *)

\* (mutant) A closed dispute can be decided again.
ResolveAny(r, d) ==
  /\ Role[r] = "supervisor"
  /\ dispute[d] # None
  /\ Load(r, "weighing", dispute[d].target, d)

ResolveDispute(r, d) ==
  /\ Role[r] = "supervisor"
  /\ IsLive(d)
  /\ Load(r, "weighing", dispute[d].target, d)

\* heldAmountFor: the whole stage until it is released, escrowed or not.
HeldAmount(m) == IF stage[m].status = "RELEASED" THEN 0 ELSE Amount

\* A refund of all, of nothing, or of a part.
Refunds(held) == {0, held \div 2, held}

\* What is held is read again, and with it the stage (applyLedger).
Weigh(r) ==
  LET held == HeldAmount(on[r]) IN
  /\ at[r] = "weighing"
  /\ \E back \in Refunds(held) :
       plan' = [plan EXCEPT ![r] = [refund |-> back, release |-> held - back]]
  /\ at' = [at EXCEPT ![r] = IF held = 0 THEN "resolving" ELSE "moving"]
  /\ copy' = [copy EXCEPT ![r].stage = stage[on[r]]]
  /\ UNCHANGED <<on, about, standing>>
  /\ Keep(<<contractVars, stageVars, dispute, moneyVars>>)

\* The supervisors' requests, until they have answered.
Deciding == {"reviewing", "weighing", "moving", "stamping", "resolving"}

MeetsOnDispute(r) ==
  \E q \in Requests \ {r} : at[q] \in Deciding /\ about[q] = about[r]

Contested(r) == IF MeetsOnDispute(r) THEN contested \cup {about[r]} ELSE contested

Entries(p) == Cardinality({k \in DOMAIN p : p[k] > 0})

\* BuildContract.findByIdAndUpdate: $push and $inc, and no hook to sign it.
MoveMoney(r) ==
  LET p == plan[r]  m == on[r] IN
  /\ at[r] = "moving"
  /\ contract' = [contract EXCEPT !.entries = contract.entries + Entries(p),
                                  !.released = contract.released + p.release]
  /\ paidOut' = [paidOut EXCEPT ![m] = @ + p.refund + p.release]
  /\ ledgerOut' = ledgerOut + p.release
  /\ moves' = [moves EXCEPT ![about[r]] = @ + 1]
  /\ arbitrated' = arbitrated \cup {m}
  /\ contested' = Contested(r)
  /\ Goto(r, IF p.release > 0 THEN "stamping" ELSE "resolving")
  /\ UNCHANGED <<tagVars, project, stageVars, dispute, paidIn, interrupted,
                 overtaken, rivals, crossed>>

StampReleased(r) ==
  /\ at[r] = "stamping"
  /\ SaveStage(r, [status |-> "RELEASED", paid |-> plan[r].release])
  /\ Goto(r, "resolving")
  /\ KeepBeside(<<contractVars, dispute, moneyVars>>)

SaveResolution(r) ==
  /\ at[r] = "resolving"
  /\ CloseOrReview(r, "RESOLVED")
  /\ contested' = Contested(r)
  /\ UNCHANGED <<contractVars, stageVars, moneyVars, arbitrated, interrupted,
                 overtaken, rivals, crossed>>

-----------------------------------------------------------------------------
\* A request dies between two of its steps, at most once on each stage.
Die(r) ==
  /\ at[r] # "idle"
  /\ on[r] \notin interrupted /\ Cardinality(interrupted) < MaxDeaths
  /\ interrupted' = interrupted \cup {on[r]}
  /\ Finish(r)
  /\ UNCHANGED <<contractVars, stageVars, dispute, moneyVars, arbitrated, overtaken,
                 rivals, crossed, contested>>

Start(r) ==
  \/ \E m \in Stages : FundMilestone(r, m) \/ UpdateMilestone(r, m)
                       \/ ClaimMilestone(r, m) \/ InspectMilestone(r, m)
                       \/ ReleaseMilestone(r, m)
  \/ \E d \in Disputes, m \in Stages : RaiseDispute(r, d, m)
  \/ \E d \in Disputes : ReviewDispute(r, d) \/ WithdrawDispute(r, d)
                         \/ ResolveDispute(r, d)

\* What a request under way does next.
Continue(r) ==
  \/ SaveDeposit(r) \/ MarkFunded(r)
  \/ SaveEdit(r)
  \/ SaveClaim(r)
  \/ SaveInspection(r)
  \/ AskDispute(r) \/ SaveReleased(r) \/ CountOutstanding(r)
  \/ CompleteProject(r) \/ PayRelease(r)
  \/ FileDispute(r) \/ SaveReview(r) \/ SaveWithdrawal(r)
  \/ Weigh(r) \/ MoveMoney(r) \/ StampReleased(r) \/ SaveResolution(r)

Next == \E r \in Requests : Start(r) \/ Continue(r) \/ Die(r)

Spec == Init /\ [][Next]_vars

-----------------------------------------------------------------------------
(* Properties *)

Quiet == \A r \in Requests : at[r] = "idle"

\* A stage no supervisor has decided on pays out no more than was escrowed for
\* it, whatever claims, inspections, edits and deaths interleave with its release,
\* unless two requests did one of these at once, each from its own copy.
PaidOutWithinDeposits ==
  \A m \in Stages \ (arbitrated \cup rivals) : paidOut[m] <= paidIn[m]

\* Until a supervisor moves money or two releases cross, the contract's total is what
\* the entries of its ledger add up to, although each save writes it as a number.
TotalsMatch == arbitrated = {} /\ ~crossed => contract.released = ledgerOut

\* Until a supervisor moves money, the figures signed are the figures stored whenever no
\* request is under way, and a release finds the contract as it was signed once a deposit
\* was paid by hand: no legal sequence of handlers looks like tampering, unless a document
\* was saved while another request held a copy of it (ledgerIntegrity.ts signs the copy),
\* or a deposit came through the gateway (see TamperedMeansChanged).
SealsHold ==
  Quiet /\ arbitrated = {} /\ ~overtaken =>
    /\ contractTag = contract
    /\ \A m \in Stages : Verifies(stageTag[m], stage[m])
    /\ contract.entries > 0 /\ ~wired => spelt = "people"

\* releaseMilestone never pays a stage whose dispute was live when it loaded it
\* and ever since (Dispute.ts: "while it is live the disputed amount is frozen").
FrozenWhileDisputed ==
  [][\A r \in Requests :
       at[r] = "releasing" /\ at'[r] = "counting" => standing[r] = {}]_vars

\* A released stage is taken back only if it was escrowed twice, or a supervisor
\* decided on it, or two requests claimed, inspected or released it at once (enums.ts:
\* "money only moves forward through it"): the second deposit, marked late, pays for a
\* second round.
ReleasedForGood ==
  [][\A m \in Stages \ (arbitrated' \cup rivals) :
       stage[m].status = "RELEASED" /\ stage'[m].status # "RELEASED"
         => paidIn[m] >= 2 * Amount]_vars

\* A dispute moves money at most once, whatever reviews and withdrawals race the
\* decision, unless the request that decides dies between moving the money and closing
\* the dispute, or another supervisor was at work on it at one of the two.
DecidedOnce ==
  \A d \in Disputes \ contested : dispute[d] # None =>
    moves[d] <= 1 \/ dispute[d].target \in interrupted

\* "The build is over when every stage has been paid out", and only then: a
\* complete contract has no stage outstanding but one escrowed a second time, or on
\* which two requests did the same at once.
CompletedMeansPaid ==
  contract.status = "COMPLETED" /\ arbitrated = {} =>
    \A m \in Stages \ rivals : stage[m].status = "RELEASED" \/ paidIn[m] >= 2 * Amount

\* Once every stage is released and the handlers have answered, the contract and
\* the project are complete, unless the request that would have completed them
\* died or a supervisor released a stage.
ReleasedCompletes ==
  /\ Quiet /\ arbitrated = {} /\ interrupted = {}
  /\ \A m \in Stages : stage[m].status = "RELEASED"
  =>
    contract.status = "COMPLETED" /\ project = "COMPLETED"

\* The totals a contract shows are its ledger's, and its ledger pays out no more of a
\* stage than was escrowed (build.controller.ts), until a supervisor moves money.
LedgerAddsUp == TotalsMatch /\ PaidOutWithinDeposits

\* A build is complete when, and only when, every stage is paid out (releaseMilestone),
\* but for the exceptions named above.
CompleteWhenPaid == CompletedMeansPaid /\ ReleasedCompletes

-----------------------------------------------------------------------------
(* What the comments say, and the code does not do *)

\* Dispute.ts: "A disagreement over money that is already in escrow."
DecisionMovesHeldMoney == \A m \in Stages : paidOut[m] <= paidIn[m]

\* ledgerIntegrity.ts: "the few handlers that move money that way re-seal".
ResealedAfterUpdate == Quiet => contractTag = contract

\* ledgerIntegrity.ts: "Tag present and wrong: the stored values are not what we signed."
TamperedMeansChanged ==
  \A r \in Requests : at[r] = "asking" /\ ~copy[r].intact =>
    contractTag # contract \/ ~Verifies(stageTag[on[r]], stage[on[r]])
=============================================================================
