--------------------------- MODULE DesignContract ---------------------------
(***************************************************************************)
(* One design contract, from the concept fee to the release of its escrow: *)
(* controllers/contracts.controller.ts, with the online payments that      *)
(* payments.controller.ts settles on it.                                   *)
(*                                                                         *)
(* A handler is a process: it loads the contract, checks its own copy,     *)
(* awaits, and saves the fields it changed.  Two mechanisms of Mongoose    *)
(* decide what a save does to a contract that moved meanwhile.  Arrays are *)
(* pushed to, whatever they hold by then, and every push moves the         *)
(* document's version on.  A save that edits an element in place is        *)
(* refused unless the version is still the one that was loaded, except     *)
(* when the same save also pushes.                                         *)
(***************************************************************************)
EXTENDS Integers, Sequences, FiniteSets, Nothing

CONSTANTS
  Requests,         \* the request handlers that can be in flight together
  Role,             \* who sends each of them
  DesignFee,        \* Contract.designFeeBdt
  DesignCommission, \* Math.round(designFeeBdt * commissionRate)
  MaxRevisions,     \* Contract.maxRevisions
  MaxDeliverables,  \* bound: submissions on one contract
  MaxDisputes,      \* bound: how often a dispute can be opened
  CanFail           \* may a request die half way?

ContractStatus == {"AWAITING_CONCEPT_FEE", "CONCEPT_IN_PROGRESS",
                   "AWAITING_ESCROW", "DESIGN_IN_PROGRESS", "COMPLETED", "CANCELLED"}
DeliverableKind == {"CONCEPT", "DESIGN"}
DeliverableStatus == {"PENDING_REVIEW", "APPROVED", "CHANGES_REQUESTED"}

\* One person may have several tabs open, each with its own request.  A client
\* may do everything the payer, the reviewer and the canceller may.
Roles == {"client", "payer", "reviewer", "canceller", "architect", "gateway"}

ASSUME DesignAssumption ==
  /\ Role \in [Requests -> Roles]
  /\ DesignFee \in Nat \ {0} /\ DesignCommission \in 0 .. DesignFee
  /\ MaxRevisions \in Nat /\ MaxDeliverables \in Nat /\ MaxDisputes \in Nat
  /\ CanFail \in BOOLEAN

VARIABLES
  \* --- the contract
  status,           \* Contract.status
  deliverables,     \* Contract.deliverables
  revisionsUsed,    \* Contract.revisionsUsed
  conceptFees,      \* Contract.payments: how many CONCEPT_FEE entries,
  deposits,         \*   how many ESCROW_DEPOSIT entries (of DesignFee each)
  releases,         \*   and how many ESCROW_RELEASE entries (of DesignFee - DesignCommission)
  version,          \* Contract.__v
  \* --- its surroundings
  projectStatus,    \* Project.status
  architect,        \* Project.architect: this contract's, another, or none
  designProposal,   \* status of the proposal the contract came from
  disputeLive,      \* is a live dispute filed against the contract?
  disputes,         \* how many were filed
  \* --- the requests in flight
  at,               \* the await each request has not come back from
  loaded,           \* the fields of the copy it works on
  index,            \* the submission it decides
  \* --- history: what two requests, or one cut short, did to each other
  queued,           \* was a submission saved while another was on its way?
  redecided,        \* was a submission decided while another request was approving it?
  astray            \* did the status move past a request of the client's, through
                    \*   the gateway's deposit, or with nobody left to tell the project?

contractVars == <<status, deliverables, revisionsUsed, conceptFees, deposits,
                  releases, version>>
projectVars  == <<projectStatus, architect, designProposal>>
disputeVars  == <<disputeLive, disputes>>
requestVars  == <<at, loaded, index>>
crossingVars == <<queued, redecided, astray>>
vars == <<contractVars, projectVars, disputeVars, requestVars, crossingVars>>

Places == {"idle", "payingConceptFee", "funding", "settlingConceptFee",
           "settlingEscrow", "startingDesign", "submitting", "refusing",
           "acceptingConcept", "askingDispute", "releasing", "closing",
           "cancelling", "reopening", "declining"}

Deliverable == [kind : DeliverableKind, status : DeliverableStatus]
Copy == [status : ContractStatus, revisionsUsed : Nat, version : Nat]

TypeOK ==
  /\ status \in ContractStatus
  /\ deliverables \in Seq(Deliverable)
  /\ revisionsUsed \in Nat
  /\ conceptFees \in Nat /\ deposits \in Nat /\ releases \in Nat
  /\ version \in Nat
  /\ projectStatus \in {"BRIEF_POSTED", "CONCEPT_STAGE", "DESIGN_IN_PROGRESS",
                        "PERMIT_STAGE"}
  /\ architect \in {"own", "other", "none"}
  /\ designProposal \in {"ACCEPTED", "DECLINED"}
  /\ disputeLive \in BOOLEAN /\ disputes \in Nat
  /\ at \in [Requests -> Places]
  /\ loaded \in [Requests -> Copy \cup {None}]
  /\ index \in [Requests -> Nat]
  /\ queued \in BOOLEAN /\ redecided \in BOOLEAN /\ astray \in BOOLEAN

\* acceptProposal has just created the contract.
Init ==
  /\ status = "AWAITING_CONCEPT_FEE"
  /\ deliverables = <<>>
  /\ revisionsUsed = 0
  /\ conceptFees = 0 /\ deposits = 0 /\ releases = 0
  /\ version = 0
  /\ projectStatus = "CONCEPT_STAGE"
  /\ architect = "own"
  /\ designProposal = "ACCEPTED"
  /\ disputeLive = FALSE /\ disputes = 0
  /\ at = [r \in Requests |-> "idle"]
  /\ loaded = [r \in Requests |-> None]
  /\ index = [r \in Requests |-> 0]
  /\ queued = FALSE /\ redecided = FALSE /\ astray = FALSE

-----------------------------------------------------------------------------
(* Requests *)

Is(r, role) == Role[r] = role \/ (Role[r] = "client" /\ role # "architect" /\ role # "gateway")

\* findMyContractOr404 and the checks made on the copy it returns; the request
\* then waits for its first write.
Load(r, place, i) ==
  /\ at[r] = "idle"
  /\ at' = [at EXCEPT ![r] = place]
  /\ loaded' = [loaded EXCEPT ![r] =
       [status |-> status, revisionsUsed |-> revisionsUsed, version |-> version]]
  /\ index' = [index EXCEPT ![r] = i]
  /\ UNCHANGED <<contractVars, projectVars, disputeVars, crossingVars>>

Goto(r, place) ==
  /\ at' = [at EXCEPT ![r] = place]
  /\ UNCHANGED <<loaded, index>>

Finish(r) ==
  /\ at' = [at EXCEPT ![r] = "idle"]
  /\ loaded' = [loaded EXCEPT ![r] = None]
  /\ index' = [index EXCEPT ![r] = 0]

-----------------------------------------------------------------------------
(* Saving *)

\* contract.save() writes the status only when it differs from the loaded one.
SetStatus(r, st) == status' = IF loaded[r].status = st THEN status ELSE st

\* payments.push and deliverables.push move __v on.
Pushed == version' = version + 1

\* The filter of a save that edits deliverables.N in place and pushes nothing.
SameVersion(r) == loaded[r].version = version

\* (mutant) The action of the request body is stored as it came.
DecideRaw(i, st) ==
  deliverables' = [deliverables EXCEPT ![i].status = IF st = "APPROVED" THEN "approve" ELSE st]

Decide(i, st) == deliverables' = [deliverables EXCEPT ![i].status = st]

-----------------------------------------------------------------------------
(* Meetings of two requests, which no handler guards against *)

MeetsSubmission(r) == \E q \in Requests \ {r} : at[q] = "submitting"

ApprovingPlaces == {"acceptingConcept", "askingDispute", "releasing"}

MeetsApproval(r) == \E q \in Requests \ {r} : at[q] \in ApprovingPlaces /\ index[q] = index[r]

\* Refusals neither write the status nor look at it.
MeetsClient(r) == \E q \in Requests \ {r} : at[q] \notin {"idle", "submitting", "refusing"}

\* A submission is decided.
DecidedBeside(r) == redecided' = IF MeetsApproval(r) THEN TRUE ELSE redecided

\* The status is saved.
MovedBeside(r) == astray' = IF MeetsClient(r) THEN TRUE ELSE astray

-----------------------------------------------------------------------------
(* POST /api/contracts/:id/pay-concept-fee, and the gateway settling it *)

PayConceptFee(r) ==
  /\ Is(r, "payer")
  /\ status = "AWAITING_CONCEPT_FEE"
  /\ Load(r, "payingConceptFee", 0)

SettleConceptFee(r) ==
  /\ Is(r, "gateway")
  /\ status = "AWAITING_CONCEPT_FEE"
  /\ Load(r, "settlingConceptFee", 0)

SaveConceptFee(r) ==
  /\ at[r] \in {"payingConceptFee", "settlingConceptFee"}
  /\ conceptFees' = conceptFees + 1
  /\ SetStatus(r, "CONCEPT_IN_PROGRESS")
  /\ Pushed
  /\ Finish(r)
  /\ MovedBeside(r)
  /\ UNCHANGED <<deliverables, revisionsUsed, deposits, releases, projectVars, disputeVars,
                 queued, redecided>>

-----------------------------------------------------------------------------
(* POST /api/contracts/:id/fund-escrow, and the gateway settling it *)

FundEscrow(r) ==
  /\ Is(r, "payer")
  /\ status = "AWAITING_ESCROW"
  /\ Load(r, "funding", 0)

SettleEscrow(r) ==
  /\ Is(r, "gateway")
  /\ status = "AWAITING_ESCROW"
  /\ Load(r, "settlingEscrow", 0)

\* Only the handler goes on to move the project; settle returns here.
SaveDeposit(r) ==
  /\ at[r] \in {"funding", "settlingEscrow"}
  /\ deposits' = deposits + 1
  /\ SetStatus(r, "DESIGN_IN_PROGRESS")
  /\ Pushed
  /\ IF at[r] = "funding"
       THEN Goto(r, "startingDesign") /\ MovedBeside(r)
       ELSE Finish(r) /\ astray' = TRUE
  /\ UNCHANGED <<deliverables, revisionsUsed, conceptFees, releases, projectVars, disputeVars,
                 queued, redecided>>

\* Project.updateOne, whatever the project's status is by now.
StartDesign(r) ==
  /\ at[r] = "startingDesign"
  /\ projectStatus' = "DESIGN_IN_PROGRESS"
  /\ Finish(r)
  /\ UNCHANGED <<contractVars, architect, designProposal, disputeVars, crossingVars>>

-----------------------------------------------------------------------------
(* POST /api/contracts/:id/deliverables *)

AwaitsReview(i) == i \in DOMAIN deliverables /\ deliverables[i].status = "PENDING_REVIEW"

\* (mutant) A second submission may be queued.
NothingChecked == TRUE

NothingPending == \A i \in DOMAIN deliverables : ~AwaitsReview(i)

\* The phase decides what is submitted.
KindIn(st) == IF st = "CONCEPT_IN_PROGRESS" THEN "CONCEPT" ELSE "DESIGN"

SubmitDeliverable(r) ==
  /\ Is(r, "architect")
  /\ status \in {"CONCEPT_IN_PROGRESS", "DESIGN_IN_PROGRESS"}
  /\ NothingPending
  /\ Len(deliverables) < MaxDeliverables
  /\ Load(r, "submitting", 0)

SaveSubmission(r) ==
  /\ at[r] = "submitting"
  /\ deliverables' = Append(deliverables,
       [kind |-> KindIn(loaded[r].status), status |-> "PENDING_REVIEW"])
  /\ Pushed
  /\ Finish(r)
  /\ queued' = IF MeetsSubmission(r) THEN TRUE ELSE queued
  /\ UNCHANGED <<status, revisionsUsed, conceptFees, deposits, releases,
                 projectVars, disputeVars, redecided, astray>>

-----------------------------------------------------------------------------
(* POST /api/contracts/:id/deliverables/:index/decide *)

\* The contract's own status is not looked at, only the submission's.
RequestChanges(r, i) ==
  /\ Is(r, "reviewer")
  /\ AwaitsReview(i)
  /\ deliverables[i].kind = "DESIGN" => revisionsUsed < MaxRevisions
  /\ Load(r, "refusing", i)

ApproveConcept(r, i) ==
  /\ Is(r, "reviewer")
  /\ AwaitsReview(i) /\ deliverables[i].kind = "CONCEPT"
  /\ Load(r, "acceptingConcept", i)

\* (mutant) A submission already decided may be approved again.
ApproveDecided(r, i) ==
  /\ Is(r, "reviewer")
  /\ i \in DOMAIN deliverables /\ deliverables[i].kind = "DESIGN"
  /\ Load(r, "askingDispute", i)

ApproveDesign(r, i) ==
  /\ Is(r, "reviewer")
  /\ AwaitsReview(i) /\ deliverables[i].kind = "DESIGN"
  /\ Load(r, "askingDispute", i)

\* (mutant) The refusal is written with updateOne, which compares no version.
UpdateRefusal(r) ==
  /\ at[r] = "refusing"
  /\ Decide(index[r], "CHANGES_REQUESTED")
  /\ revisionsUsed' = IF deliverables[index[r]].kind = "DESIGN"
                        THEN loaded[r].revisionsUsed + 1 ELSE revisionsUsed
  /\ Finish(r)
  /\ DecidedBeside(r)
  /\ UNCHANGED <<status, conceptFees, deposits, releases, version, projectVars, disputeVars,
                 queued, astray>>

\* revisionsUsed is saved as the loaded number plus one.
SaveRefusal(r) ==
  /\ at[r] = "refusing"
  /\ SameVersion(r)
  /\ Decide(index[r], "CHANGES_REQUESTED")
  /\ revisionsUsed' = IF deliverables[index[r]].kind = "DESIGN"
                        THEN loaded[r].revisionsUsed + 1 ELSE revisionsUsed
  /\ Finish(r)
  /\ DecidedBeside(r)
  /\ UNCHANGED <<status, conceptFees, deposits, releases, version, projectVars, disputeVars,
                 queued, astray>>

SaveAcceptance(r) ==
  /\ at[r] = "acceptingConcept"
  /\ SameVersion(r)
  /\ Decide(index[r], "APPROVED")
  /\ SetStatus(r, "AWAITING_ESCROW")
  /\ Finish(r)
  /\ DecidedBeside(r) /\ MovedBeside(r)
  /\ UNCHANGED <<revisionsUsed, conceptFees, deposits, releases, version,
                 projectVars, disputeVars, queued>>

\* VersionError: nothing is written and the handler answers 500.
RefusedByVersion(r) ==
  /\ at[r] \in {"refusing", "acceptingConcept"}
  /\ ~SameVersion(r)
  /\ Finish(r)
  /\ UNCHANGED <<contractVars, projectVars, disputeVars, crossingVars>>

\* hasLiveDispute
AskDispute(r) ==
  /\ at[r] = "askingDispute"
  /\ IF disputeLive THEN Finish(r) ELSE Goto(r, "releasing")
  /\ UNCHANGED <<contractVars, projectVars, disputeVars, crossingVars>>

\* The release is a push, so this save is never refused.
SaveRelease(r) ==
  /\ at[r] = "releasing"
  /\ Decide(index[r], "APPROVED")
  /\ releases' = releases + 1
  /\ SetStatus(r, "COMPLETED")
  /\ Pushed
  /\ Goto(r, "closing")
  /\ DecidedBeside(r) /\ MovedBeside(r)
  /\ UNCHANGED <<revisionsUsed, conceptFees, deposits, projectVars, disputeVars, queued>>

\* (mutant) The project is not moved on.
AnswerOnly(r) ==
  /\ at[r] = "closing"
  /\ Finish(r)
  /\ UNCHANGED <<contractVars, projectVars, disputeVars, crossingVars>>

CloseDesign(r) ==
  /\ at[r] = "closing"
  /\ projectStatus' = "PERMIT_STAGE"
  /\ Finish(r)
  /\ UNCHANGED <<contractVars, architect, designProposal, disputeVars, crossingVars>>

-----------------------------------------------------------------------------
(* POST /api/contracts/:id/cancel *)

CancelContract(r) ==
  /\ Is(r, "canceller")
  /\ status \in {"AWAITING_CONCEPT_FEE", "CONCEPT_IN_PROGRESS", "AWAITING_ESCROW"}
  /\ Load(r, "cancelling", 0)

SaveCancelledDesign(r) ==
  /\ at[r] = "cancelling"
  /\ SetStatus(r, "CANCELLED")
  /\ Goto(r, "reopening")
  /\ MovedBeside(r)
  /\ UNCHANGED <<deliverables, revisionsUsed, conceptFees, deposits, releases,
                 version, projectVars, disputeVars, queued, redecided>>

ReopenBrief(r) ==
  /\ at[r] = "reopening"
  /\ projectStatus' = "BRIEF_POSTED"
  /\ architect' = "none"
  /\ Goto(r, "declining")
  /\ UNCHANGED <<contractVars, designProposal, disputeVars, crossingVars>>

DeclineItsProposal(r) ==
  /\ at[r] = "declining"
  /\ designProposal' = "DECLINED"
  /\ Finish(r)
  /\ UNCHANGED <<contractVars, projectStatus, architect, disputeVars, crossingVars>>

-----------------------------------------------------------------------------
(* The other controllers *)

\* acceptProposal: another architect is engaged on the open brief.
EngageAnother ==
  /\ projectStatus = "BRIEF_POSTED"
  /\ projectStatus' = "CONCEPT_STAGE"
  /\ architect' = "other"
  /\ UNCHANGED <<contractVars, designProposal, disputeVars, requestVars, crossingVars>>

RaiseDispute ==
  /\ ~disputeLive
  /\ disputes < MaxDisputes
  /\ disputeLive' = TRUE
  /\ disputes' = disputes + 1
  /\ UNCHANGED <<contractVars, projectVars, requestVars, crossingVars>>

WithdrawDispute ==
  /\ disputeLive
  /\ disputeLive' = FALSE
  /\ UNCHANGED <<contractVars, projectVars, disputes, requestVars, crossingVars>>

Die(r) ==
  /\ CanFail
  /\ at[r] # "idle"
  /\ Finish(r)
  /\ astray' = IF at[r] \in {"startingDesign", "closing", "reopening", "declining"}
                 THEN TRUE ELSE astray
  /\ UNCHANGED <<contractVars, projectVars, disputeVars, queued, redecided>>

-----------------------------------------------------------------------------
Start(r) ==
  \/ PayConceptFee(r)
  \/ SettleConceptFee(r)
  \/ FundEscrow(r)
  \/ SettleEscrow(r)
  \/ SubmitDeliverable(r)
  \/ \E i \in DOMAIN deliverables :
       RequestChanges(r, i) \/ ApproveConcept(r, i) \/ ApproveDesign(r, i)
  \/ CancelContract(r)

\* What a request under way does next.
Continue(r) ==
  \/ SaveConceptFee(r)
  \/ SaveDeposit(r)
  \/ StartDesign(r)
  \/ SaveSubmission(r)
  \/ SaveRefusal(r)
  \/ SaveAcceptance(r)
  \/ RefusedByVersion(r)
  \/ AskDispute(r)
  \/ SaveRelease(r)
  \/ CloseDesign(r)
  \/ SaveCancelledDesign(r)
  \/ ReopenBrief(r)
  \/ DeclineItsProposal(r)

Next ==
  \/ \E r \in Requests : Start(r) \/ Continue(r) \/ Die(r)
  \/ EngageAnother
  \/ RaiseDispute
  \/ WithdrawDispute

Spec == Init /\ [][Next]_vars

\* A request under way is always resumed: the event loop runs every settled await.
FairSpec == Spec /\ \A r \in Requests : WF_vars(Continue(r))

-----------------------------------------------------------------------------
(* Properties *)

Quiet == \A r \in Requests : at[r] = "idle"

\* The escrow pays out no more often than it was paid in, however payments by
\* hand and by the gateway, late cancellations and late submissions interleave, unless
\* two submissions crossed or one was decided while another request was approving it
\* (decideDeliverable).
ReleasedWithinDeposits == ~queued /\ ~redecided => releases <= deposits

\* "Only one submission may be awaiting review at a time" (submitDeliverable):
\* true until two submissions are on their way together, whatever the reviews do.
OnePendingReview ==
  ~queued => \A i, j \in DOMAIN deliverables : AwaitsReview(i) /\ AwaitsReview(j) => i = j

\* No revision round is given away: each refused design has been counted, even
\* when two reviews by the client race each other and the architect's next
\* submission (the version check of decideDeliverable's save), unless two submissions
\* crossed and the earlier one is refused after the later one.
Refused == {i \in DOMAIN deliverables : deliverables[i].kind = "DESIGN"
                                     /\ deliverables[i].status = "CHANGES_REQUESTED"}
NoFreeRevision ==
  ~queued => Cardinality(Refused) <= revisionsUsed /\ revisionsUsed <= MaxRevisions

\* A contract whose escrow is funded is never sent back to wait for its deposit:
\* no concept is left to approve by then (models/Contract.ts: "concept review ->
\* escrow deposit -> design"), unless submissions or decisions crossed, or the concept fee
\* was entered twice: the second entry, saved late, takes the contract back to its
\* concept phase.
DecisionKeepsDeposit ==
  [][status # "AWAITING_ESCROW" /\ status' = "AWAITING_ESCROW" /\ ~queued /\ ~redecided
       => deposits = 0 \/ conceptFees > 1]_vars

\* The project is where its contract is once the handlers have answered, unless a status
\* was saved while another request of the client's was under way, the gateway settled
\* the deposit (its callback leaves the project alone), or a handler died on its way there.
ProjectFollows ==
  Quiet /\ ~astray =>
    /\ status = "DESIGN_IN_PROGRESS" => projectStatus = "DESIGN_IN_PROGRESS"
    /\ status = "COMPLETED" => projectStatus = "PERMIT_STAGE"
    /\ status = "CANCELLED" => architect # "own" /\ designProposal = "DECLINED"

\* An approved design moves the project on to its permits (decideDeliverable).
ReleaseReachesProject == status = "COMPLETED" ~> projectStatus = "PERMIT_STAGE"

-----------------------------------------------------------------------------
(* What the comments say, and the code does not do *)

\* cancelContract: "The project returns to an open brief so a new architect can
\* be found."
OpenBriefHasNoContract == Quiet /\ projectStatus = "BRIEF_POSTED" => status = "CANCELLED"
=============================================================================
