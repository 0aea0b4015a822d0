------------------------ MODULE DesignContractProofs ------------------------
(***************************************************************************)
(* Proofs about DesignContract, for every set of requests, whoever sends    *)
(* them and whichever of them die.  Until two submissions cross, one is     *)
(* under review at a time and a refused revision is never free, however the *)
(* reviews race; until, besides, a submission is decided while another      *)
(* request is approving it, the escrow never pays out more often than it    *)
(* was paid in, and no review passes a payment by; and until the project is *)
(* left behind, it follows the contract.                                    *)
(***************************************************************************)
EXTENDS DesignContract, FiniteSetTheorems, TLAPS

\* Two submissions crossed, or two decisions on one.
Crossed == queued \/ redecided

-----------------------------------------------------------------------------
(* The inductive invariant *)

Deciding == {"refusing", "acceptingConcept", "askingDispute", "releasing"}

\* A request that can still save holds a copy, and the index of a submission
\* when it decides one.
InFlight ==
  \A r \in Requests :
    /\ at[r] # "idle" => loaded[r] \in Copy
    /\ at[r] \in Deciding => index[r] \in DOMAIN deliverables

TInv == TypeOK /\ InFlight

\* What a request is approving is still pending, and of the kind it approves.
Reviewing ==
  \A r \in Requests : at[r] \in ApprovingPlaces =>
    /\ AwaitsReview(index[r])
    /\ at[r] = "acceptingConcept" => deliverables[index[r]].kind = "CONCEPT"
    /\ at[r] # "acceptingConcept" =>
         deliverables[index[r]].kind = "DESIGN" /\ loaded[r].status # "COMPLETED"

\* Nothing is pending while a submission is on its way.
Submitting == \A r \in Requests : at[r] = "submitting" => NothingPending

OnePending == \A i, j \in DOMAIN deliverables : AwaitsReview(i) /\ AwaitsReview(j) => i = j

DesignComing ==
  \/ \E i \in DOMAIN deliverables : AwaitsReview(i) /\ deliverables[i].kind = "DESIGN"
  \/ \E r \in Requests : at[r] = "submitting" /\ KindIn(loaded[r].status) = "DESIGN"

\* A deposit is unspent while the design is in progress or under review.
Unspent ==
  /\ releases <= deposits
  /\ status = "DESIGN_IN_PROGRESS" => releases < deposits
  /\ DesignComing => status # "COMPLETED" /\ releases < deposits

\* What holds until something crossed.
IInv == TInv /\ Reviewing /\ Submitting /\ OnePending /\ Unspent

-----------------------------------------------------------------------------
(* Type correctness *)

\* What met once has met for good.
LEMMA HistoryGrows ==
  ASSUME [Next]_vars
  PROVE  /\ queued => queued'
         /\ redecided => redecided'
         /\ astray => astray'
<1>1. ASSUME NEW r \in Requests, Start(r)
      PROVE  UNCHANGED crossingVars
  BY <1>1 DEF Start, PayConceptFee, SettleConceptFee, FundEscrow, SettleEscrow,
       SubmitDeliverable, RequestChanges, ApproveConcept, ApproveDesign, CancelContract, Load
<1>2. ASSUME NEW r \in Requests, Continue(r) \/ Die(r)
      PROVE  /\ queued' = TRUE \/ queued' = queued
             /\ redecided' = TRUE \/ redecided' = redecided
             /\ astray' = TRUE \/ astray' = astray
  BY <1>2 DEF Continue, SaveConceptFee, SaveDeposit, StartDesign, SaveSubmission, SaveRefusal,
         SaveAcceptance, RefusedByVersion, AskDispute, SaveRelease, CloseDesign,
         SaveCancelledDesign, ReopenBrief, DeclineItsProposal, Die, DecidedBeside, MovedBeside,
         crossingVars
<1>3. EngageAnother \/ RaiseDispute \/ WithdrawDispute \/ UNCHANGED vars => UNCHANGED crossingVars
  BY DEF EngageAnother, RaiseDispute, WithdrawDispute, vars
<1>4. /\ queued' = TRUE \/ queued' = queued
      /\ redecided' = TRUE \/ redecided' = redecided
      /\ astray' = TRUE \/ astray' = astray
  BY <1>1, <1>2, <1>3 DEF Next, crossingVars
<1> QED
  BY <1>4

LEMMA InitTInv == Init => TInv
<1> SUFFICES ASSUME Init PROVE TInv
  OBVIOUS
<1>1. deliverables \in Seq(Deliverable)
  BY DEF Init
<1>2. /\ at \in [Requests -> Places]
      /\ loaded \in [Requests -> Copy \cup {None}]
      /\ index \in [Requests -> Nat]
  BY DEF Init, Places
<1>3. InFlight
  BY DEF Init, InFlight, Deciding
<1> QED
  BY <1>1, <1>2, <1>3 DEF Init, TInv, TypeOK, ContractStatus

\* Loading a copy for any place a handler starts at.
LEMMA LoadTInv ==
  ASSUME TInv, NEW r \in Requests, NEW place \in Places \ {"idle"}, NEW i \in Nat,
         place \in Deciding => i \in DOMAIN deliverables, Load(r, place, i)
  PROVE  TInv'
<1> USE DEF TInv, TypeOK, Load, contractVars, projectVars, disputeVars, crossingVars
<1>1. loaded'[r] \in Copy
  BY DEF Copy
<1>2. TypeOK'
  BY <1>1
<1>3. InFlight'
  BY <1>1 DEF InFlight
<1> QED
  BY <1>2, <1>3

LEMMA StartTInv ==
  ASSUME TInv, NEW r \in Requests, Start(r)
  PROVE  TInv'
<1>1. DOMAIN deliverables \subseteq Nat
  BY DEF TInv, TypeOK
<1>2. /\ \A i \in Nat : i \in DOMAIN deliverables =>
             ((Load(r, "refusing", i) \/ Load(r, "acceptingConcept", i)
                 \/ Load(r, "askingDispute", i)) => TInv')
      /\ (\/ Load(r, "payingConceptFee", 0) \/ Load(r, "settlingConceptFee", 0)
          \/ Load(r, "funding", 0) \/ Load(r, "settlingEscrow", 0)
          \/ Load(r, "submitting", 0) \/ Load(r, "cancelling", 0)) => TInv'
  BY LoadTInv DEF Places, Deciding
<1> QED
  BY <1>1, <1>2 DEF Start, PayConceptFee, SettleConceptFee, FundEscrow, SettleEscrow,
       SubmitDeliverable, RequestChanges, ApproveConcept, ApproveDesign, CancelContract

\* A step of a handler under way changes its place and copy only, and no
\* submission disappears.
LEMMA ContinueTInv ==
  ASSUME TInv, NEW r \in Requests, Continue(r)
  PROVE  TInv'
<1> USE DEF TInv, TypeOK, projectVars, disputeVars, contractVars, crossingVars
<1>1. \/ Finish(r)
      \/ Goto(r, "releasing") /\ at[r] \in Deciding
      \/ Goto(r, "startingDesign")
      \/ Goto(r, "closing")
      \/ Goto(r, "reopening")
      \/ Goto(r, "declining")
  BY DEF Continue, SaveConceptFee, SaveDeposit, StartDesign, SaveSubmission, SaveRefusal,
         SaveAcceptance, RefusedByVersion, AskDispute, SaveRelease, CloseDesign,
         SaveCancelledDesign, ReopenBrief, DeclineItsProposal, Places, Deciding
<1>2. /\ at' \in [Requests -> Places]
      /\ loaded' \in [Requests -> Copy \cup {None}]
      /\ index' \in [Requests -> Nat]
  BY <1>1 DEF Finish, Goto, Places
<1>3. at[r] # "idle"
  BY DEF Continue, SaveConceptFee, SaveDeposit, StartDesign, SaveSubmission, SaveRefusal,
         SaveAcceptance, RefusedByVersion, AskDispute, SaveRelease, CloseDesign,
         SaveCancelledDesign, ReopenBrief, DeclineItsProposal
<1>4. loaded[r].revisionsUsed \in Nat
  BY <1>3 DEF InFlight, Copy
<1>5. /\ deliverables' \in Seq(Deliverable)
      /\ DOMAIN deliverables \subseteq DOMAIN deliverables'
  <2>1. CASE SaveSubmission(r)
    <3> DEFINE new == [kind |-> KindIn(loaded[r].status), status |-> "PENDING_REVIEW"]
    <3>1. new \in Deliverable
      BY DEF Deliverable, KindIn, DeliverableKind, DeliverableStatus
    <3>2. deliverables' = Append(deliverables, new)
      BY <2>1 DEF SaveSubmission
    <3> QED
      BY <3>1, <3>2
  <2>2. ASSUME NEW st \in DeliverableStatus, at[r] \in Deciding,
               Decide(index[r], st)
        PROVE  /\ deliverables' \in Seq(Deliverable)
               /\ DOMAIN deliverables \subseteq DOMAIN deliverables'
    <3>1. index[r] \in DOMAIN deliverables /\ deliverables[index[r]] \in Deliverable
      BY <2>2 DEF InFlight
    <3>2. [deliverables[index[r]] EXCEPT !.status = st] \in Deliverable
      BY <3>1 DEF Deliverable
    <3> QED
      BY <2>2, <3>1, <3>2 DEF Decide
  <2>3. CASE SaveRefusal(r) \/ SaveAcceptance(r) \/ SaveRelease(r)
    BY <2>2, <2>3 DEF SaveRefusal, SaveAcceptance, SaveRelease, Deciding, DeliverableStatus
  <2>4. CASE ~(SaveSubmission(r) \/ SaveRefusal(r) \/ SaveAcceptance(r) \/ SaveRelease(r))
    <3>1. UNCHANGED deliverables
      BY <2>4 DEF Continue, SaveConceptFee, SaveDeposit, StartDesign, RefusedByVersion,
           AskDispute, CloseDesign, SaveCancelledDesign, ReopenBrief, DeclineItsProposal
    <3> QED
      BY <3>1
  <2> QED
    BY <2>1, <2>3, <2>4
<1>6. /\ status' \in ContractStatus
      /\ revisionsUsed' \in {revisionsUsed, loaded[r].revisionsUsed + 1}
      /\ version' \in {version, version + 1}
      /\ conceptFees' \in {conceptFees, conceptFees + 1}
      /\ deposits' \in {deposits, deposits + 1}
      /\ releases' \in {releases, releases + 1}
  BY DEF Continue, SaveConceptFee, SaveDeposit, StartDesign, SaveSubmission, SaveRefusal,
         SaveAcceptance, RefusedByVersion, AskDispute, SaveRelease, CloseDesign,
         SaveCancelledDesign, ReopenBrief, DeclineItsProposal, SetStatus, Pushed, ContractStatus
<1>7. /\ projectStatus' \in {"BRIEF_POSTED", "CONCEPT_STAGE", "DESIGN_IN_PROGRESS",
                              "PERMIT_STAGE"}
      /\ architect' \in {"own", "other", "none"}
      /\ designProposal' \in {"ACCEPTED", "DECLINED"}
      /\ UNCHANGED disputeVars
  BY DEF Continue, SaveConceptFee, SaveDeposit, StartDesign, SaveSubmission, SaveRefusal,
         SaveAcceptance, RefusedByVersion, AskDispute, SaveRelease, CloseDesign,
         SaveCancelledDesign, ReopenBrief, DeclineItsProposal
<1>8. InFlight'
  <2>1. ASSUME NEW q \in Requests PROVE
          /\ at'[q] # "idle" => loaded'[q] \in Copy
          /\ at'[q] \in Deciding => index'[q] \in DOMAIN deliverables
    <3>1. CASE q # r
      BY <1>1, <3>1 DEF InFlight, Finish, Goto
    <3>2. CASE q = r
      BY <1>1, <1>3, <3>2 DEF InFlight, Finish, Goto, Deciding
    <3> QED
      BY <3>1, <3>2
  <2> QED
    BY <2>1, <1>5 DEF InFlight
<1>9. /\ revisionsUsed' \in Nat /\ version' \in Nat
      /\ conceptFees' \in Nat /\ deposits' \in Nat /\ releases' \in Nat
  BY <1>4, <1>6
<1>10. queued' \in BOOLEAN /\ redecided' \in BOOLEAN /\ astray' \in BOOLEAN
  BY DEF Continue, SaveConceptFee, SaveDeposit, StartDesign, SaveSubmission, SaveRefusal,
         SaveAcceptance, RefusedByVersion, AskDispute, SaveRelease, CloseDesign,
         SaveCancelledDesign, ReopenBrief, DeclineItsProposal, DecidedBeside, MovedBeside
<1> QED
  BY <1>2, <1>5, <1>6, <1>7, <1>8, <1>9, <1>10

LEMMA DieTInv ==
  ASSUME TInv, NEW r \in Requests, Die(r)
  PROVE  TInv'
<1> USE DEF TInv, TypeOK, Die, Finish, contractVars, projectVars, disputeVars
<1>1. TypeOK'
  BY DEF Places
<1>2. InFlight'
  BY DEF InFlight, Deciding
<1> QED
  BY <1>1, <1>2

LEMMA EnvironmentTInv ==
  ASSUME TInv, EngageAnother \/ RaiseDispute \/ WithdrawDispute \/ UNCHANGED vars
  PROVE  TInv'
<1> USE DEF TInv, TypeOK, EngageAnother, RaiseDispute, WithdrawDispute, vars, contractVars,
            projectVars, disputeVars, requestVars, crossingVars
<1>1. TypeOK'
  <2>1. CASE EngageAnother
    BY <2>1
  <2>2. CASE RaiseDispute
    BY <2>2
  <2>3. CASE WithdrawDispute
    BY <2>3
  <2>4. CASE UNCHANGED vars
    BY <2>4
  <2> QED
    BY <2>1, <2>2, <2>3, <2>4
<1>2. InFlight'
  BY DEF InFlight
<1> QED
  BY <1>1, <1>2

LEMMA StepTInv == TInv /\ [Next]_vars => TInv'
BY StartTInv, ContinueTInv, DieTInv, EnvironmentTInv DEF Next

LEMMA AlwaysTInv == Spec => []TInv
BY InitTInv, StepTInv, PTL DEF Spec

\* The contract, its submissions and its payments keep their types, and a
\* request never decides a submission that is not there.
THEOREM TypeCorrect == Spec => []TypeOK
<1>1. TInv => TypeOK
  BY DEF TInv
<1> QED
  BY <1>1, AlwaysTInv, PTL

-----------------------------------------------------------------------------
(* One release for each deposit *)

LEMMA InitIInv == Init => IInv
BY InitTInv, DesignAssumption
   DEF IInv, Init, Reviewing, Submitting, OnePending, Unspent, DesignComing,
       ApprovingPlaces, AwaitsReview, NothingPending

\* A step that changes no submission and takes no request to a place where it
\* approves or submits keeps the parts of the invariant about them.
Undisturbed(r) ==
  /\ UNCHANGED deliverables
  /\ \A q \in Requests : q # r =>
       at'[q] = at[q] /\ loaded'[q] = loaded[q] /\ index'[q] = index[q]
  /\ at'[r] \notin ApprovingPlaces \cup {"submitting"}

LEMMA UndisturbedIInv ==
  ASSUME IInv, NEW r \in Requests, Undisturbed(r)
  PROVE  /\ Reviewing' /\ Submitting' /\ OnePending'
         /\ DesignComing' => DesignComing
<1>1. \A i : (AwaitsReview(i))' <=> AwaitsReview(i)
  BY DEF Undisturbed, AwaitsReview
<1>2. NothingPending' <=> NothingPending
  BY <1>1 DEF Undisturbed, NothingPending
<1>3. Reviewing'
  BY <1>1 DEF Undisturbed, Reviewing, IInv
<1>4. Submitting'
  BY <1>2 DEF Undisturbed, Submitting, IInv
<1>5. OnePending'
  BY <1>1 DEF Undisturbed, OnePending, IInv
<1>6. DesignComing' => DesignComing
  BY <1>1 DEF Undisturbed, DesignComing
<1> QED
  BY <1>3, <1>4, <1>5, <1>6

\* Payments, cancellations, project updates, refused saves and dead requests.
LEMMA OtherStepsIInv ==
  ASSUME IInv, TInv', NEW r \in Requests,
         \/ SaveConceptFee(r) \/ SaveDeposit(r) \/ StartDesign(r)
         \/ RefusedByVersion(r) \/ CloseDesign(r) \/ SaveCancelledDesign(r)
         \/ ReopenBrief(r) \/ DeclineItsProposal(r) \/ Die(r)
  PROVE  IInv'
<1> USE DEF contractVars
<1>1. Undisturbed(r)
  BY DEF IInv, TInv, TypeOK, Undisturbed, SaveConceptFee, SaveDeposit, StartDesign,
         RefusedByVersion, CloseDesign, SaveCancelledDesign, ReopenBrief, DeclineItsProposal, Die,
         Goto, Finish, ApprovingPlaces
<1>2. /\ UNCHANGED releases
      /\ deposits' \in {deposits, deposits + 1}
      /\ status' \in {status, "CONCEPT_IN_PROGRESS", "CANCELLED"}
           \/ (status' = "DESIGN_IN_PROGRESS" /\ deposits' = deposits + 1)
  BY DEF SaveConceptFee, SaveDeposit, StartDesign, RefusedByVersion, CloseDesign,
         SaveCancelledDesign, ReopenBrief, DeclineItsProposal, Die, SetStatus
<1>3. Unspent'
  BY <1>1, <1>2, UndisturbedIInv DEF Unspent, IInv, TInv, TypeOK
<1> QED
  BY <1>1, <1>3, UndisturbedIInv DEF IInv

LEMMA OtherStartsIInv ==
  ASSUME IInv, TInv', NEW r \in Requests,
         \/ PayConceptFee(r) \/ SettleConceptFee(r) \/ FundEscrow(r)
         \/ SettleEscrow(r) \/ CancelContract(r)
  PROVE  IInv'
<1> USE DEF contractVars
<1>1. Undisturbed(r) /\ UNCHANGED contractVars
  BY DEF IInv, TInv, TypeOK, Undisturbed, PayConceptFee, SettleConceptFee, FundEscrow,
         SettleEscrow, CancelContract, Load, ApprovingPlaces
<1>2. Unspent'
  BY <1>1, UndisturbedIInv DEF Unspent, IInv
<1> QED
  BY <1>1, <1>2, UndisturbedIInv DEF IInv

LEMMA SubmitIInv ==
  ASSUME IInv, TInv', NEW r \in Requests, SubmitDeliverable(r)
  PROVE  IInv'
<1> USE DEF contractVars, SubmitDeliverable, Load, IInv, TInv, TypeOK
<1>1. \A i : (AwaitsReview(i))' <=> AwaitsReview(i)
  BY DEF AwaitsReview
<1>2. NothingPending /\ NothingPending'
  BY <1>1 DEF NothingPending
<1>3. Reviewing'
  BY <1>1 DEF Reviewing, ApprovingPlaces
<1>4. Submitting'
  BY <1>2 DEF Submitting
<1>5. OnePending'
  BY <1>1 DEF OnePending
<1>6. Unspent'
  <2>1. CASE status = "DESIGN_IN_PROGRESS"
    BY <2>1 DEF Unspent
  <2>2. CASE status = "CONCEPT_IN_PROGRESS"
    <3>1. loaded'[r].status = status
      OBVIOUS
    <3>2. DesignComing' => DesignComing
      BY <1>1, <2>2, <3>1 DEF DesignComing, KindIn
    <3> QED
      BY <3>2 DEF Unspent
  <2> QED
    BY <2>1, <2>2
<1> QED
  BY <1>3, <1>4, <1>5, <1>6

LEMMA SubmissionIInv ==
  ASSUME IInv, TInv', NEW r \in Requests, SaveSubmission(r), ~Crossed'
  PROVE  IInv'
<1> USE DEF SaveSubmission, Finish, IInv, TInv, TypeOK
<1> DEFINE last == Len(deliverables) + 1
           kind == KindIn(loaded[r].status)
<1>1. NothingPending /\ ~MeetsSubmission(r)
  BY DEF Submitting, Crossed
<1>2. /\ DOMAIN deliverables' = DOMAIN deliverables \cup {last}
      /\ last \notin DOMAIN deliverables
      /\ \A i \in DOMAIN deliverables : deliverables'[i] = deliverables[i]
      /\ deliverables'[last].kind = kind
  BY DEF KindIn
<1>3. \A i : (AwaitsReview(i))' => i = last
  BY <1>1, <1>2 DEF AwaitsReview, NothingPending
<1>4. \A q \in Requests : at[q] \notin ApprovingPlaces
  BY <1>1 DEF Reviewing, NothingPending, AwaitsReview
<1>5. Reviewing'
  BY <1>4 DEF Reviewing, ApprovingPlaces
<1>6. \A q \in Requests : at'[q] # "submitting"
  BY <1>1 DEF MeetsSubmission
<1>7. Submitting' /\ OnePending'
  BY <1>3, <1>6 DEF Submitting, OnePending
<1>8. DesignComing' => DesignComing
  BY <1>2, <1>3, <1>6 DEF DesignComing
<1>9. Unspent'
  BY <1>8 DEF Unspent
<1> QED
  BY <1>5, <1>7, <1>9

LEMMA ReviewIInv ==
  ASSUME IInv, TInv', NEW r \in Requests, NEW i \in DOMAIN deliverables,
         RequestChanges(r, i) \/ ApproveConcept(r, i) \/ ApproveDesign(r, i)
  PROVE  IInv'
<1> USE DEF contractVars, Load, RequestChanges, ApproveConcept, ApproveDesign, IInv, TInv,
            TypeOK
<1>1. \A j : (AwaitsReview(j))' <=> AwaitsReview(j)
  BY DEF AwaitsReview
<1>2. AwaitsReview(i)
  OBVIOUS
<1>3. Submitting'
  BY <1>1 DEF Submitting, NothingPending
<1>4. OnePending'
  BY <1>1 DEF OnePending
<1>5. Reviewing'
  <2>1. at'[r] = "askingDispute" =>
          deliverables[i].kind = "DESIGN" /\ loaded'[r].status # "COMPLETED"
    <3>1. ApproveDesign(r, i) => DesignComing
      BY <1>2 DEF DesignComing
    <3> QED
      BY <3>1 DEF Unspent
  <2> QED
    BY <1>1, <1>2, <2>1 DEF Reviewing, ApprovingPlaces
<1>6. Unspent'
  BY <1>1 DEF Unspent, DesignComing
<1> QED
  BY <1>3, <1>4, <1>5, <1>6

\* A decision leaves what others are approving under review, and opens nothing.
LEMMA DecisionIInv ==
  ASSUME IInv, TInv', NEW r \in Requests, ~Crossed',
         SaveRefusal(r) \/ SaveAcceptance(r) \/ SaveRelease(r)
  PROVE  IInv'
<1> USE DEF IInv, TInv, TypeOK, Finish, Goto
<1>1. /\ index[r] \in DOMAIN deliverables /\ at'[r] \in {"idle", "closing"}
      /\ \A q \in Requests \ {r} :
           at'[q] = at[q] /\ loaded'[q] = loaded[q] /\ index'[q] = index[q]
  BY DEF SaveRefusal, SaveAcceptance, SaveRelease, Deciding, InFlight
<1>2. PICK st \in {"APPROVED", "CHANGES_REQUESTED"} :
        deliverables' = [deliverables EXCEPT ![index[r]].status = st]
  BY DEF SaveRefusal, SaveAcceptance, SaveRelease, Decide
<1>3. /\ DOMAIN deliverables' = DOMAIN deliverables
      /\ deliverables'[index[r]].status # "PENDING_REVIEW"
      /\ \A i \in DOMAIN deliverables :
           /\ deliverables'[i].kind = deliverables[i].kind
           /\ i # index[r] => deliverables'[i] = deliverables[i]
  BY <1>1, <1>2 DEF Deliverable
<1>4. \A i : AwaitsReview(i)' <=> AwaitsReview(i) /\ i # index[r]
  BY <1>1, <1>3 DEF AwaitsReview
<1>5. \A q \in Requests \ {r} : at[q] \in ApprovingPlaces => index[q] # index[r]
  BY DEF SaveRefusal, SaveAcceptance, SaveRelease, DecidedBeside, MeetsApproval, Crossed
<1>6. Reviewing'
  <2> SUFFICES ASSUME NEW q \in Requests, at'[q] \in ApprovingPlaces
               PROVE  /\ AwaitsReview(index[q])'
                      /\ at[q]' = "acceptingConcept" => (deliverables[index[q]].kind = "CONCEPT")'
                      /\ at[q]' # "acceptingConcept" =>
                           (deliverables[index[q]].kind = "DESIGN" /\ loaded[q].status # "COMPLETED")'
    BY DEF Reviewing
  <2>1. q # r /\ at'[q] = at[q] /\ loaded'[q] = loaded[q] /\ index'[q] = index[q]
    BY <1>1 DEF ApprovingPlaces
  <2>2. AwaitsReview(index[q]) /\ index[q] # index[r]
    BY <1>5, <2>1 DEF Reviewing
  <2>3. deliverables'[index[q]] = deliverables[index[q]]
    BY <1>3, <2>2 DEF AwaitsReview
  <2> QED
    BY <1>4, <2>1, <2>2, <2>3 DEF Reviewing
<1>7. Submitting' /\ OnePending'
  BY <1>1, <1>3, <1>4 DEF Submitting, NothingPending, OnePending
<1>8. DesignComing' => DesignComing
  BY <1>1, <1>3, <1>4 DEF DesignComing
<1>9. Unspent'
  <2>1. CASE SaveRelease(r)
    <3>1. /\ AwaitsReview(index[r]) /\ deliverables[index[r]].kind = "DESIGN"
          /\ loaded[r].status # "COMPLETED"
      BY <2>1 DEF Reviewing, SaveRelease, ApprovingPlaces
    <3>2. DesignComing
      BY <1>1, <3>1 DEF DesignComing
    <3>3. NothingPending' /\ \A q \in Requests : at'[q] # "submitting"
      BY <1>1, <1>3, <1>4, <3>1 DEF OnePending, NothingPending, Submitting, AwaitsReview
    <3>4. ~DesignComing'
      BY <3>3 DEF DesignComing, NothingPending
    <3> QED
      BY <2>1, <3>1, <3>2, <3>4 DEF SaveRelease, SetStatus, Unspent
  <2>2. CASE SaveRefusal(r) \/ SaveAcceptance(r)
    BY <1>8, <2>2 DEF SaveRefusal, SaveAcceptance, SetStatus, Unspent
  <2> QED
    BY <2>1, <2>2
<1> QED
  BY <1>6, <1>7, <1>9

LEMMA AskIInv ==
  ASSUME IInv, TInv', NEW r \in Requests, AskDispute(r)
  PROVE  IInv'
<1> USE DEF IInv, TInv, TypeOK, Finish, Goto, AskDispute, contractVars
<1>1. \A i : (AwaitsReview(i))' <=> AwaitsReview(i)
  BY DEF AwaitsReview
<1>2. Submitting'
  BY <1>1 DEF Submitting, NothingPending
<1>3. OnePending'
  BY <1>1 DEF OnePending
<1>4. Reviewing'
  BY <1>1 DEF Reviewing, ApprovingPlaces
<1>5. Unspent'
  BY <1>1 DEF Unspent, DesignComing
<1> QED
  BY <1>2, <1>3, <1>4, <1>5

LEMMA EnvironmentIInv ==
  ASSUME IInv, TInv', EngageAnother \/ RaiseDispute \/ WithdrawDispute \/ UNCHANGED vars
  PROVE  IInv'
<1>1. UNCHANGED <<contractVars, requestVars>>
  BY DEF EngageAnother, RaiseDispute, WithdrawDispute, vars
<1> QED
  BY <1>1 DEF IInv, contractVars, requestVars, Reviewing, Submitting, OnePending,
       Unspent, DesignComing, AwaitsReview, NothingPending

LEMMA StepIInv == IInv /\ [Next]_vars /\ ~Crossed' => IInv'
<1> SUFFICES ASSUME IInv, [Next]_vars, ~Crossed' PROVE IInv'
  OBVIOUS
<1>1. TInv'
  BY StepTInv DEF IInv
<1>2. ASSUME NEW r \in Requests, Start(r) PROVE IInv'
  BY <1>1, <1>2, OtherStartsIInv, SubmitIInv, ReviewIInv DEF Start
<1>3. ASSUME NEW r \in Requests, Continue(r) \/ Die(r) PROVE IInv'
  BY <1>1, <1>3, OtherStepsIInv, SubmissionIInv, DecisionIInv, AskIInv DEF Continue
<1> QED
  BY <1>1, <1>2, <1>3, EnvironmentIInv DEF Next

LEMMA AlwaysIInv == Spec => [](TInv /\ (~Crossed => IInv))
<1>1. TInv /\ (~Crossed => IInv) /\ [Next]_vars => (TInv /\ (~Crossed => IInv))'
  BY StepTInv, StepIInv, HistoryGrows DEF Crossed
<1>2. Init => TInv /\ (~Crossed => IInv)
  BY InitTInv, InitIInv
<1> QED
  BY <1>1, <1>2, PTL DEF Spec

\* The escrow never pays out more often than it was paid in, however many payments,
\* gateway settlements, reviews and cancellations race, and whoever dies, unless two
\* submissions crossed or one was decided while another request was approving it.
THEOREM NeverOverpaid == Spec => []ReleasedWithinDeposits
<1>1. (~Crossed => IInv) => ReleasedWithinDeposits
  BY DEF Crossed, IInv, Unspent, ReleasedWithinDeposits
<1> QED
  BY <1>1, AlwaysIInv, PTL

-----------------------------------------------------------------------------
(* No revision round is given away *)

\* Only the last submission can be awaiting review.
LastPending == \A i \in DOMAIN deliverables : AwaitsReview(i) => i = Len(deliverables)

\* No copy is newer than the contract.
Older == \A r \in Requests : at[r] # "idle" => loaded[r].version <= version

\* A refusal whose save will pass is about the last submission, and has counted
\* every refused design but that one; the round it is about to use is left.
Counts(r) ==
  /\ deliverables[index[r]].kind = "DESIGN" => loaded[r].revisionsUsed < MaxRevisions
  /\ SameVersion(r) => /\ index[r] = Len(deliverables)
                       /\ Cardinality(Refused \ {index[r]}) <= loaded[r].revisionsUsed
Counting == \A r \in Requests : at[r] = "refusing" => Counts(r)

Rounds == Cardinality(Refused) <= revisionsUsed /\ revisionsUsed <= MaxRevisions

\* What holds until two submissions crossed.
RInv == TInv /\ LastPending /\ Submitting /\ Older /\ Counting /\ Rounds

LEMMA FewRefused ==
  ASSUME TInv
  PROVE  IsFiniteSet(Refused) /\ Cardinality(Refused) \in Nat
<1>1. IsFiniteSet(1 .. Len(deliverables))
  BY FS_Interval DEF TInv, TypeOK
<1>2. Refused \in SUBSET (1 .. Len(deliverables))
  BY DEF Refused, TInv, TypeOK
<1> QED
  BY <1>1, <1>2, FS_Subset, FS_CardinalityType

\* A step that changes no submission, and takes no request to a place where it
\* refuses or submits.
Calm(r) ==
  /\ UNCHANGED <<deliverables, revisionsUsed>>
  /\ version' \in {version, version + 1}
  /\ \A q \in Requests \ {r} :
       at'[q] = at[q] /\ loaded'[q] = loaded[q] /\ index'[q] = index[q]
  /\ at'[r] \notin {"refusing", "submitting"}
  /\ at'[r] # "idle" => \/ loaded'[r].version = version
                        \/ at[r] # "idle" /\ loaded'[r].version = loaded[r].version

LEMMA CalmRInv ==
  ASSUME RInv, TInv', NEW r \in Requests, Calm(r)
  PROVE  RInv'
<1> USE DEF RInv, Calm
<1>1. \A i : AwaitsReview(i)' <=> AwaitsReview(i)
  BY DEF AwaitsReview
<1>2. LastPending' /\ Submitting'
  BY <1>1 DEF LastPending, Submitting, NothingPending
<1>3. version \in Nat /\ \A q \in Requests : at[q] # "idle" => loaded[q].version \in Nat
  BY DEF TInv, TypeOK, InFlight, Copy
<1>4. Older'
  BY <1>3 DEF Older
<1>5. Refused' = Refused
  BY DEF Refused
<1>6. Counting'
  <2> SUFFICES ASSUME NEW q \in Requests, at'[q] = "refusing" PROVE Counts(q)'
    BY DEF Counting
  <2>1. at[q] = "refusing" /\ index'[q] = index[q] /\ loaded'[q] = loaded[q]
    OBVIOUS
  <2>2. SameVersion(q)' => SameVersion(q)
    BY <1>3, <2>1 DEF SameVersion, Older
  <2>3. Counts(q)
    BY <2>1 DEF Counting
  <2> QED
    BY <1>5, <2>1, <2>2, <2>3 DEF Counts
<1>7. Rounds'
  BY <1>5 DEF Rounds
<1> QED
  BY <1>2, <1>4, <1>6, <1>7

\* A submission is approved: a refused one can only become fewer.
LEMMA ApprovalRInv ==
  ASSUME RInv, TInv', NEW r \in Requests, SaveAcceptance(r) \/ SaveRelease(r)
  PROVE  RInv'
<1> USE DEF RInv, TInv, TypeOK, Finish, Goto
<1>1. /\ index[r] \in DOMAIN deliverables /\ at[r] # "idle" /\ at'[r] \in {"idle", "closing"}
      /\ deliverables' = [deliverables EXCEPT ![index[r]].status = "APPROVED"]
      /\ UNCHANGED revisionsUsed
      /\ version' \in {version, version + 1}
  BY DEF SaveAcceptance, SaveRelease, Decide, Pushed, InFlight, Deciding
<1>2. \A q \in Requests \ {r} : at'[q] = at[q] /\ loaded'[q] = loaded[q] /\ index'[q] = index[q]
  BY DEF SaveAcceptance, SaveRelease
<1>3. /\ DOMAIN deliverables' = DOMAIN deliverables /\ Len(deliverables') = Len(deliverables)
      /\ \A i \in DOMAIN deliverables :
           /\ deliverables'[i].kind = deliverables[i].kind
           /\ deliverables'[i].status \in {deliverables[i].status, "APPROVED"}
  BY <1>1 DEF Deliverable
<1>4. \A i : AwaitsReview(i)' => AwaitsReview(i)
  BY <1>3 DEF AwaitsReview
<1>5. LastPending' /\ Submitting'
  <2>1. LastPending'
    BY <1>3, <1>4 DEF LastPending
  <2>2. NothingPending => NothingPending'
    BY <1>3, <1>4 DEF NothingPending
  <2>3. \A q \in Requests : at'[q] = "submitting" => at[q] = "submitting"
    BY <1>1, <1>2
  <2> QED
    BY <2>1, <2>2, <2>3 DEF Submitting
<1>6. version \in Nat /\ \A q \in Requests : at[q] # "idle" => loaded[q].version \in Nat
  BY DEF InFlight, Copy
<1>7. Older'
  <2> SUFFICES ASSUME NEW q \in Requests, at'[q] # "idle" PROVE loaded'[q].version <= version'
    BY DEF Older
  <2>1. loaded'[q] = loaded[q] /\ at[q] # "idle"
    BY <1>1, <1>2 DEF SaveAcceptance, SaveRelease
  <2>2. loaded[q].version \in Nat /\ loaded[q].version <= version
    BY <1>6, <2>1 DEF Older
  <2> HIDE DEF RInv, TInv, TypeOK
  <2> QED
    BY <1>1, <1>6, <2>1, <2>2
<1>8. Refused' \subseteq Refused
  BY <1>3 DEF Refused
<1>9. ASSUME NEW i
      PROVE  /\ Cardinality(Refused' \ {i}) \in Nat /\ Cardinality(Refused \ {i}) \in Nat
             /\ Cardinality(Refused' \ {i}) <= Cardinality(Refused \ {i})
  <2>1. IsFiniteSet(Refused \ {i})
    BY FewRefused, FS_RemoveElement
  <2>2. Refused' \ {i} \in SUBSET (Refused \ {i})
    BY <1>8
  <2> HIDE DEF RInv, TInv, TypeOK
  <2> QED
    BY <2>1, <2>2, FS_Subset, FS_CardinalityType
<1>10. Counting'
  <2> SUFFICES ASSUME NEW q \in Requests, at'[q] = "refusing" PROVE Counts(q)'
    BY DEF Counting
  <2>1. q # r /\ at[q] = "refusing" /\ index'[q] = index[q] /\ loaded'[q] = loaded[q]
    BY <1>1, <1>2
  <2>2. index[q] \in DOMAIN deliverables /\ loaded[q].revisionsUsed \in Nat
    BY <2>1 DEF InFlight, Deciding, Copy
  <2>3. SameVersion(q)' => SameVersion(q)
    <3>1. loaded[q].version \in Nat /\ loaded[q].version <= version
      BY <1>6, <2>1 DEF Older
    <3> HIDE DEF RInv, TInv, TypeOK
    <3> QED
      BY <1>1, <1>6, <2>1, <3>1 DEF SameVersion
  <2>4. Counts(q)
    BY <2>1 DEF Counting
  <2> HIDE DEF RInv, TInv, TypeOK
  <2>5. deliverables'[index'[q]].kind = "DESIGN" => loaded'[q].revisionsUsed < MaxRevisions
    BY <1>3, <2>1, <2>2, <2>4 DEF Counts
  <2>6. ASSUME SameVersion(q)'
        PROVE  /\ index'[q] = Len(deliverables')
               /\ Cardinality(Refused' \ {index'[q]}) <= loaded'[q].revisionsUsed
    <3>1. index[q] = Len(deliverables) /\ Cardinality(Refused \ {index[q]}) <= loaded[q].revisionsUsed
      BY <2>3, <2>4, <2>6 DEF Counts
    <3>2. /\ Cardinality(Refused' \ {index[q]}) <= Cardinality(Refused \ {index[q]})
          /\ Cardinality(Refused' \ {index[q]}) \in Nat /\ Cardinality(Refused \ {index[q]}) \in Nat
      BY <1>9
    <3> QED
      BY <1>3, <2>1, <2>2, <3>1, <3>2
  <2> QED
    BY <2>5, <2>6 DEF Counts
<1>11. Rounds'
  <2>1. Cardinality(Refused') <= Cardinality(Refused) /\ Cardinality(Refused') \in Nat
    <3> HIDE DEF RInv, TInv, TypeOK
    <3>1. IsFiniteSet(Refused) /\ IsFiniteSet(Refused') /\ TInv
      BY <1>8, FewRefused, FS_Subset DEF RInv
    <3> QED
      BY <1>8, <3>1, FewRefused, FS_Subset, FS_CardinalityType
  <2> QED
    <3>1. TInv /\ Cardinality(Refused) \in Nat /\ revisionsUsed \in Nat
      BY FewRefused
    <3> HIDE DEF RInv, TInv, TypeOK
    <3> QED
      BY <1>1, <2>1, <3>1 DEF Rounds, RInv
<1> QED
  BY <1>5, <1>7, <1>10, <1>11

\* A design is refused: its round is one more than the copy had counted.
LEMMA RefusalRInv ==
  ASSUME RInv, TInv', NEW r \in Requests, SaveRefusal(r)
  PROVE  RInv'
<1> USE DEF RInv, TInv, TypeOK, Finish, SaveRefusal, Decide
<1> DEFINE i == index[r]
<1>1. /\ i \in DOMAIN deliverables /\ i = Len(deliverables) /\ SameVersion(r)
      /\ loaded[r].revisionsUsed \in Nat
      /\ Cardinality(Refused \ {i}) <= loaded[r].revisionsUsed
      /\ deliverables[i].kind = "DESIGN" => loaded[r].revisionsUsed < MaxRevisions
  BY DEF InFlight, Deciding, Copy, Counting, Counts
<1>2. \A q \in Requests \ {r} : at'[q] = at[q] /\ loaded'[q] = loaded[q] /\ index'[q] = index[q]
  OBVIOUS
<1>3. /\ DOMAIN deliverables' = DOMAIN deliverables /\ Len(deliverables') = Len(deliverables)
      /\ \A j \in DOMAIN deliverables :
           /\ deliverables'[j].kind = deliverables[j].kind
           /\ j # i => deliverables'[j] = deliverables[j]
      /\ deliverables'[i].status = "CHANGES_REQUESTED"
  BY <1>1 DEF Deliverable
<1>4. \A j : AwaitsReview(j)' => AwaitsReview(j)
  BY <1>1, <1>3 DEF AwaitsReview
<1>5. LastPending' /\ Submitting' /\ Older'
  BY <1>2, <1>3, <1>4 DEF LastPending, Submitting, NothingPending, Older
<1>6. Refused' \ {i} = Refused \ {i}
  BY <1>1, <1>3 DEF Refused
<1>7. Refused' = IF deliverables[i].kind = "DESIGN" THEN Refused \cup {i} ELSE Refused
  BY <1>1, <1>3 DEF Refused
<1>8. Counting'
  <2> SUFFICES ASSUME NEW q \in Requests, at'[q] = "refusing" PROVE Counts(q)'
    BY DEF Counting
  <2>1. q # r /\ at[q] = "refusing" /\ index'[q] = index[q] /\ loaded'[q] = loaded[q]
    BY <1>2
  <2>2. index[q] \in DOMAIN deliverables
    BY <2>1 DEF InFlight, Deciding
  <2>3. SameVersion(q)' => SameVersion(q)
    BY <2>1 DEF SameVersion
  <2>4. Counts(q)
    BY <2>1 DEF Counting
  <2> HIDE DEF RInv, TInv, TypeOK, SaveRefusal
  <2> QED
    BY <1>1, <1>3, <1>6, <2>1, <2>2, <2>3, <2>4 DEF Counts
<1>9. Rounds'
  <2>1. CASE deliverables[i].kind = "DESIGN"
    <3>1. Cardinality(Refused') <= Cardinality(Refused \ {i}) + 1
          /\ Cardinality(Refused \ {i}) \in Nat /\ Cardinality(Refused') \in Nat
      <4>1. IsFiniteSet(Refused) /\ Refused' = (Refused \ {i}) \cup {i}
        BY <1>7, <2>1, FewRefused
      <4> HIDE DEF RInv, TInv, TypeOK, SaveRefusal, i
      <4>2. IsFiniteSet(Refused \ {i}) /\ IsFiniteSet(Refused')
        BY <4>1, FS_RemoveElement, FS_AddElement
      <4>3. Cardinality(Refused') = Cardinality(Refused \ {i}) + 1
        BY <4>1, <4>2, FS_AddElement
      <4> QED
        BY <4>2, <4>3, FS_CardinalityType
    <3>2. revisionsUsed' = loaded[r].revisionsUsed + 1
      BY <2>1
    <3> HIDE DEF RInv, TInv, TypeOK, SaveRefusal
    <3>3. Cardinality(Refused') <= revisionsUsed'
      <4>1. \A a, b, c \in Nat : a <= b + 1 /\ b <= c => a <= c + 1
        OBVIOUS
      <4> QED
        BY <1>1, <3>1, <3>2, <4>1
    <3>4. revisionsUsed' <= MaxRevisions
      BY <1>1, <2>1, <3>2, DesignAssumption
    <3> QED
      BY <3>3, <3>4 DEF Rounds
  <2>2. CASE deliverables[i].kind # "DESIGN"
    BY <1>7, <2>2 DEF Rounds
  <2> QED
    BY <2>1, <2>2
<1> QED
  BY <1>5, <1>8, <1>9

LEMMA SubmissionRInv ==
  ASSUME RInv, TInv', NEW r \in Requests, SaveSubmission(r), ~queued'
  PROVE  RInv'
<1> USE DEF RInv, TInv, TypeOK, Finish, SaveSubmission, Pushed
<1> DEFINE last == Len(deliverables) + 1
<1>1. NothingPending /\ ~MeetsSubmission(r)
  BY DEF Submitting
<1>2. /\ DOMAIN deliverables' = DOMAIN deliverables \cup {last}
      /\ Len(deliverables') = last /\ last \notin DOMAIN deliverables
      /\ \A i \in DOMAIN deliverables : deliverables'[i] = deliverables[i]
      /\ deliverables'[last].status = "PENDING_REVIEW"
  OBVIOUS
<1>3. LastPending'
  BY <1>1, <1>2 DEF LastPending, AwaitsReview, NothingPending
<1>4. Submitting'
  BY <1>1 DEF Submitting, MeetsSubmission
<1>5. version \in Nat /\ \A q \in Requests : at[q] # "idle" => loaded[q].version \in Nat
  BY DEF InFlight, Copy
<1>6. Older'
  BY <1>5 DEF Older
<1>7. Refused' = Refused
  BY <1>2 DEF Refused
<1>8. Counting'
  <2> SUFFICES ASSUME NEW q \in Requests, at'[q] = "refusing" PROVE Counts(q)'
    BY DEF Counting
  <2>1. at[q] = "refusing" /\ index'[q] = index[q] /\ loaded'[q] = loaded[q]
    OBVIOUS
  <2>2. loaded[q].version \in Nat /\ loaded[q].version <= version /\ version' = version + 1
        /\ index[q] \in DOMAIN deliverables
    BY <1>5, <2>1 DEF Older, InFlight, Deciding
  <2>3. ~SameVersion(q)'
    BY <1>5, <2>1, <2>2 DEF SameVersion
  <2>4. Counts(q)
    BY <2>1 DEF Counting
  <2> HIDE DEF RInv, TInv, TypeOK, SaveSubmission
  <2> QED
    BY <1>2, <2>1, <2>2, <2>3, <2>4 DEF Counts
<1>9. Rounds'
  BY <1>7 DEF Rounds
<1> QED
  BY <1>3, <1>4, <1>6, <1>8, <1>9

\* The copy of a refusal has counted what the contract has.
LEMMA LoadRInv ==
  ASSUME RInv, TInv', NEW r \in Requests,
         SubmitDeliverable(r) \/ \E i \in DOMAIN deliverables : RequestChanges(r, i)
  PROVE  RInv'
<1> USE DEF RInv, TInv, TypeOK, contractVars
<1>1. PICK i \in Nat, place \in {"submitting", "refusing"} :
        /\ Load(r, place, i)
        /\ place = "submitting" => NothingPending
        /\ place = "refusing" =>
             /\ i \in DOMAIN deliverables /\ AwaitsReview(i)
             /\ deliverables[i].kind = "DESIGN" => revisionsUsed < MaxRevisions
  <2>1. CASE SubmitDeliverable(r)
    BY <2>1 DEF SubmitDeliverable
  <2>2. ASSUME NEW i \in DOMAIN deliverables, RequestChanges(r, i)
        PROVE  /\ Load(r, "refusing", i) /\ i \in Nat /\ AwaitsReview(i)
               /\ deliverables[i].kind = "DESIGN" => revisionsUsed < MaxRevisions
    BY <2>2 DEF RequestChanges
  <2> QED
    BY <2>1, <2>2
<1>2. /\ UNCHANGED <<deliverables, revisionsUsed, version>>
      /\ \A q \in Requests \ {r} : at'[q] = at[q] /\ loaded'[q] = loaded[q] /\ index'[q] = index[q]
      /\ at'[r] = place /\ index'[r] = i
      /\ loaded'[r].revisionsUsed = revisionsUsed /\ loaded'[r].version = version
  BY <1>1 DEF Load
<1>3. \A j : AwaitsReview(j)' <=> AwaitsReview(j)
  BY <1>2 DEF AwaitsReview
<1>4. LastPending' /\ Submitting'
  BY <1>1, <1>2, <1>3 DEF LastPending, Submitting, NothingPending
<1>9. Older'
  <2> SUFFICES ASSUME NEW q \in Requests, at'[q] # "idle" PROVE loaded'[q].version <= version'
    BY DEF Older
  <2>1. CASE q = r
    BY <1>2, <2>1
  <2>2. CASE q # r
    BY <1>2, <2>2 DEF Older
  <2> QED
    BY <2>1, <2>2
<1>5. Refused' = Refused
  BY <1>2 DEF Refused
<1>6. Cardinality(Refused \ {i}) <= revisionsUsed
  <2>1. Cardinality(Refused \ {i}) <= Cardinality(Refused)
        /\ Cardinality(Refused \ {i}) \in Nat
    <3>1. IsFiniteSet(Refused) /\ Refused \ {i} \in SUBSET Refused
      BY FewRefused
    <3> HIDE DEF RInv, TInv, TypeOK
    <3> QED
      BY <3>1, FS_Subset, FS_CardinalityType
  <2> QED
    BY <2>1, FewRefused DEF Rounds
<1>7. Counting'
  <2> SUFFICES ASSUME NEW q \in Requests, at'[q] = "refusing" PROVE Counts(q)'
    BY DEF Counting
  <2>1. CASE q = r
    <3>1. i = Len(deliverables) /\ place = "refusing"
      BY <1>1, <1>2, <2>1 DEF LastPending
    <3> HIDE DEF RInv, TInv, TypeOK
    <3> QED
      BY <1>1, <1>2, <1>5, <1>6, <2>1, <3>1 DEF Counts
  <2>2. CASE q # r
    <3>1. at[q] = "refusing" /\ loaded'[q] = loaded[q] /\ index'[q] = index[q]
      BY <1>2, <2>2
    <3>2. Counts(q)
      BY <3>1 DEF Counting
    <3> HIDE DEF RInv, TInv, TypeOK
    <3> QED
      BY <1>2, <1>5, <3>1, <3>2 DEF Counts, SameVersion
  <2> QED
    BY <2>1, <2>2
<1>8. Rounds'
  BY <1>2, <1>5 DEF Rounds
<1> QED
  BY <1>4, <1>7, <1>8, <1>9

LEMMA StepRInv == RInv /\ [Next]_vars /\ ~queued' => RInv'
<1> SUFFICES ASSUME RInv, [Next]_vars, ~queued' PROVE RInv'
  OBVIOUS
<1>0. TInv'
  BY StepTInv DEF RInv
<1>1. ASSUME NEW r \in Requests, NEW place \in Places \ {"refusing", "submitting"}, NEW i,
             Load(r, place, i)
      PROVE  RInv'
  <2>1. Calm(r)
    BY <1>1 DEF Calm, Load, contractVars, RInv, TInv, TypeOK
  <2> QED
    BY <1>0, <2>1, CalmRInv
<1>2. ASSUME NEW r \in Requests, Start(r)
      PROVE  RInv'
  BY <1>0, <1>1, <1>2, LoadRInv DEF Start, PayConceptFee, SettleConceptFee, FundEscrow,
       SettleEscrow, ApproveConcept, ApproveDesign, CancelContract, Places
<1>3. ASSUME NEW r \in Requests,
             \/ SaveConceptFee(r) \/ SaveDeposit(r) \/ StartDesign(r) \/ RefusedByVersion(r)
             \/ AskDispute(r) \/ CloseDesign(r) \/ SaveCancelledDesign(r) \/ ReopenBrief(r)
             \/ DeclineItsProposal(r) \/ Die(r)
      PROVE  RInv'
  <2>1. Calm(r)
    BY <1>3 DEF Calm, SaveConceptFee, SaveDeposit, StartDesign, RefusedByVersion, AskDispute,
         CloseDesign, SaveCancelledDesign, ReopenBrief, DeclineItsProposal, Die, Finish, Goto, Pushed,
         contractVars, RInv, TInv, TypeOK
  <2> QED
    BY <1>0, <2>1, CalmRInv
<1>4. ASSUME NEW r \in Requests, Continue(r)
      PROVE  RInv'
  BY <1>0, <1>3, <1>4, ApprovalRInv, RefusalRInv, SubmissionRInv DEF Continue
<1>5. ASSUME EngageAnother \/ RaiseDispute \/ WithdrawDispute \/ UNCHANGED vars
      PROVE  RInv'
  <2>1. UNCHANGED <<contractVars, requestVars>>
    BY <1>5 DEF EngageAnother, RaiseDispute, WithdrawDispute, vars
  <2> QED
    BY <1>0, <2>1 DEF RInv, contractVars, requestVars, LastPending, Submitting, Older, Counting,
         Counts, Rounds, Refused, AwaitsReview, NothingPending, SameVersion
<1> QED
  BY <1>2, <1>3, <1>4, <1>5 DEF Next

LEMMA InitRInv == Init => RInv
<1> SUFFICES ASSUME Init PROVE RInv
  OBVIOUS
<1>1. Refused = {} /\ Cardinality(Refused) = 0
  BY FS_EmptySet DEF Init, Refused
<1> QED
  BY <1>1, InitTInv, DesignAssumption
     DEF Init, RInv, LastPending, Submitting, Older, Counting, Rounds

LEMMA AlwaysRInv == Spec => [](TInv /\ (~queued => RInv))
<1>1. TInv /\ (~queued => RInv) /\ [Next]_vars => (TInv /\ (~queued => RInv))'
  BY StepTInv, StepRInv, HistoryGrows
<1>2. Init => TInv /\ (~queued => RInv)
  BY InitTInv, InitRInv
<1> QED
  BY <1>1, <1>2, PTL DEF Spec

\* Until two submissions are on their way together, one submission is under review at a
\* time, however many reviews of it race each other, and whoever dies.
THEOREM OneReview == Spec => []OnePendingReview
<1>1. (~queued => RInv) => OnePendingReview
  BY DEF RInv, LastPending, OnePendingReview
<1> QED
  BY <1>1, AlwaysRInv, PTL

\* Until then, every refused design has been counted against the rounds the client has,
\* however many reviews of the same submission race each other, and whoever dies.
THEOREM RoundsAreCounted == Spec => []NoFreeRevision
<1>1. (~queued => RInv) => NoFreeRevision
  BY DEF RInv, Rounds, NoFreeRevision
<1> QED
  BY <1>1, AlwaysRInv, PTL

-----------------------------------------------------------------------------
(* A funded contract is not sent back to wait for its deposit *)

\* A concept is under review or on its way, or the phase is still to come.
ConceptOpen ==
  \/ status \in {"AWAITING_CONCEPT_FEE", "CONCEPT_IN_PROGRESS"}
  \/ \E i \in DOMAIN deliverables : AwaitsReview(i) /\ deliverables[i].kind = "CONCEPT"
  \/ \E r \in Requests : at[r] = "submitting" /\ KindIn(loaded[r].status) = "CONCEPT"

\* Nothing is in escrow and nobody is about to put it there.
NoDeposit == deposits = 0 /\ \A r \in Requests : at[r] \notin {"funding", "settlingEscrow"}

Early == {"AWAITING_CONCEPT_FEE", "CONCEPT_IN_PROGRESS", "CANCELLED"}

\* With one concept fee entered, the escrow is empty as long as a concept is open;
\* with none, nothing has been submitted either.
ConceptFirst == conceptFees <= 1 /\ ConceptOpen => NoDeposit /\ status \in Early
FeeFirst ==
  conceptFees = 0 =>
    /\ NoDeposit /\ deliverables = <<>> /\ status \in {"AWAITING_CONCEPT_FEE", "CANCELLED"}
    /\ \A r \in Requests : at[r] # "submitting"

KInv == IInv /\ ConceptFirst /\ FeeFirst

\* A step that opens no concept, enters no payment and starts no deposit.
Aside(r) ==
  /\ ConceptOpen' => ConceptOpen /\ status' \in {status, "CANCELLED"}
  /\ UNCHANGED <<conceptFees, deposits>>
  /\ \A q \in Requests \ {r} : at'[q] = at[q]
  /\ at'[r] \in {"funding", "settlingEscrow"} => status = "AWAITING_ESCROW"
  /\ conceptFees = 0 => /\ UNCHANGED deliverables
                        /\ status' \in {status, "CANCELLED"} /\ at'[r] # "submitting"

LEMMA AsideKInv ==
  ASSUME KInv, IInv', NEW r \in Requests, Aside(r)
  PROVE  KInv'
<1> USE DEF KInv, Aside
<1>1. ConceptFirst'
  <2> SUFFICES ASSUME conceptFees' <= 1, ConceptOpen' PROVE NoDeposit' /\ status' \in Early
    BY DEF ConceptFirst
  <2>1. NoDeposit /\ status \in Early
    BY DEF ConceptFirst
  <2> QED
    BY <2>1 DEF NoDeposit, Early
<1>2. FeeFirst'
  BY DEF FeeFirst, NoDeposit
<1> QED
  BY <1>1, <1>2

LEMMA StartKInv ==
  ASSUME KInv, IInv', NEW r \in Requests, Start(r)
  PROVE  KInv'
<1> USE DEF KInv, IInv, TInv, TypeOK
<1>1. ASSUME NEW place \in Places \ {"idle"}, NEW i, Load(r, place, i),
             place \in {"funding", "settlingEscrow"} => status = "AWAITING_ESCROW",
             place = "submitting" => status \in {"CONCEPT_IN_PROGRESS", "DESIGN_IN_PROGRESS"}
      PROVE  KInv'
  <2>1. /\ UNCHANGED contractVars
        /\ \A q \in Requests \ {r} : at'[q] = at[q] /\ loaded'[q] = loaded[q]
        /\ at'[r] = place /\ loaded'[r].status = status
    BY <1>1 DEF Load
  <2>2. \A j : AwaitsReview(j)' <=> AwaitsReview(j)
    BY <2>1 DEF AwaitsReview, contractVars
  <2>3. ConceptOpen' => ConceptOpen
    BY <1>1, <2>1, <2>2 DEF ConceptOpen, contractVars, KindIn
  <2>4. conceptFees = 0 => place # "submitting"
    BY <1>1 DEF FeeFirst
  <2>5. Aside(r)
    BY <1>1, <2>1, <2>3, <2>4 DEF Aside, contractVars
  <2> QED
    BY <2>5, AsideKInv
<1> QED
  BY <1>1 DEF Start, PayConceptFee, SettleConceptFee, FundEscrow, SettleEscrow,
       SubmitDeliverable, RequestChanges, ApproveConcept, ApproveDesign, CancelContract, Places

\* The first fee finds an empty contract; a second one lifts the rule.
LEMMA FeeKInv ==
  ASSUME KInv, IInv', NEW r \in Requests, SaveConceptFee(r)
  PROVE  KInv'
<1> USE DEF KInv, IInv, TInv, TypeOK, SaveConceptFee
<1>1. CASE conceptFees = 0
  <2>1. NoDeposit' /\ status' \in Early
    BY <1>1 DEF FeeFirst, NoDeposit, Finish, SetStatus, Early
  <2> QED
    BY <1>1, <2>1 DEF ConceptFirst, FeeFirst
<1>2. CASE conceptFees # 0
  BY <1>2 DEF ConceptFirst, FeeFirst
<1> QED
  BY <1>1, <1>2

\* A deposit is made when no concept is open.
LEMMA DepositKInv ==
  ASSUME KInv, IInv', NEW r \in Requests, SaveDeposit(r)
  PROVE  KInv'
<1> USE DEF KInv, IInv, TInv, TypeOK, SaveDeposit
<1>1. ~(conceptFees <= 1 /\ ConceptOpen) /\ conceptFees # 0
  BY DEF ConceptFirst, FeeFirst, NoDeposit
<1>2. \A q \in Requests : at'[q] = "submitting" => at[q] = "submitting" /\ loaded'[q] = loaded[q]
  BY DEF Goto, Finish
<1>3. \A i : AwaitsReview(i)' <=> AwaitsReview(i)
  BY DEF AwaitsReview
<1>4. ConceptOpen' => ConceptOpen
  BY <1>2, <1>3 DEF ConceptOpen, SetStatus
<1> QED
  BY <1>1, <1>4 DEF ConceptFirst, FeeFirst

\* What was on its way is now under review.
LEMMA SubmissionKInv ==
  ASSUME KInv, IInv', NEW r \in Requests, SaveSubmission(r)
  PROVE  KInv'
<1> USE DEF KInv, IInv, TInv, TypeOK, SaveSubmission, Finish
<1>1. conceptFees # 0
  BY DEF FeeFirst
<1> DEFINE last == Len(deliverables) + 1
<1>2. /\ DOMAIN deliverables' = DOMAIN deliverables \cup {last}
      /\ \A i \in DOMAIN deliverables : deliverables'[i] = deliverables[i]
      /\ deliverables'[last].kind = KindIn(loaded[r].status)
  BY DEF KindIn
<1>3. ConceptOpen' => ConceptOpen
  <2>1. ASSUME NEW i \in DOMAIN deliverables', AwaitsReview(i)', deliverables'[i].kind = "CONCEPT"
        PROVE  ConceptOpen
    BY <1>2, <2>1 DEF AwaitsReview, ConceptOpen
  <2>2. ASSUME NEW q \in Requests, at'[q] = "submitting", KindIn(loaded'[q].status) = "CONCEPT"
        PROVE  ConceptOpen
    BY <2>2 DEF ConceptOpen
  <2> QED
    BY <2>1, <2>2 DEF ConceptOpen, KindIn
<1>4. Aside(r)
  BY <1>1, <1>3 DEF Aside
<1> QED
  BY <1>4, AsideKInv

\* An approval is of the one submission under review; no other is open afterwards.
LEMMA DecisionKInv ==
  ASSUME KInv, IInv', NEW r \in Requests,
         SaveRefusal(r) \/ SaveAcceptance(r) \/ SaveRelease(r)
  PROVE  KInv'
<1> USE DEF KInv, IInv, TInv, TypeOK, Finish, Goto
<1>1. /\ index[r] \in DOMAIN deliverables /\ at'[r] \in {"idle", "closing"}
      /\ \A q \in Requests \ {r} : at'[q] = at[q] /\ loaded'[q] = loaded[q]
      /\ UNCHANGED <<conceptFees, deposits>>
  BY DEF SaveRefusal, SaveAcceptance, SaveRelease, Deciding, InFlight
<1>2. PICK st \in {"APPROVED", "CHANGES_REQUESTED"} :
        deliverables' = [deliverables EXCEPT ![index[r]].status = st]
  BY DEF SaveRefusal, SaveAcceptance, SaveRelease, Decide
<1>3. \A i : AwaitsReview(i)' => /\ AwaitsReview(i) /\ i # index[r]
                                 /\ deliverables'[i].kind = deliverables[i].kind
  BY <1>1, <1>2 DEF AwaitsReview, Deliverable
<1>4. ConceptOpen' => status' = status /\ ConceptOpen
  <2>1. CASE SaveRefusal(r)
    <3>1. status' = status
      BY <2>1 DEF SaveRefusal
    <3>2. ASSUME NEW i \in DOMAIN deliverables', AwaitsReview(i)', deliverables'[i].kind = "CONCEPT"
          PROVE  ConceptOpen
      BY <1>3, <3>2 DEF ConceptOpen, AwaitsReview
    <3>3. ASSUME NEW q \in Requests, at'[q] = "submitting", KindIn(loaded'[q].status) = "CONCEPT"
          PROVE  ConceptOpen
      <4>1. q # r
        BY <1>1, <3>3
      <4> QED
        BY <1>1, <3>3, <4>1 DEF ConceptOpen
    <3> HIDE DEF KInv, IInv, TInv, TypeOK
    <3> QED
      BY <3>1, <3>2, <3>3 DEF ConceptOpen, KindIn
  <2>2. CASE SaveAcceptance(r) \/ SaveRelease(r)
    <3>1. AwaitsReview(index[r])
      BY <2>2 DEF SaveAcceptance, SaveRelease, Reviewing, ApprovingPlaces
    <3>2. \A i : ~AwaitsReview(i)'
      BY <1>1, <1>3, <3>1 DEF OnePending, AwaitsReview
    <3>3. \A q \in Requests : at'[q] # "submitting"
      BY <1>1, <3>1 DEF Submitting, NothingPending, AwaitsReview
    <3>4. status' \in {status, "AWAITING_ESCROW", "COMPLETED"}
      BY <2>2 DEF SaveAcceptance, SaveRelease, SetStatus
    <3> QED
      BY <3>2, <3>3, <3>4 DEF ConceptOpen
  <2> QED
    BY <2>1, <2>2
<1>5. conceptFees # 0
  BY <1>1 DEF FeeFirst
<1>6. Aside(r)
  BY <1>1, <1>4, <1>5 DEF Aside
<1> QED
  BY <1>6, AsideKInv

LEMMA OtherKInv ==
  ASSUME KInv, IInv', NEW r \in Requests,
         \/ StartDesign(r) \/ RefusedByVersion(r) \/ AskDispute(r) \/ CloseDesign(r)
         \/ SaveCancelledDesign(r) \/ ReopenBrief(r) \/ DeclineItsProposal(r) \/ Die(r)
  PROVE  KInv'
<1> USE DEF KInv, IInv, TInv, TypeOK, contractVars
<1>1. /\ UNCHANGED <<deliverables, conceptFees, deposits>>
      /\ status' \in {status, "CANCELLED"}
      /\ \A q \in Requests \ {r} : at'[q] = at[q] /\ loaded'[q] = loaded[q]
      /\ at'[r] \notin {"submitting", "funding", "settlingEscrow"}
  BY DEF StartDesign, RefusedByVersion, AskDispute, CloseDesign, SaveCancelledDesign, ReopenBrief,
         DeclineItsProposal, Die, SetStatus, Finish, Goto
<1>2. \A i : AwaitsReview(i)' <=> AwaitsReview(i)
  BY <1>1 DEF AwaitsReview
<1>3. ConceptOpen' => ConceptOpen
  BY <1>1, <1>2 DEF ConceptOpen
<1>4. Aside(r)
  BY <1>1, <1>3 DEF Aside
<1> QED
  BY <1>4, AsideKInv

LEMMA StepKInv == KInv /\ [Next]_vars /\ ~Crossed' => KInv'
<1> SUFFICES ASSUME KInv, [Next]_vars, ~Crossed' PROVE KInv'
  OBVIOUS
<1>0. IInv'
  BY StepIInv DEF KInv
<1>1. ASSUME NEW r \in Requests, Start(r)
      PROVE  KInv'
  BY <1>0, <1>1, StartKInv
<1>2. ASSUME NEW r \in Requests, Continue(r) \/ Die(r)
      PROVE  KInv'
  BY <1>0, <1>2, FeeKInv, DepositKInv, SubmissionKInv, DecisionKInv, OtherKInv DEF Continue
<1>3. ASSUME EngageAnother \/ RaiseDispute \/ WithdrawDispute \/ UNCHANGED vars
      PROVE  KInv'
  <2>1. UNCHANGED <<contractVars, requestVars>>
    BY <1>3 DEF EngageAnother, RaiseDispute, WithdrawDispute, vars
  <2> QED
    BY <1>0, <2>1 DEF KInv, contractVars, requestVars, ConceptFirst, FeeFirst, ConceptOpen,
         NoDeposit, AwaitsReview
<1> QED
  BY <1>1, <1>2, <1>3 DEF Next

LEMMA InitKInv == Init => KInv
BY InitIInv DEF Init, KInv, ConceptFirst, FeeFirst, NoDeposit, Early

\* Only the approval of a concept sends a contract to wait for its deposit.
LEMMA StepKeepsDeposit ==
  ASSUME KInv, [Next]_vars, status # "AWAITING_ESCROW", status' = "AWAITING_ESCROW"
  PROVE  deposits = 0 \/ conceptFees > 1
<1>1. PICK r \in Requests : SaveAcceptance(r)
  <2>1. ASSUME NEW r \in Requests, Start(r) \/ Die(r)
        PROVE  UNCHANGED status
    BY <2>1 DEF Start, PayConceptFee, SettleConceptFee, FundEscrow, SettleEscrow,
         SubmitDeliverable, RequestChanges, ApproveConcept, ApproveDesign, CancelContract, Load,
         Die, contractVars
  <2>2. ASSUME NEW r \in Requests, Continue(r), ~SaveAcceptance(r)
        PROVE  status' # "AWAITING_ESCROW" \/ UNCHANGED status
    BY <2>2 DEF Continue, SaveConceptFee, SaveDeposit, StartDesign, SaveSubmission, SaveRefusal,
         RefusedByVersion, AskDispute, SaveRelease, CloseDesign, SaveCancelledDesign, ReopenBrief,
         DeclineItsProposal, SetStatus, contractVars
  <2>3. EngageAnother \/ RaiseDispute \/ WithdrawDispute \/ UNCHANGED vars => UNCHANGED status
    BY DEF EngageAnother, RaiseDispute, WithdrawDispute, vars, contractVars
  <2> QED
    BY <2>1, <2>2, <2>3 DEF Next
<1>2. AwaitsReview(index[r]) /\ deliverables[index[r]].kind = "CONCEPT"
  BY <1>1 DEF SaveAcceptance, KInv, IInv, Reviewing, ApprovingPlaces
<1>3. ConceptOpen
  BY <1>2 DEF ConceptOpen, AwaitsReview
<1> QED
  BY <1>3 DEF KInv, ConceptFirst, NoDeposit, IInv, TInv, TypeOK

\* A contract whose escrow is funded is never sent back to wait for its deposit, unless
\* its concept fee was entered twice or two submissions or decisions crossed, however
\* payments, reviews, cancellations and deaths interleave.
THEOREM DepositIsKept == Spec => DecisionKeepsDeposit
<1>1. TInv /\ (~Crossed => KInv) /\ [Next]_vars => (TInv /\ (~Crossed => KInv))'
  BY StepTInv, StepKInv, HistoryGrows DEF Crossed
<1>2. (~Crossed => KInv) /\ [Next]_vars =>
        [status # "AWAITING_ESCROW" /\ status' = "AWAITING_ESCROW" /\ ~queued /\ ~redecided
           => deposits = 0 \/ conceptFees > 1]_vars
  BY StepKeepsDeposit DEF Crossed
<1>3. Init => TInv /\ (~Crossed => KInv)
  BY InitTInv, InitKInv
<1> QED
  BY <1>1, <1>2, <1>3, PTL DEF Spec, DecisionKeepsDeposit

-----------------------------------------------------------------------------
(* The project follows its contract *)

\* The places of a handler that has yet to save the status it loaded, and of one that
\* has saved it and not yet told the project.
Unsaved == {"payingConceptFee", "settlingConceptFee", "funding", "settlingEscrow",
            "acceptingConcept", "askingDispute", "releasing", "cancelling"}
Telling == {"startingDesign", "closing", "reopening", "declining"}

\* The copy of a handler of the client's is as the contract is until it saves; what it
\* saved is there until it is done.
InStep ==
  \A r \in Requests :
    /\ at[r] \in Unsaved => loaded[r].status = status
    /\ at[r] = "startingDesign" => status = "DESIGN_IN_PROGRESS"
    /\ at[r] = "closing" => status = "COMPLETED"
    /\ at[r] \in {"reopening", "declining"} => status = "CANCELLED"
    /\ at[r] = "declining" => architect # "own"

Somebody(places) == \E r \in Requests : at[r] \in places

\* The project is where its contract is, or a request is about to take it there.
Following ==
  /\ status = "DESIGN_IN_PROGRESS" =>
       projectStatus = "DESIGN_IN_PROGRESS" \/ Somebody({"startingDesign"})
  /\ status = "COMPLETED" => projectStatus = "PERMIT_STAGE" \/ Somebody({"closing"})
  /\ status = "CANCELLED" =>
       (architect # "own" /\ designProposal = "DECLINED") \/ Somebody({"reopening", "declining"})

\* What holds until the project is left behind.
PInv == TInv /\ InStep /\ Following

OthersStay(r) == \A q \in Requests \ {r} : at'[q] = at[q] /\ loaded'[q] = loaded[q]

\* A handler loads, or goes on or ends without having changed the status.
LEMMA BesidePInv ==
  ASSUME PInv, TInv', NEW r \in Requests, UNCHANGED <<status, projectVars>>, OthersStay(r),
         at[r] \notin Telling, at'[r] \notin Telling,
         at'[r] \in Unsaved => loaded'[r].status = status
  PROVE  PInv'
<1> USE DEF PInv, OthersStay, projectVars
<1>1. InStep'
  BY DEF InStep, Unsaved, Telling
<1>2. ASSUME NEW place \in Telling, NEW q \in Requests, at[q] = place
      PROVE  at'[q] = place
  BY <1>2
<1>3. Following'
  BY <1>2 DEF Following, Somebody, Telling
<1> QED
  BY <1>1, <1>3

\* A status is saved while no other request of the client's is under way.
LEMMA SavePInv ==
  ASSUME PInv, TInv', NEW r \in Requests, OthersStay(r), ~MeetsClient(r),
         UNCHANGED projectVars,
         \/ at'[r] = "idle" /\ status' \in {"CONCEPT_IN_PROGRESS", "AWAITING_ESCROW"}
         \/ at'[r] = "startingDesign" /\ status' = "DESIGN_IN_PROGRESS"
         \/ at'[r] = "closing" /\ status' = "COMPLETED"
         \/ at'[r] = "reopening" /\ status' = "CANCELLED"
  PROVE  PInv'
<1> USE DEF PInv, OthersStay
<1>1. \A q \in Requests \ {r} : at[q] \in {"idle", "submitting", "refusing"}
  BY DEF MeetsClient
<1>2. InStep'
  BY <1>1 DEF InStep, Unsaved
<1>3. Following'
  BY DEF Following, Somebody
<1> QED
  BY <1>2, <1>3

\* A handler tells the project what it saved.
LEMMA TellPInv ==
  ASSUME PInv, TInv', NEW r \in Requests, OthersStay(r), UNCHANGED status,
         \/ /\ at[r] = "startingDesign" /\ at'[r] = "idle"
            /\ projectStatus' = "DESIGN_IN_PROGRESS" /\ UNCHANGED <<architect, designProposal>>
         \/ /\ at[r] = "closing" /\ at'[r] = "idle"
            /\ projectStatus' = "PERMIT_STAGE" /\ UNCHANGED <<architect, designProposal>>
         \/ /\ at[r] = "reopening" /\ at'[r] = "declining"
            /\ architect' = "none" /\ UNCHANGED designProposal
         \/ /\ at[r] = "declining" /\ at'[r] = "idle"
            /\ UNCHANGED <<projectStatus, architect>> /\ designProposal' = "DECLINED"
  PROVE  PInv'
<1> USE DEF PInv, OthersStay
<1>1. InStep'
  BY DEF InStep, Unsaved
<1>2. Following'
  <2>1. CASE at[r] = "startingDesign" \/ at[r] = "closing"
    BY <2>1 DEF Following, Somebody, InStep
  <2>2. CASE at[r] = "reopening" \/ at[r] = "declining"
    BY <2>2 DEF Following, Somebody, InStep
  <2> QED
    BY <2>1, <2>2
<1> QED
  BY <1>1, <1>2

LEMMA StepPInv == PInv /\ [Next]_vars /\ ~astray' => PInv'
<1> SUFFICES ASSUME PInv, [Next]_vars, ~astray' PROVE PInv'
  OBVIOUS
<1>0. TInv'
  BY StepTInv DEF PInv
<1>t. at \in [Requests -> Places] /\ loaded \in [Requests -> Copy \cup {None}]
  BY DEF PInv, TInv, TypeOK
<1>1. ASSUME NEW r \in Requests, Start(r)
      PROVE  PInv'
  <2>1. ASSUME NEW place, NEW i, Load(r, place, i), place \notin Telling
        PROVE  PInv'
    <3>1. /\ OthersStay(r) /\ UNCHANGED <<status, projectVars>>
          /\ at[r] = "idle" /\ at'[r] = place /\ loaded'[r].status = status
      BY <1>t, <2>1 DEF Load, OthersStay, contractVars
    <3> QED
      BY <1>0, <2>1, <3>1, BesidePInv DEF Telling
  <2> QED
    BY <1>1, <2>1 DEF Start, PayConceptFee, SettleConceptFee, FundEscrow, SettleEscrow,
       SubmitDeliverable, RequestChanges, ApproveConcept, ApproveDesign, CancelContract, Telling
<1>2. ASSUME NEW r \in Requests, Continue(r)
      PROVE  PInv'
  <2>0. /\ OthersStay(r)
        /\ at[r] \in Unsaved => loaded[r].status = status
    BY <1>t, <1>2 DEF Continue, SaveConceptFee, SaveDeposit, StartDesign, SaveSubmission,
         SaveRefusal, SaveAcceptance, RefusedByVersion, AskDispute, SaveRelease, CloseDesign,
         SaveCancelledDesign, ReopenBrief, DeclineItsProposal, Finish, Goto, PInv, InStep,
         OthersStay
  <2>1. CASE SaveSubmission(r) \/ SaveRefusal(r) \/ RefusedByVersion(r)
    <3>1. UNCHANGED <<status, projectVars>> /\ at'[r] = "idle" /\ at[r] \notin Telling
      BY <1>t, <2>1 DEF SaveSubmission, SaveRefusal, RefusedByVersion, Finish, contractVars,
           Telling
    <3> QED
      BY <1>0, <2>0, <3>1, BesidePInv DEF Unsaved, Telling
  <2>2. CASE AskDispute(r)
    <3>1. /\ UNCHANGED <<status, projectVars>> /\ at[r] = "askingDispute"
          /\ \/ at'[r] = "idle"
             \/ at'[r] = "releasing" /\ loaded'[r] = loaded[r]
      BY <1>t, <2>2 DEF AskDispute, Finish, Goto, contractVars
    <3>2. at[r] \notin Telling /\ at'[r] \notin Telling
      BY <3>1 DEF Telling
    <3>3. at'[r] \in Unsaved => loaded'[r].status = status
      BY <2>0, <3>1 DEF Unsaved
    <3> QED
      BY <1>0, <2>0, <3>1, <3>2, <3>3, BesidePInv
  <2>3. CASE SaveConceptFee(r)
    <3>1. /\ at[r] \in Unsaved /\ at'[r] = "idle" /\ ~MeetsClient(r)
          /\ status' \in {status, "CONCEPT_IN_PROGRESS"} /\ UNCHANGED projectVars
      BY <1>t, <2>3 DEF SaveConceptFee, Finish, SetStatus, Unsaved, MovedBeside
    <3>2. CASE status' = status
      BY <1>0, <2>0, <3>1, <3>2, BesidePInv DEF Unsaved, Telling
    <3>3. CASE status' = "CONCEPT_IN_PROGRESS"
      BY <1>0, <2>0, <3>1, <3>3, SavePInv
    <3> QED
      BY <3>1, <3>2, <3>3
  <2>4. CASE SaveDeposit(r)
    <3>1. at[r] = "funding" /\ at'[r] = "startingDesign" /\ ~MeetsClient(r)
      BY <1>t, <2>4 DEF SaveDeposit, Goto, MovedBeside
    <3>2. status' = "DESIGN_IN_PROGRESS" /\ UNCHANGED projectVars
      BY <2>0, <2>4, <3>1 DEF SaveDeposit, SetStatus, Unsaved
    <3> QED
      BY <1>0, <2>0, <3>1, <3>2, SavePInv
  <2>5. CASE SaveAcceptance(r)
    <3>1. /\ at[r] = "acceptingConcept" /\ at'[r] = "idle" /\ ~MeetsClient(r)
          /\ status' \in {status, "AWAITING_ESCROW"} /\ UNCHANGED projectVars
      BY <1>t, <2>5 DEF SaveAcceptance, Finish, SetStatus, MovedBeside
    <3>2. CASE status' = status
      BY <1>0, <2>0, <3>1, <3>2, BesidePInv DEF Unsaved, Telling
    <3>3. CASE status' = "AWAITING_ESCROW"
      BY <1>0, <2>0, <3>1, <3>3, SavePInv
    <3> QED
      BY <3>1, <3>2, <3>3
  <2>6. CASE SaveRelease(r)
    <3>1. at[r] = "releasing" /\ at'[r] = "closing" /\ ~MeetsClient(r)
      BY <1>t, <2>6 DEF SaveRelease, Goto, MovedBeside
    <3>2. status' = "COMPLETED" /\ UNCHANGED projectVars
      BY <2>0, <2>6, <3>1 DEF SaveRelease, SetStatus, Unsaved
    <3> QED
      BY <1>0, <2>0, <3>1, <3>2, SavePInv
  <2>7. CASE SaveCancelledDesign(r)
    <3>1. at[r] = "cancelling" /\ at'[r] = "reopening" /\ ~MeetsClient(r)
      BY <1>t, <2>7 DEF SaveCancelledDesign, Goto, MovedBeside
    <3>2. status' = "CANCELLED" /\ UNCHANGED projectVars
      BY <2>0, <2>7, <3>1 DEF SaveCancelledDesign, SetStatus, Unsaved
    <3> QED
      BY <1>0, <2>0, <3>1, <3>2, SavePInv
  <2>8. CASE StartDesign(r) \/ CloseDesign(r) \/ ReopenBrief(r) \/ DeclineItsProposal(r)
    BY <1>0, <1>t, <2>0, <2>8, TellPInv DEF StartDesign, CloseDesign, ReopenBrief,
       DeclineItsProposal, Finish, Goto, contractVars
  <2> QED
    BY <1>2, <2>1, <2>2, <2>3, <2>4, <2>5, <2>6, <2>7, <2>8 DEF Continue
<1>3. ASSUME NEW r \in Requests, Die(r)
      PROVE  PInv'
  <2>1. /\ OthersStay(r) /\ UNCHANGED <<status, projectVars>> /\ at'[r] = "idle"
        /\ at[r] \notin Telling
    BY <1>t, <1>3 DEF Die, Finish, OthersStay, contractVars, Telling
  <2> QED
    BY <1>0, <2>1, BesidePInv DEF Unsaved, Telling
<1>4. CASE EngageAnother
  BY <1>0, <1>4 DEF EngageAnother, contractVars, requestVars, PInv, InStep, Following, Somebody
<1>5. ASSUME RaiseDispute \/ WithdrawDispute \/ UNCHANGED vars
      PROVE  PInv'
  <2>1. UNCHANGED <<contractVars, projectVars, requestVars>>
    BY <1>5 DEF RaiseDispute, WithdrawDispute, vars
  <2> QED
    BY <1>0, <2>1 DEF contractVars, projectVars, requestVars, PInv, InStep, Following, Somebody
<1> QED
  BY <1>1, <1>2, <1>3, <1>4, <1>5 DEF Next

LEMMA InitPInv == Init => PInv
BY InitTInv DEF Init, PInv, InStep, Following, Unsaved

\* The project is where its contract is once the handlers have answered, whatever the
\* architect submits, the reviewers refuse and whoever is engaged on a reopened brief,
\* unless a status was saved while another request of the client's was under way, the
\* gateway settled the deposit, or a handler died before it told the project.
THEOREM ProjectIsThere == Spec => []ProjectFollows
<1>1. TInv /\ (~astray => PInv) /\ [Next]_vars => (TInv /\ (~astray => PInv))'
  BY StepTInv, StepPInv, HistoryGrows
<1>2. (~astray => PInv) => ProjectFollows
  BY DEF PInv, Following, Somebody, ProjectFollows, Quiet
<1>3. Init => TInv /\ (~astray => PInv)
  BY InitTInv, InitPInv
<1> QED
  BY <1>1, <1>2, <1>3, PTL DEF Spec
=============================================================================
