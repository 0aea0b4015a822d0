------------------------------ MODULE Matching ------------------------------
(***************************************************************************)
(* The brief and its proposals: the owner posts, edits and deletes a       *)
(* project's brief, architects propose and withdraw, the owner declines or *)
(* accepts one, which engages its architect and signs a design contract;   *)
(* cancelling that contract opens the brief again                          *)
(* (controllers/proposals.controller.ts, projects.controller.ts and        *)
(* contracts.controller.ts).                                               *)
(*                                                                         *)
(* Every handler checks copies and saves them in turn, each save a step.   *)
(* What happens under the contract is DesignContract's.                    *)
(***************************************************************************)
EXTENDS Naturals, FiniteSets, Nothing

CONSTANTS
  Proposals,      \* the proposals that can be filed
  Architects,
  MatchRequests,  \* the requests that can be under way together
  Contracts,      \* the contracts that can be signed
  MaxEdits        \* bound: edits of the brief

BriefStatus == {"DRAFT", "BRIEF_POSTED", "CONCEPT_STAGE", "PERMIT_STAGE", "UNDER_CONSTRUCTION",
                "COMPLETED", "ARCHIVED", "deleted"}
ProposalStatus == {"PENDING", "ACCEPTED", "DECLINED", "WITHDRAWN"}
LiveProposal == {"PENDING", "ACCEPTED"}

ASSUME MatchingAssumption ==
  /\ MaxEdits \in Nat
  /\ None \notin Proposals \cup Architects \cup Contracts
  /\ None \notin [architect : Architects, status : ProposalStatus]
  /\ None \notin [architect : Architects, scope : 0..MaxEdits, live : BOOLEAN]

VARIABLES
  brief,       \* Project: status, architect, and which edit its scope is
  proposal,    \* Proposal documents
  signed,      \* Contract documents: the architect, the scope when signed, whether live
  step,        \* each request: how far, and what it is about
  \* --- history, read by no action
  muddled      \* an acceptance met another one, an edit, a deletion, a cancellation, the
               \* end of its own proposal or of its process; a cancellation died; or the
               \* brief was posted again after an acceptance

matchingVars == <<brief, proposal, signed, step, muddled>>

MatchingTypeOK ==
  /\ brief \in [status : BriefStatus, architect : Architects \cup {None}, scope : 0..MaxEdits]
  /\ proposal \in [Proposals -> [architect : Architects, status : ProposalStatus] \cup {None}]
  /\ signed \in [Contracts -> [architect : Architects, scope : 0..MaxEdits, live : BOOLEAN] \cup {None}]
  /\ step \in [MatchRequests ->
       [stage : {"idle", "proposing", "winning", "engaging", "informing", "signing", "declining",
                 "withdrawing", "posting", "editing", "deleting", "cancelling", "reopening",
                 "releasing"},
        about : Proposals \cup Contracts \cup {None}, by : Architects \cup {None}]]
  /\ muddled \in BOOLEAN

NoStep == [stage |-> "idle", about |-> None, by |-> None]

MatchingInit ==
  /\ brief = [status |-> "DRAFT", architect |-> None, scope |-> 0]
  /\ proposal = [p \in Proposals |-> None]
  /\ signed = [c \in Contracts |-> None]
  /\ step = [r \in MatchRequests |-> NoStep]
  /\ muddled = FALSE

Begins(r, stage, about, by) ==
  /\ step[r].stage = "idle"
  /\ step' = [step EXCEPT ![r] = [stage |-> stage, about |-> about, by |-> by]]
Moves(r, stage) == step' = [step EXCEPT ![r] = [step[r] EXCEPT !.stage = stage]]
Stops(r) == step' = [step EXCEPT ![r] = NoStep]

AcceptStages == {"winning", "engaging", "informing", "signing"}
CancelStages == {"cancelling", "reopening", "releasing"}
During(r, stages) == \E q \in MatchRequests \ {r} : step[q].stage \in stages

SetProposal(p, status) == proposal' = [proposal EXCEPT ![p] = [proposal[p] EXCEPT !.status = status]]

-----------------------------------------------------------------------------
(* Proposals *)

\* POST /api/projects/:id/proposals
CreateProposal(r, p, a) ==
  /\ Begins(r, "proposing", p, a)
  /\ brief.status = "BRIEF_POSTED"
  /\ proposal[p] = None /\ \A q \in MatchRequests : step[q].about # p
  /\ \A q \in Proposals : proposal[q] # None =>
       ~(proposal[q].architect = a /\ proposal[q].status \in LiveProposal)
  /\ UNCHANGED <<brief, proposal, signed, muddled>>

\* The unique index lets in one live proposal per architect.
InsertProposal(r) ==
  LET a == step[r].by IN
  /\ step[r].stage = "proposing"
  /\ IF \E q \in Proposals : proposal[q] # None /\ proposal[q].architect = a
                             /\ proposal[q].status \in LiveProposal
     THEN UNCHANGED proposal
     ELSE proposal' = [proposal EXCEPT ![step[r].about] = [architect |-> a, status |-> "PENDING"]]
  /\ Stops(r)
  /\ UNCHANGED <<brief, signed, muddled>>

Pending(p) == proposal[p] # None /\ proposal[p].status = "PENDING"

\* (mutant) The brief may have been awarded.
AcceptAnyTime(r, p) ==
  /\ Begins(r, "winning", p, None)
  /\ Pending(p)
  /\ muddled' = (muddled \/ During(r, AcceptStages \cup CancelStages \cup {"editing", "deleting"})
                 \/ \E q \in MatchRequests \ {r} :
                      step[q].about = p /\ step[q].stage \in {"declining", "withdrawing"})
  /\ UNCHANGED <<brief, proposal, signed>>

\* POST /api/proposals/:id/accept: proposal and project are checked, then written in turn.
AcceptProposal(r, p) ==
  /\ Begins(r, "winning", p, None)
  /\ Pending(p)
  /\ brief.status = "BRIEF_POSTED"
  /\ muddled' = (muddled \/ During(r, AcceptStages \cup CancelStages \cup {"editing", "deleting"})
                 \/ \E q \in MatchRequests \ {r} :
                      step[q].about = p /\ step[q].stage \in {"declining", "withdrawing"})
  /\ UNCHANGED <<brief, proposal, signed>>

\* A save finds its document gone when the brief was deleted.
SaveWinner(r) ==
  LET p == step[r].about IN
  /\ step[r].stage = "winning"
  /\ IF proposal[p] = None THEN Stops(r) /\ UNCHANGED proposal
     ELSE Moves(r, "engaging") /\ SetProposal(p, "ACCEPTED")
  /\ UNCHANGED <<brief, signed, muddled>>

EngageArchitect(r) ==
  LET p == step[r].about IN
  /\ step[r].stage = "engaging"
  /\ IF brief.status = "deleted" \/ proposal[p] = None THEN Stops(r) /\ UNCHANGED brief
     ELSE /\ Moves(r, "informing")
          /\ brief' = [brief EXCEPT !.status = "CONCEPT_STAGE", !.architect = proposal[p].architect]
  /\ UNCHANGED <<proposal, signed, muddled>>

\* updateMany: what is pending is declined.
DeclineLosers(r) ==
  /\ step[r].stage = "informing"
  /\ proposal' = [q \in Proposals |-> IF Pending(q) THEN [proposal[q] EXCEPT !.status = "DECLINED"]
                                      ELSE proposal[q]]
  /\ Moves(r, "signing")
  /\ UNCHANGED <<brief, signed, muddled>>

SignContract(r, c) ==
  LET p == step[r].about IN
  /\ step[r].stage = "signing"
  /\ signed[c] = None /\ proposal[p] # None
  /\ signed' = [signed EXCEPT ![c] =
       [architect |-> proposal[p].architect, scope |-> brief.scope, live |-> TRUE]]
  /\ Stops(r)
  /\ UNCHANGED <<brief, proposal, muddled>>

\* POST /api/proposals/:id/decline and /withdraw
Refuse(r, p, stage) ==
  /\ Begins(r, stage, p, None)
  /\ Pending(p)
  /\ muddled' = (muddled \/ \E q \in MatchRequests \ {r} :
       step[q].about = p /\ step[q].stage \in AcceptStages)
  /\ UNCHANGED <<brief, proposal, signed>>

DeclineProposal(r, p) == Refuse(r, p, "declining")
WithdrawProposal(r, p) == Refuse(r, p, "withdrawing")

SaveRefused(r) ==
  LET p == step[r].about IN
  /\ step[r].stage \in {"declining", "withdrawing"}
  /\ IF proposal[p] = None THEN UNCHANGED proposal
     ELSE SetProposal(p, IF step[r].stage = "declining" THEN "DECLINED" ELSE "WITHDRAWN")
  /\ Stops(r)
  /\ UNCHANGED <<brief, signed, muddled>>

-----------------------------------------------------------------------------
(* The brief *)

\* POST /api/projects/:id/post
PostBrief(r) ==
  /\ Begins(r, "posting", None, None)
  /\ brief.status = "DRAFT"
  /\ UNCHANGED <<brief, proposal, signed, muddled>>

Editable == {"DRAFT", "BRIEF_POSTED"}

\* The save asks nothing again: a second click on "post" may land on an engaged brief.
SavePosted(r) ==
  /\ step[r].stage = "posting"
  /\ brief' = IF brief.status = "deleted" THEN brief ELSE [brief EXCEPT !.status = "BRIEF_POSTED"]
  /\ muddled' = (muddled \/ brief.status \notin Editable \cup {"deleted"})
  /\ Stops(r)
  /\ UNCHANGED <<proposal, signed>>

\* PATCH and DELETE /api/projects/:id
ChangeBrief(r, stage) ==
  /\ Begins(r, stage, None, None)
  /\ brief.status \in Editable
  /\ muddled' = (muddled \/ During(r, AcceptStages))
  /\ UNCHANGED <<brief, proposal, signed>>

UpdateProject(r) == brief.scope < MaxEdits /\ ChangeBrief(r, "editing")
DeleteProject(r) == ChangeBrief(r, "deleting")

SaveBrief(r) ==
  /\ step[r].stage = "editing"
  /\ brief.scope < MaxEdits
  /\ brief' = IF brief.status = "deleted" THEN brief ELSE [brief EXCEPT !.scope = @ + 1]
  /\ Stops(r)
  /\ UNCHANGED <<proposal, signed, muddled>>

\* The proposals go first.
RemoveBrief(r) ==
  /\ step[r].stage = "deleting"
  /\ proposal' = [p \in Proposals |-> None]
  /\ brief' = [brief EXCEPT !.status = "deleted"]
  /\ Stops(r)
  /\ UNCHANGED <<signed, muddled>>

\* PATCH /api/projects/:id/status, over OWNER_TRANSITIONS.  No other handler here writes
\* the status of a brief past its concept, but for a posting that muddles it, so its load
\* and its save are one step.
UpdateProjectStatus(from, to) ==
  /\ <<from, to>> \in {<<"PERMIT_STAGE", "UNDER_CONSTRUCTION">>,
                       <<"UNDER_CONSTRUCTION", "COMPLETED">>, <<"COMPLETED", "ARCHIVED">>}
  /\ brief.status = from
  /\ brief' = [brief EXCEPT !.status = to]
  /\ UNCHANGED <<proposal, signed, step, muddled>>

-----------------------------------------------------------------------------
(* The contract, as it acts on the brief *)

\* POST /api/contracts/:id/cancel
CancelSigned(r, c) ==
  /\ Begins(r, "cancelling", c, None)
  /\ signed[c] # None /\ signed[c].live
  /\ muddled' = (muddled \/ During(r, AcceptStages \cup CancelStages))
  /\ UNCHANGED <<brief, proposal, signed>>

EndContract(c) == signed' = [signed EXCEPT ![c] = [signed[c] EXCEPT !.live = FALSE]]

SaveCancelledContract(r) ==
  /\ step[r].stage = "cancelling"
  /\ EndContract(step[r].about)
  /\ Moves(r, "reopening")
  /\ UNCHANGED <<brief, proposal, muddled>>

OpenBriefAgain(r) ==
  /\ step[r].stage = "reopening"
  /\ brief' = [brief EXCEPT !.status = "BRIEF_POSTED", !.architect = None]
  /\ Moves(r, "releasing")
  /\ UNCHANGED <<proposal, signed, muddled>>

DeclineWinner(r) ==
  LET a == signed[step[r].about].architect IN
  /\ step[r].stage = "releasing"
  /\ proposal' = [q \in Proposals |->
       IF proposal[q] # None /\ proposal[q].architect = a /\ proposal[q].status = "ACCEPTED"
       THEN [proposal[q] EXCEPT !.status = "DECLINED"] ELSE proposal[q]]
  /\ Stops(r)
  /\ UNCHANGED <<brief, signed, muddled>>

\* The design is approved and paid: the project moves to its permits.  How that meets a
\* cancellation of the same contract is DesignContract's.
CompleteDesign(c) ==
  /\ signed[c] # None /\ signed[c].live
  /\ \A r \in MatchRequests : step[r].about # c
  /\ EndContract(c)
  /\ brief' = [brief EXCEPT !.status = "PERMIT_STAGE"]
  /\ UNCHANGED <<proposal, step, muddled>>

\* The process ends between two writes.
MatchDies(r) ==
  /\ step[r].stage # "idle"
  /\ Stops(r)
  /\ muddled' = (muddled \/ step[r].stage \in (AcceptStages \cup CancelStages) \ {"winning", "cancelling"})
  /\ UNCHANGED <<brief, proposal, signed>>

MatchingNext ==
  \/ \E r \in MatchRequests : InsertProposal(r) \/ SaveWinner(r) \/ EngageArchitect(r)
       \/ DeclineLosers(r) \/ SaveRefused(r) \/ UpdateProject(r) \/ DeleteProject(r) \/ SaveBrief(r)
       \/ PostBrief(r) \/ SavePosted(r) \/ RemoveBrief(r) \/ SaveCancelledContract(r) \/ OpenBriefAgain(r) \/ DeclineWinner(r)
       \/ MatchDies(r)
  \/ \E r \in MatchRequests, p \in Proposals, a \in Architects : CreateProposal(r, p, a)
  \/ \E r \in MatchRequests, p \in Proposals :
       AcceptProposal(r, p) \/ DeclineProposal(r, p) \/ WithdrawProposal(r, p)
  \/ \E r \in MatchRequests, c \in Contracts : SignContract(r, c) \/ CancelSigned(r, c)
  \/ \E c \in Contracts : CompleteDesign(c)
  \/ \E from, to \in BriefStatus : UpdateProjectStatus(from, to)

MatchingSpec == MatchingInit /\ [][MatchingNext]_matchingVars

-----------------------------------------------------------------------------
(* Properties *)

Undecided == \A r \in MatchRequests : step[r].stage \notin AcceptStages \cup CancelStages

\* Whatever architects file and withdraw meanwhile, an open brief has no architect, no
\* accepted proposal and no running contract, and an engaged one has exactly one of
\* each, all of the same architect, signed on the scope the brief still has.  Excepted
\* are briefs on which an acceptance crossed another decision or died, or that a second
\* posting, begun while they were drafts, opened again.
BriefMatchesContract ==
  (Undecided /\ ~muddled) =>
    LET accepted == {p \in Proposals : proposal[p] # None /\ proposal[p].status = "ACCEPTED"}
        running == {c \in Contracts : signed[c] # None /\ signed[c].live} IN
    /\ brief.status \in Editable \cup {"deleted"} =>
         accepted = {} /\ running = {} /\ brief.architect = None
    /\ brief.status = "CONCEPT_STAGE" =>
         \E p \in accepted, c \in running :
           /\ accepted = {p} /\ running = {c}
           /\ brief.architect = proposal[p].architect
           /\ signed[c].architect = brief.architect /\ signed[c].scope = brief.scope
=============================================================================
