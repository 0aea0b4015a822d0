---------------------------- MODULE Verification ----------------------------
(***************************************************************************)
(* Verification of a professional: the profile is edited, submitted for    *)
(* review, opened by a supervisor and decided; the decision is the badge   *)
(* that the gated operations read (controllers/verification.controller.ts, *)
(* controllers/professionals.controller.ts, models/VerificationRequest.ts).*)
(*                                                                         *)
(* One professional.  Every handler loads the account and the request and  *)
(* saves them in turn.                                                     *)
(***************************************************************************)
EXTENDS Naturals, Nothing

CONSTANTS
  Submissions,     \* the verification requests that can be made
  Desks,           \* the handlers that can be under way together
  MaxProfileEdits  \* bound

Badges == {"PENDING_VERIFICATION", "DOCUMENTS_SUBMITTED", "UNDER_REVIEW", "APPROVED", "REJECTED"}
OpenStatus == {"DOCUMENTS_SUBMITTED", "UNDER_REVIEW"}

ASSUME VerificationAssumption ==
  /\ MaxProfileEdits \in Nat
  /\ None \notin Submissions
  /\ None \notin [status : Badges, profile : 0..MaxProfileEdits]

VARIABLES
  badge,       \* User.verificationStatus
  profile,     \* User.profile: how many times it was edited
  submission,  \* VerificationRequest documents: the status, and which profile was submitted
  desk,        \* each handler: how far, on which request, the copy it loaded
  latest,      \* the submission made last
  \* --- history, read by no action
  disordered   \* a submission or a decision met another handler, or one ended between its saves

verificationVars == <<badge, profile, submission, desk, latest, disordered>>

NoDesk == [stage |-> "idle", on |-> None, badge |-> "PENDING_VERIFICATION", profile |-> 0,
           verdict |-> "REJECTED"]

VerificationTypeOK ==
  /\ badge \in Badges
  /\ profile \in 0..MaxProfileEdits
  /\ submission \in [Submissions -> [status : Badges, profile : 0..MaxProfileEdits] \cup {None}]
  /\ desk \in [Desks ->
       [stage : {"idle", "editing", "asking", "screening", "submitting", "opening", "showing",
                 "deciding", "granting"},
        on : Submissions \cup {None}, badge : Badges, profile : 0..MaxProfileEdits,
        verdict : {"APPROVED", "REJECTED"}]]
  /\ latest \in Submissions \cup {None}
  /\ disordered \in BOOLEAN

VerificationInit ==
  /\ badge = "PENDING_VERIFICATION"
  /\ profile = 0
  /\ submission = [s \in Submissions |-> None]
  /\ desk = [d \in Desks |-> NoDesk]
  /\ latest = None
  /\ disordered = FALSE

-----------------------------------------------------------------------------
(* Handlers *)

AtDesk(d, stage) == desk[d].stage = stage
DeskMoves(d, stage) == desk' = [desk EXCEPT ![d] = [desk[d] EXCEPT !.stage = stage]]
DeskEnds(d) == desk' = [desk EXCEPT ![d] = NoDesk]

Submitting == {"asking", "screening", "submitting"}
Deciding == {"deciding", "granting"}

\* A submission crosses whatever is under way, a decision whatever writes the badge.
Crosses(d, stage) ==
  \E e \in Desks \ {d} :
    LET stages == {stage, desk[e].stage} IN
    /\ ~AtDesk(e, "idle")
    /\ \/ stages \cap Submitting # {}
       \/ stages \cap Deciding # {} /\ "editing" \notin stages

\* A handler loads the account.
DeskBegins(d, stage, on, verdict) ==
  /\ AtDesk(d, "idle")
  /\ desk' = [desk EXCEPT ![d] = [stage |-> stage, on |-> on, badge |-> badge,
                                  profile |-> profile, verdict |-> verdict]]
  /\ disordered' = (disordered \/ Crosses(d, stage))

\* A save writes verificationStatus when the copy had another one.
SaveBadge(d, status) == badge' = IF desk[d].badge # status THEN status ELSE badge

OpenSubmission(s) == submission[s] # None /\ submission[s].status \in OpenStatus
SetSubmission(s, status) ==
  submission' = [submission EXCEPT ![s] = [submission[s] EXCEPT !.status = status]]

\* PATCH of the professional's profile: locked while a request is open.
EditProfile(d) ==
  /\ DeskBegins(d, "editing", None, "REJECTED")
  /\ badge \notin OpenStatus
  /\ profile < MaxProfileEdits
  /\ UNCHANGED <<badge, profile, submission, latest>>

SaveProfile(d) ==
  /\ AtDesk(d, "editing")
  /\ profile' = desk[d].profile + 1
  /\ DeskEnds(d)
  /\ UNCHANGED <<badge, submission, latest, disordered>>

\* POST /api/verification/submit
SubmitVerification(d) ==
  /\ DeskBegins(d, "asking", None, "REJECTED")
  /\ badge # "APPROVED"
  /\ UNCHANGED <<badge, profile, submission, latest>>

\* Is one open?  The checks that follow reach outside and take their time.
AskOpen(d) ==
  /\ AtDesk(d, "asking")
  /\ IF \E s \in Submissions : OpenSubmission(s) THEN DeskEnds(d) ELSE DeskMoves(d, "screening")
  /\ UNCHANGED <<badge, profile, submission, latest, disordered>>

CreateRequest(d, s) ==
  /\ AtDesk(d, "screening")
  /\ submission[s] = None
  /\ submission' = [submission EXCEPT ![s] =
       [status |-> "DOCUMENTS_SUBMITTED", profile |-> desk[d].profile]]
  /\ latest' = s
  /\ DeskMoves(d, "submitting")
  /\ UNCHANGED <<badge, profile, disordered>>

\* The profile of the copy is sealed and assigned back: it is written whole.
SaveSubmitted(d) ==
  /\ AtDesk(d, "submitting")
  /\ SaveBadge(d, "DOCUMENTS_SUBMITTED")
  /\ profile' = desk[d].profile
  /\ DeskEnds(d)
  /\ UNCHANGED <<submission, latest, disordered>>

\* GET /api/verification/requests/:id
GetRequest(d, s) ==
  /\ DeskBegins(d, "opening", s, "REJECTED")
  /\ submission[s] # None /\ submission[s].status = "DOCUMENTS_SUBMITTED"
  /\ UNCHANGED <<badge, profile, submission, latest>>

SaveOpened(d) ==
  /\ AtDesk(d, "opening")
  /\ SetSubmission(desk[d].on, "UNDER_REVIEW")
  /\ DeskMoves(d, "showing")
  /\ UNCHANGED <<badge, profile, latest, disordered>>

ShowUnderReview(d) ==
  /\ AtDesk(d, "showing")
  /\ SaveBadge(d, "UNDER_REVIEW")
  /\ DeskEnds(d)
  /\ UNCHANGED <<profile, submission, latest, disordered>>

\* (mutant) A decided request can be decided again.
DecideAgain(d, s, verdict) ==
  /\ DeskBegins(d, "deciding", s, verdict)
  /\ submission[s] # None
  /\ UNCHANGED <<badge, profile, submission, latest>>

\* POST /api/verification/requests/:id/decide
DecideRequest(d, s, verdict) ==
  /\ DeskBegins(d, "deciding", s, verdict)
  /\ OpenSubmission(s)
  /\ UNCHANGED <<badge, profile, submission, latest>>

SaveDecision(d) ==
  /\ AtDesk(d, "deciding")
  /\ SetSubmission(desk[d].on, desk[d].verdict)
  /\ DeskMoves(d, "granting")
  /\ UNCHANGED <<badge, profile, latest, disordered>>

GrantBadge(d) ==
  /\ AtDesk(d, "granting")
  /\ SaveBadge(d, desk[d].verdict)
  /\ DeskEnds(d)
  /\ UNCHANGED <<profile, submission, latest, disordered>>

\* The process may end between the two saves.
DeskDies(d) ==
  /\ desk[d].stage \in {"submitting", "showing", "granting"}
  /\ DeskEnds(d)
  /\ disordered' = TRUE
  /\ UNCHANGED <<badge, profile, submission, latest>>

VerificationNext ==
  \/ \E d \in Desks : EditProfile(d) \/ SaveProfile(d) \/ SubmitVerification(d) \/ AskOpen(d)
       \/ SaveSubmitted(d) \/ SaveOpened(d) \/ ShowUnderReview(d) \/ SaveDecision(d)
       \/ GrantBadge(d) \/ DeskDies(d)
  \/ \E d \in Desks, s \in Submissions : CreateRequest(d, s) \/ GetRequest(d, s)
  \/ \E d \in Desks, s \in Submissions, verdict \in {"APPROVED", "REJECTED"} :
       DecideRequest(d, s, verdict)

VerificationSpec == VerificationInit /\ [][VerificationNext]_verificationVars

-----------------------------------------------------------------------------
(* Properties *)

\* Between handlers the badge says what the last submission's status says, at most one
\* submission is open, and the profile under review is the one that was submitted
\* (professionals.controller.ts:437: "it's frozen while a request is open").  Excepted are
\* the crossings that `disordered` names.
BadgeFollowsRequest ==
  ~disordered /\ (\A d \in Desks : desk[d].stage \in {"idle", "editing", "asking", "screening"}) =>
    /\ latest = None => badge = "PENDING_VERIFICATION"
    /\ latest # None => badge = submission[latest].status
    /\ \A s \in Submissions : OpenSubmission(s) => s = latest /\ profile = submission[s].profile
=============================================================================
