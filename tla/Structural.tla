----------------------------- MODULE Structural -----------------------------
(***************************************************************************)
(* The structural engagement: the owner appoints an engineer, pays the fee *)
(* into escrow, reviews the drawing sets and releases the fee, or either   *)
(* party cancels (controllers/structural.controller.ts,                    *)
(* models/StructuralEngagement.ts), with the disputes that pay out of the  *)
(* same ledger (controllers/disputes.controller.ts) and the gateway.       *)
(*                                                                         *)
(* Every handler loads a copy, checks it and saves it later.  Amounts are  *)
(* in halves of the fee.  One project, whose status is left to             *)
(* DesignContract; the notes on a drawing set are left out.                *)
(***************************************************************************)
EXTENDS Integers, SequencesExt, Nothing

CONSTANTS
  Engagements,   \* the appointments that can follow each other
  StRequests,    \* the requests that can be under way together
  StDisputes,    \* the disputes on them
  MaxSets        \* bound: drawing sets of one engagement

Fee == 2
Commission == 1
MaxRounds == 1       \* maxRevisions, a field of the engagement

StructuralStatus == {"AWAITING_ESCROW", "DRAWINGS_IN_PROGRESS", "COMPLETED", "CANCELLED"}
LiveStructural == {"AWAITING_ESCROW", "DRAWINGS_IN_PROGRESS"}
SetStatuses == {"PENDING_REVIEW", "CHANGES_REQUESTED", "APPROVED"}

EngagementDoc == [status : StructuralStatus, sets : Seq(SetStatuses), used : Nat,
                  deposited : Nat, refunded : Nat, released : Nat, kept : Nat]

ASSUME StructuralAssumption ==
  /\ MaxSets \in Nat
  /\ None \notin Engagements \cup StDisputes
  /\ None \notin EngagementDoc
  /\ None \notin [on : Engagements, live : BOOLEAN]

VARIABLES
  engagement,    \* StructuralEngagement documents
  engineer,      \* Project.engineer, as the engagement it came from
  errand,        \* each request: how far, on what, and of the copy it loaded the set
                 \* under review, the rounds used, whether its version is behind, the
                 \* amount to pay out
  ruling,        \* Dispute documents: what they are about, and whether they are live
  \* --- history, read by no action
  crossed        \* engagements on which two payments were under way at once, a dispute
                 \* paid, or a set still pending at the close was approved

structuralVars == <<engagement, engineer, errand, ruling, crossed>>

StructuralTypeOK ==
  /\ engagement \in [Engagements -> EngagementDoc \cup {None}]
  /\ engineer \in Engagements \cup {None}
  /\ errand \in [StRequests ->
       [stage : {"idle", "attaching", "depositing", "submitting", "refusing", "asking", "releasing",
                 "cancelling", "detaching", "weighing", "paying", "closing"},
        on : Engagements \cup {None}, set : Nat, used : Nat, stale : BOOLEAN, amount : Nat,
        dispute : StDisputes \cup {None}]]
  /\ ruling \in [StDisputes -> [on : Engagements, live : BOOLEAN] \cup {None}]
  /\ crossed \subseteq Engagements

NoErrand == [stage |-> "idle", on |-> None, set |-> 0, used |-> 0, stale |-> FALSE,
             amount |-> 0, dispute |-> None]

StructuralInit ==
  /\ engagement = [e \in Engagements |-> None]
  /\ engineer = None
  /\ errand = [r \in StRequests |-> NoErrand]
  /\ ruling = [d \in StDisputes |-> None]
  /\ crossed = {}

-----------------------------------------------------------------------------
(* Requests *)

PendingSet(doc) == \E i \in DOMAIN doc.sets : doc.sets[i] = "PENDING_REVIEW"
FirstPending(doc) == SelectInSeq(doc.sets, LAMBDA set : set = "PENDING_REVIEW")

Sends(r, e, next) ==
  /\ errand[r].stage = "idle" /\ engagement[e] # None
  /\ errand' = [errand EXCEPT ![r] = next]

Loaded(e, stage) == [NoErrand EXCEPT !.stage = stage, !.on = e]
Reviewing(e, stage) ==
  [Loaded(e, stage) EXCEPT !.set = FirstPending(engagement[e]), !.used = engagement[e].used]

Goes(r, stage) ==
  errand' = [errand EXCEPT ![r] = [errand[r] EXCEPT !.stage = stage, !.amount = 0]]
Ends(r) == errand' = [errand EXCEPT ![r] = NoErrand]

MoneyStages == {"depositing", "asking", "releasing", "cancelling", "weighing", "paying"}

\* Another payment is under way on the engagement.
MarkCrossing(r, e) ==
  crossed' = IF \E q \in StRequests \ {r} : errand[q].on = e /\ errand[q].stage \in MoneyStages
             THEN crossed \cup {e} ELSE crossed

\* A save writes the paths that were set.  A $push moves the version, so the copies of
\* the other requests fall behind.
Save(e, doc) == engagement' = [engagement EXCEPT ![e] = doc]
Pushes(r, next) ==
  errand' = [q \in StRequests |->
    IF q = r THEN next
    ELSE IF errand[q].on = errand[r].on /\ errand[q].stage = "refusing"
      THEN [errand[q] EXCEPT !.stale = TRUE] ELSE errand[q]]

\* POST /api/structural: the unique index lets one live engagement in per project.
Appoint(r, e) ==
  /\ errand[r].stage = "idle" /\ engagement[e] = None
  /\ \A f \in Engagements : engagement[f] # None => engagement[f].status \notin LiveStructural
  /\ engagement' = [engagement EXCEPT ![e] =
       [status |-> "AWAITING_ESCROW", sets |-> <<>>, used |-> 0,
        deposited |-> 0, refunded |-> 0, released |-> 0, kept |-> 0]]
  /\ errand' = [errand EXCEPT ![r] = [NoErrand EXCEPT !.stage = "attaching", !.on = e]]
  /\ UNCHANGED <<engineer, ruling, crossed>>

AttachEngineer(r) ==
  /\ errand[r].stage = "attaching"
  /\ engineer' = errand[r].on
  /\ Ends(r)
  /\ UNCHANGED <<engagement, ruling, crossed>>

\* POST /:id/escrow
FundFee(r, e) ==
  /\ Sends(r, e, Loaded(e, "depositing"))
  /\ engagement[e].status = "AWAITING_ESCROW"
  /\ MarkCrossing(r, e)
  /\ UNCHANGED <<engagement, engineer, ruling>>

Deposited(doc) == [doc EXCEPT !.status = "DRAWINGS_IN_PROGRESS", !.deposited = @ + Fee]

SaveFee(r) ==
  LET e == errand[r].on IN
  /\ errand[r].stage = "depositing"
  /\ Save(e, Deposited(engagement[e]))
  /\ Pushes(r, NoErrand)
  /\ UNCHANGED <<engineer, ruling, crossed>>

\* POST /:id/submissions
SubmitDrawings(r, e) ==
  /\ Sends(r, e, Loaded(e, "submitting"))
  /\ engagement[e].status = "DRAWINGS_IN_PROGRESS"
  /\ ~PendingSet(engagement[e])
  /\ UNCHANGED <<engagement, engineer, ruling, crossed>>

SaveDrawings(r) ==
  LET e == errand[r].on
      doc == engagement[e] IN
  /\ errand[r].stage = "submitting"
  /\ Len(doc.sets) < MaxSets
  /\ Save(e, [doc EXCEPT !.sets = Append(@, "PENDING_REVIEW")])
  /\ Pushes(r, NoErrand)
  /\ UNCHANGED <<engineer, ruling, crossed>>

\* POST /:id/review: a set waiting in the copy is all that is asked.
RefuseDrawings(r, e) ==
  /\ Sends(r, e, Reviewing(e, "refusing"))
  /\ PendingSet(engagement[e])
  /\ engagement[e].used < MaxRounds
  /\ UNCHANGED <<engagement, engineer, ruling, crossed>>

\* Setting an element of the array asks that the version has not moved.
SaveChanges(r) ==
  LET e == errand[r].on
      doc == engagement[e] IN
  /\ errand[r].stage = "refusing"
  /\ IF ~errand[r].stale
     THEN Save(e, [doc EXCEPT !.sets = [@ EXCEPT ![errand[r].set] = "CHANGES_REQUESTED"],
                              !.used = errand[r].used + 1])
     ELSE UNCHANGED engagement
  /\ Ends(r)
  /\ UNCHANGED <<engineer, ruling, crossed>>

\* (mutant) The set to approve is not looked for.
ApproveAnything(r, e) ==
  /\ Sends(r, e, Reviewing(e, "asking"))
  /\ engagement[e].sets # <<>>
  /\ MarkCrossing(r, e)
  /\ UNCHANGED <<engagement, engineer, ruling>>

ApproveDrawings(r, e) ==
  /\ Sends(r, e, Reviewing(e, "asking"))
  /\ PendingSet(engagement[e])
  /\ crossed' = IF \/ engagement[e].status \notin LiveStructural
                   \/ \E q \in StRequests \ {r} :
                        errand[q].on = e /\ errand[q].stage \in MoneyStages
                THEN crossed \cup {e} ELSE crossed
  /\ UNCHANGED <<engagement, engineer, ruling>>

\* hasLiveDispute
AskFrozen(r) ==
  /\ errand[r].stage = "asking"
  /\ IF \E d \in StDisputes : ruling[d] # None /\ ruling[d].on = errand[r].on /\ ruling[d].live
     THEN Ends(r)
     ELSE Goes(r, "releasing")
  /\ UNCHANGED <<engagement, engineer, ruling, crossed>>

SaveApproval(r) ==
  LET e == errand[r].on
      doc == engagement[e] IN
  /\ errand[r].stage = "releasing"
  /\ Save(e, [doc EXCEPT !.sets = [@ EXCEPT ![errand[r].set] = "APPROVED"], !.status = "COMPLETED",
                         !.kept = Commission, !.released = @ + (Fee - Commission)])
  /\ Pushes(r, NoErrand)
  /\ UNCHANGED <<engineer, ruling, crossed>>

\* POST /:id/cancel
CancelEngagement(r, e) ==
  /\ Sends(r, e, [Loaded(e, "cancelling") EXCEPT !.amount = engagement[e].deposited])
  /\ engagement[e].status \in LiveStructural
  /\ MarkCrossing(r, e)
  /\ UNCHANGED <<engagement, engineer, ruling>>

\* All the deposits of the copy go back; no path that asks for the version.
SaveCancellation(r) ==
  LET e == errand[r].on
      doc == engagement[e] IN
  /\ errand[r].stage = "cancelling"
  /\ Save(e, [doc EXCEPT !.status = "CANCELLED", !.refunded = @ + errand[r].amount])
  /\ LET next == Loaded(e, "detaching") IN
     IF errand[r].amount > 0 THEN Pushes(r, next)
     ELSE errand' = [errand EXCEPT ![r] = next]
  /\ UNCHANGED <<engineer, ruling, crossed>>

\* $unset, whoever is attached by then.
DetachEngineer(r) ==
  /\ errand[r].stage = "detaching"
  /\ engineer' = None
  /\ Ends(r)
  /\ UNCHANGED <<engagement, ruling, crossed>>

-----------------------------------------------------------------------------
(* Disputes on the engagement *)

RaiseRuling(d, e) ==
  /\ ruling[d] = None /\ engagement[e] # None
  /\ \A c \in StDisputes : ruling[c] # None => ~(ruling[c].on = e /\ ruling[c].live)
  /\ ruling' = [ruling EXCEPT ![d] = [on |-> e, live |-> TRUE]]
  /\ UNCHANGED <<engagement, engineer, errand, crossed>>

WithdrawRuling(d) ==
  /\ ruling[d] # None /\ ruling[d].live
  /\ ruling' = [ruling EXCEPT ![d] = [ruling[d] EXCEPT !.live = FALSE]]
  /\ UNCHANGED <<engagement, engineer, errand, crossed>>

\* The supervisor decides: the dispute is loaded, then what is held.
ResolveRuling(r, d) ==
  /\ errand[r].stage = "idle"
  /\ ruling[d] # None /\ ruling[d].live
  /\ errand' = [errand EXCEPT ![r] =
       [NoErrand EXCEPT !.stage = "weighing", !.on = ruling[d].on, !.dispute = d]]
  /\ MarkCrossing(r, ruling[d].on)
  /\ UNCHANGED <<engagement, engineer, ruling>>

HeldIn(doc) == IF doc.deposited > doc.refunded + doc.released
               THEN doc.deposited - (doc.refunded + doc.released) ELSE 0

WeighHeld(r) ==
  /\ errand[r].stage = "weighing"
  /\ errand' = [errand EXCEPT ![r] = [errand[r] EXCEPT !.stage = "paying",
                                        !.amount = HeldIn(engagement[errand[r].on])]]
  /\ UNCHANGED <<engagement, engineer, ruling, crossed>>

\* REFUND_TO_CLIENT, RELEASE_TO_PROFESSIONAL, SPLIT, or no money at all.
PayRuling(r) ==
  LET e == errand[r].on
      held == errand[r].amount IN
  /\ errand[r].stage = "paying"
  /\ \E refund \in 0..held : \E release \in {0, held - refund} :
       /\ release = 0 => refund \in {0, held}
       /\ Save(e, [engagement[e] EXCEPT !.refunded = @ + refund, !.released = @ + release])
       /\ crossed' = IF refund + release > 0 THEN crossed \cup {e} ELSE crossed
  /\ Goes(r, "closing")
  /\ UNCHANGED <<engineer, ruling>>

CloseRuling(r) ==
  /\ errand[r].stage = "closing"
  /\ ruling' = [ruling EXCEPT ![errand[r].dispute] = [ruling[errand[r].dispute] EXCEPT !.live = FALSE]]
  /\ Ends(r)
  /\ UNCHANGED <<engagement, engineer, crossed>>

StructuralNext ==
  \/ \E r \in StRequests : AttachEngineer(r) \/ SaveFee(r) \/ SaveDrawings(r) \/ SaveChanges(r)
       \/ AskFrozen(r) \/ SaveApproval(r) \/ SaveCancellation(r) \/ DetachEngineer(r)
       \/ WeighHeld(r) \/ PayRuling(r) \/ CloseRuling(r)
  \/ \E r \in StRequests, e \in Engagements : Appoint(r, e) \/ FundFee(r, e) \/ SubmitDrawings(r, e)
       \/ RefuseDrawings(r, e) \/ ApproveDrawings(r, e) \/ CancelEngagement(r, e)
  \/ \E d \in StDisputes, e \in Engagements : RaiseRuling(d, e)
  \/ \E d \in StDisputes : WithdrawRuling(d)
  \/ \E r \in StRequests, d \in StDisputes : ResolveRuling(r, d)

StructuralSpec == StructuralInit /\ [][StructuralNext]_structuralVars

-----------------------------------------------------------------------------
(* Properties *)

\* What a status says of the ledger is true of it: a running engagement holds the whole
\* fee, a completed one has paid it to engineer and platform, a cancelled one has sent
\* it all back.  Excepted are engagements on which two payments crossed, a dispute
\* paid, or a set left pending at the close was approved.
LedgerFollowsStatus ==
  \A e \in Engagements \ crossed : engagement[e] # None =>
    LET doc == engagement[e] IN
    /\ doc.status = "AWAITING_ESCROW" => doc.deposited = 0
    /\ doc.status \in LiveStructural => doc.refunded + doc.released + doc.kept = 0
    /\ doc.status = "DRAWINGS_IN_PROGRESS" => doc.deposited = Fee
    /\ doc.status = "COMPLETED" => /\ doc.released + doc.kept = doc.deposited
                                   /\ doc.refunded = 0
    /\ doc.status = "CANCELLED" => doc.refunded = doc.deposited /\ doc.released = 0

=============================================================================
