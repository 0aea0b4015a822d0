------------------------------ MODULE Tendering ------------------------------
(***************************************************************************)
(* Sealed bidding for one project: its tenders (one live at a time, by a   *)
(* unique index), the contractors' bids and the award, which signs the     *)
(* build contract.  tenders.controller.ts and bids.controller.ts.          *)
(*                                                                         *)
(* A handler loads its documents, checks the copies and saves; a save      *)
(* writes the fields that differ from the copy whatever they have become.  *)
(* Nothing closes a tender when its deadline passes: whoever next loads it *)
(* saves it CLOSED first (settleDeadline).  The clock is a choice: an OPEN *)
(* tender may be found within its deadline or past it.                     *)
(***************************************************************************)
EXTENDS Naturals, FiniteSets

CONSTANTS
  Tenders,      \* the tenders the owner may draft
  Bidders,      \* the contractors
  Requests,     \* the request handlers that can be in flight together
  Role,         \* who may send each of them: the owner, a contractor, a visitor
  None,         \* nothing
  MaxEdits,     \* bound: edits of one bill of quantities
  Budget        \* bound: tenders, bids, edits and deaths, all together

TenderStatus == {"DRAFT", "OPEN", "CLOSED", "AWARDED", "CANCELLED"}
BidStatus == {"SUBMITTED", "SHORTLISTED", "AWARDED", "REJECTED", "WITHDRAWN"}

Tender   == [status : TenderStatus, boq : Nat, awarded : Bidders \cup {None}]
Bid      == [status : BidStatus, boq : Nat]
Contract == [tender : Tenders, bidder : Bidders]

ASSUME TenderingAssumption ==
  /\ Role \in [Requests -> SUBSET (Bidders \cup {"owner", "visitor"})]
  /\ {"owner", "visitor"} \cap Bidders = {}
  /\ None \notin Tenders \cup Bidders \cup TenderStatus \cup BidStatus
  /\ None \notin Tender /\ None \notin Bid /\ None \notin Contract
  /\ MaxEdits \in Nat /\ Budget \in Nat

VARIABLES
  tender,       \* Tender.status, a version of its items, and awardedBid's contractor
  bid,          \* Bid.status and the version of the items it prices, or None
  contract,     \* the tender and the contractor of the project's build contract
  schedule,     \* whether the contract's milestones exist
  project,      \* Project.status and contractor
  \* --- the requests in flight
  at,           \* the await each request has not come back from
  on,           \* the tender it works on
  whose,        \* the contractor whose bid it works on
  seen,         \* the tender it loaded, as long as it reads it
  held,         \* the status of the bid it loaded, as long as it reads it
  \* --- history, read by no action
  opened,       \* tenders whose bids the owner has read
  raced,        \* tenders published or cancelled while another request held the draft
  disturbed,    \* bids saved by their contractor or the owner after the contract
  interrupted   \* tenders on which a request died

awardVars   == <<contract, schedule, project>>
requestVars == <<at, on, whose, seen, held>>
vars == <<tender, bid, awardVars, requestVars, opened, raced, disturbed, interrupted>>

Places == {"idle", "settling", "settlingCancel", "settlingList", "editing", "publishing",
           "bidding", "closing", "cancelling", "reverting", "reading", "submitting",
           "withdrawing", "shortlisting", "signing", "scheduling", "awarding", "winning",
           "rejecting", "assigning"}

TypeOK ==
  /\ tender \in [Tenders -> Tender \cup {None}]
  /\ bid \in [Tenders \X Bidders -> Bid \cup {None}]
  /\ contract \in Contract \cup {None}
  /\ schedule \in BOOLEAN
  /\ project \in [status : {"PERMIT_STAGE", "BIDDING", "UNDER_CONSTRUCTION"},
                  contractor : Bidders \cup {None}]
  /\ at \in [Requests -> Places]
  /\ on \in [Requests -> Tenders \cup {None}]
  /\ whose \in [Requests -> Bidders \cup {None}]
  /\ seen \in [Requests -> Tender \cup {None}]
  /\ held \in [Requests -> BidStatus \cup {None}]
  /\ opened \subseteq Tenders /\ raced \subseteq Tenders /\ interrupted \subseteq Tenders
  /\ disturbed \subseteq Tenders \X Bidders

\* A project whose permits are granted, never tendered.
Init ==
  /\ tender = [t \in Tenders |-> None]
  /\ bid = [tb \in Tenders \X Bidders |-> None]
  /\ contract = None /\ schedule = FALSE
  /\ project = [status |-> "PERMIT_STAGE", contractor |-> None]
  /\ at = [r \in Requests |-> "idle"]
  /\ on = [r \in Requests |-> None]
  /\ whose = [r \in Requests |-> None]
  /\ seen = [r \in Requests |-> None]
  /\ held = [r \in Requests |-> None]
  /\ opened = {} /\ raced = {} /\ disturbed = {} /\ interrupted = {}

-----------------------------------------------------------------------------
(* Requests, loads and saves *)

Exists(t) == tender[t] # None

\* What the bound leaves room for.
Affordable ==
  Cardinality({t \in Tenders : Exists(t)}) + Cardinality({tb \in DOMAIN bid : bid[tb] # None})
    + Cardinality({t \in Tenders : Exists(t) /\ tender[t].boq > 1}) + Cardinality(interrupted)
  < Budget

LIVE_TENDER_STATUSES == {"DRAFT", "OPEN", "CLOSED"}

IsLive(t) == Exists(t) /\ tender[t].status \in LIVE_TENDER_STATUSES

\* The unique partial index on the project: no second live tender.
Clash(t, st) == st \in LIVE_TENDER_STATUSES /\ \E u \in Tenders \ {t} : IsLive(u)

\* findTenderOr404, as far as settleDeadline's save.
Find(r, t, place, copy, b) ==
  /\ at[r] = "idle" /\ Exists(t)
  /\ at' = [at EXCEPT ![r] = place]
  /\ on' = [on EXCEPT ![r] = t]
  /\ whose' = [whose EXCEPT ![r] = b]
  /\ seen' = [seen EXCEPT ![r] = copy]
  /\ UNCHANGED <<tender, bid, awardVars, held, opened, raced, disturbed, interrupted>>

\* The loaded tender has this status, and is not overdue.
FindIn(r, t, st, place) ==
  /\ Exists(t) /\ tender[t].status = st
  /\ Find(r, t, place, tender[t], None)

\* An overdue tender is saved CLOSED before the handler goes on.
FindOverdue(r, t, place) ==
  /\ Exists(t) /\ tender[t].status = "OPEN"
  /\ Find(r, t, place, [tender[t] EXCEPT !.status = "CLOSED"], None)

Goto(r, place) ==
  /\ at' = [at EXCEPT ![r] = place]
  /\ seen' = [seen EXCEPT ![r] = None]
  /\ held' = [held EXCEPT ![r] = None]
  /\ UNCHANGED <<on, whose>>

Finish(r) ==
  /\ at' = [at EXCEPT ![r] = "idle"]
  /\ on' = [on EXCEPT ![r] = None]
  /\ whose' = [whose EXCEPT ![r] = None]
  /\ seen' = [seen EXCEPT ![r] = None]
  /\ held' = [held EXCEPT ![r] = None]

\* Another request may yet edit or publish the tender from its copy of the draft.
MeetsOnDraft(r) ==
  \E q \in Requests \ {r} : at[q] \in {"editing", "publishing"} /\ on[q] = on[r]

\* tender.save() with a new status; it throws when the index refuses it.
SaveTenderStatus(r, st, next) ==
  IF Clash(on[r], st)
    THEN Finish(r) /\ UNCHANGED <<tender, raced>>
    ELSE /\ tender' = [tender EXCEPT ![on[r]].status = st]
         /\ raced' = IF MeetsOnDraft(r) THEN raced \cup {on[r]} ELSE raced
         /\ IF next = "idle" THEN Finish(r)
              ELSE at' = [at EXCEPT ![r] = next] /\ UNCHANGED <<on, whose, seen, held>>

Keep(unchanged) == UNCHANGED <<unchanged, opened, raced, disturbed, interrupted>>

\* A step that saves the tender's status.
KeepBeside == UNCHANGED <<bid, awardVars, opened, disturbed, interrupted>>

-----------------------------------------------------------------------------
(* The deadline *)

\* listOpenTenders: one updateMany, without a copy, and at most one tender is OPEN.
SweepOverdue(t) ==
  /\ Exists(t) /\ tender[t].status = "OPEN"
  /\ tender' = [tender EXCEPT ![t].status = "CLOSED"]
  /\ UNCHANGED requestVars
  /\ Keep(<<bid, awardVars>>)

\* Any handler that loads an overdue tender and then answers, whoever calls it.
VisitOverdue(r, t) == "visitor" \in Role[r] /\ FindOverdue(r, t, "settling")

settleDeadline(r) ==
  /\ \/ at[r] = "settling" /\ SaveTenderStatus(r, "CLOSED", "idle")
     \/ at[r] = "settlingCancel" /\ SaveTenderStatus(r, "CLOSED", "cancelling")
     \/ at[r] = "settlingList" /\ SaveTenderStatus(r, "CLOSED", "reading")
  /\ KeepBeside

-----------------------------------------------------------------------------
(* The owner's tenders *)

createTender(r, t) ==
  /\ "owner" \in Role[r] /\ at[r] = "idle"
  /\ ~Exists(t) /\ ~Clash(t, "DRAFT") /\ Affordable
  /\ tender' = [tender EXCEPT ![t] = [status |-> "DRAFT", boq |-> 1, awarded |-> None]]
  /\ UNCHANGED <<bid, awardVars, requestVars, opened, raced, disturbed, interrupted>>

\* (mutant) A published tender can be edited.
updatePublished(r, t) ==
  /\ "owner" \in Role[r]
  /\ FindIn(r, t, "DRAFT", "editing") \/ FindIn(r, t, "OPEN", "editing")
  /\ tender[t].boq <= MaxEdits /\ Affordable

updateTender(r, t) ==
  /\ "owner" \in Role[r]
  /\ FindIn(r, t, "DRAFT", "editing")
  /\ tender[t].boq <= MaxEdits /\ Affordable

\* Every line gets a new id, so a bid on the old lines prices none of these.  The
\* save replaces an array, so it fails if another edit has replaced it meanwhile.
SaveTender(r) ==
  /\ at[r] = "editing"
  /\ tender' = IF tender[on[r]].boq = seen[r].boq
                 THEN [tender EXCEPT ![on[r]].boq = tender[on[r]].boq + 1]
                 ELSE tender
  /\ Finish(r)
  /\ UNCHANGED <<bid, awardVars, opened, raced, disturbed, interrupted>>

\* (mutant) A closed tender can be published again.
publishClosed(r, t) ==
  /\ "owner" \in Role[r]
  /\ FindIn(r, t, "DRAFT", "publishing") \/ FindIn(r, t, "CLOSED", "publishing")

publishTender(r, t) ==
  /\ "owner" \in Role[r]
  /\ FindIn(r, t, "DRAFT", "publishing")

SavePublished(r) ==
  /\ at[r] = "publishing"
  /\ SaveTenderStatus(r, "OPEN", "bidding")
  /\ KeepBeside

MoveToBidding(r) ==
  /\ at[r] = "bidding"
  /\ project' = [project EXCEPT !.status = "BIDDING"]
  /\ Finish(r)
  /\ Keep(<<tender, bid, contract, schedule>>)

closeTender(r, t) ==
  /\ "owner" \in Role[r]
  /\ FindIn(r, t, "OPEN", "closing")

SaveClosed(r) ==
  /\ at[r] = "closing"
  /\ SaveTenderStatus(r, "CLOSED", "idle")
  /\ KeepBeside

\* Any tender but an awarded one, a cancelled one included.
cancelTender(r, t) ==
  /\ "owner" \in Role[r]
  /\ \/ \E st \in TenderStatus \ {"AWARDED"} : FindIn(r, t, st, "cancelling")
     \/ FindOverdue(r, t, "settlingCancel")

SaveCancelled(r) ==
  /\ at[r] = "cancelling"
  /\ IF seen[r].status = "CANCELLED"
       THEN Goto(r, "reverting") /\ UNCHANGED <<tender, raced>>
       ELSE SaveTenderStatus(r, "CANCELLED", "reverting")
  /\ KeepBeside

MoveToPermitStage(r) ==
  /\ at[r] = "reverting"
  /\ project' = [project EXCEPT !.status = "PERMIT_STAGE"]
  /\ Finish(r)
  /\ Keep(<<tender, bid, contract, schedule>>)

-----------------------------------------------------------------------------
(* Bids *)

\* assertReadable
Readable(st) == st \notin {"OPEN", "DRAFT"}

listTenderBids(r, t) ==
  /\ "owner" \in Role[r]
  /\ \/ \E st \in TenderStatus : Readable(st) /\ FindIn(r, t, st, "reading")
     \/ FindOverdue(r, t, "settlingList")

ReadBids(r) ==
  /\ at[r] = "reading"
  /\ opened' = opened \cup {on[r]}
  /\ Finish(r)
  /\ UNCHANGED <<tender, bid, awardVars, raced, disturbed, interrupted>>

\* The bid of request r is saved, before the contract of its tender is signed or after.
SaveBid(r, new) ==
  /\ bid' = [bid EXCEPT ![<<on[r], whose[r]>>] = new]
  /\ disturbed' = IF contract # None /\ contract.tender = on[r]
                    THEN disturbed \cup {<<on[r], whose[r]>>} ELSE disturbed
  /\ Finish(r)
  /\ UNCHANGED <<tender, awardVars, opened, raced, interrupted>>

submitBid(r, t, b) ==
  /\ b \in Role[r]
  /\ bid[<<t, b>>] # None \/ Affordable
  /\ Exists(t) /\ tender[t].status = "OPEN"
  /\ Find(r, t, "submitting", tender[t], b)

\* An upsert keyed by the tender and the contractor, whatever the bid's status.
UpsertBid(r) ==
  /\ at[r] = "submitting"
  /\ SaveBid(r, [status |-> "SUBMITTED", boq |-> seen[r].boq])

\* findBidOr404 and the tender's load, one step here: the bid is loaded first, but
\* what changes between the two is saved as well between the second and the save.
\* The tender is loaded without settleDeadline.
FindBid(r, t, b, allowed, place) ==
  /\ at[r] = "idle" /\ bid[<<t, b>>] # None
  /\ tender[t].status \in allowed
  /\ at' = [at EXCEPT ![r] = place]
  /\ on' = [on EXCEPT ![r] = t]
  /\ whose' = [whose EXCEPT ![r] = b]
  /\ held' = [held EXCEPT ![r] = bid[<<t, b>>].status]
  /\ UNCHANGED <<tender, bid, awardVars, seen, opened, raced, disturbed, interrupted>>

withdrawBid(r, t, b) == b \in Role[r] /\ FindBid(r, t, b, {"OPEN"}, "withdrawing")

\* A save that changes nothing writes nothing.
SaveWithdrawn(r) ==
  /\ at[r] = "withdrawing"
  /\ IF held[r] = "WITHDRAWN"
       THEN Finish(r) /\ Keep(<<tender, bid, awardVars>>)
       ELSE SaveBid(r, [bid[<<on[r], whose[r]>>] EXCEPT !.status = "WITHDRAWN"])

shortlistBid(r, t, b) ==
  /\ "owner" \in Role[r]
  /\ FindBid(r, t, b, {st \in TenderStatus : Readable(st)}, "shortlisting")

\* A toggle, whatever the bid's status was.
SaveShortlisted(r) ==
  LET st == IF held[r] = "SHORTLISTED" THEN "SUBMITTED" ELSE "SHORTLISTED" IN
  /\ at[r] = "shortlisting"
  /\ SaveBid(r, [bid[<<on[r], whose[r]>>] EXCEPT !.status = st])

-----------------------------------------------------------------------------
(* POST /api/bids/:id/award *)

awardBid(r, t, b) ==
  /\ "owner" \in Role[r]
  /\ FindBid(r, t, b, {st \in TenderStatus : Readable(st)} \ {"AWARDED"}, "signing")
  /\ bid[<<t, b>>].status # "WITHDRAWN"

\* (mutant) A duplicate-key error is ignored.
SignRegardless(r) ==
  /\ at[r] = "signing"
  /\ contract' = IF contract = None THEN [tender |-> on[r], bidder |-> whose[r]] ELSE contract
  /\ Goto(r, "scheduling")
  /\ Keep(<<tender, bid, schedule, project>>)

\* BuildContract.create: the unique index allows the project one.
SignContract(r) ==
  /\ at[r] = "signing"
  /\ IF contract = None
       THEN contract' = [tender |-> on[r], bidder |-> whose[r]] /\ Goto(r, "scheduling")
       ELSE UNCHANGED contract /\ Finish(r)
  /\ Keep(<<tender, bid, schedule, project>>)

\* Milestone.insertMany
InsertSchedule(r) ==
  /\ at[r] = "scheduling"
  /\ schedule' = TRUE
  /\ Goto(r, "awarding")
  /\ Keep(<<tender, bid, contract, project>>)

SaveAwarded(r) ==
  /\ at[r] = "awarding"
  /\ tender' = [tender EXCEPT ![on[r]] =
                  [tender[on[r]] EXCEPT !.status = "AWARDED", !.awarded = whose[r]]]
  /\ Goto(r, "winning")
  /\ Keep(<<bid, awardVars>>)

SaveWinner(r) ==
  /\ at[r] = "winning"
  /\ bid' = [bid EXCEPT ![<<on[r], whose[r]>>].status = "AWARDED"]
  /\ Goto(r, "rejecting")
  /\ Keep(<<tender, awardVars>>)

\* (mutant) updateMany runs no validators: a status outside the enum goes through.
RejectAsLost(r) ==
  /\ at[r] = "rejecting"
  /\ bid' = [tb \in Tenders \X Bidders |->
       IF tb[1] = on[r] /\ tb[2] # whose[r] /\ bid[tb] # None
         THEN [bid[tb] EXCEPT !.status = "LOST"] ELSE bid[tb]]
  /\ Goto(r, "assigning")
  /\ Keep(<<tender, awardVars>>)

\* Bid.updateMany
RejectOthers(r) ==
  /\ at[r] = "rejecting"
  /\ bid' = [tb \in Tenders \X Bidders |->
       IF tb[1] = on[r] /\ tb[2] # whose[r] /\ bid[tb] # None /\ bid[tb].status # "WITHDRAWN"
         THEN [bid[tb] EXCEPT !.status = "REJECTED"] ELSE bid[tb]]
  /\ Goto(r, "assigning")
  /\ Keep(<<tender, awardVars>>)

\* (mutant) The winner is not attached to the project.
StartConstruction(r) ==
  /\ at[r] = "assigning"
  /\ project' = [project EXCEPT !.status = "UNDER_CONSTRUCTION"]
  /\ Finish(r)
  /\ Keep(<<tender, bid, contract, schedule>>)

AssignContractor(r) ==
  /\ at[r] = "assigning"
  /\ project' = [status |-> "UNDER_CONSTRUCTION", contractor |-> whose[r]]
  /\ Finish(r)
  /\ Keep(<<tender, bid, contract, schedule>>)

-----------------------------------------------------------------------------
\* A request dies between two of its steps.
Die(r) ==
  /\ at[r] # "idle"
  /\ on[r] \notin interrupted /\ Affordable
  /\ interrupted' = interrupted \cup {on[r]}
  /\ Finish(r)
  /\ UNCHANGED <<tender, bid, awardVars, opened, raced, disturbed>>

Start(r) ==
  \/ \E t \in Tenders :
       \/ VisitOverdue(r, t) \/ createTender(r, t) \/ updateTender(r, t)
       \/ publishTender(r, t) \/ closeTender(r, t) \/ cancelTender(r, t)
       \/ listTenderBids(r, t)
  \/ \E t \in Tenders, b \in Bidders :
       submitBid(r, t, b) \/ withdrawBid(r, t, b) \/ shortlistBid(r, t, b) \/ awardBid(r, t, b)

\* What a request under way does next.
Continue(r) ==
  \/ settleDeadline(r) \/ SaveTender(r) \/ SavePublished(r) \/ MoveToBidding(r)
  \/ SaveClosed(r) \/ SaveCancelled(r) \/ MoveToPermitStage(r) \/ ReadBids(r)
  \/ UpsertBid(r)
  \/ SaveWithdrawn(r) \/ SaveShortlisted(r)
  \/ SignContract(r) \/ InsertSchedule(r) \/ SaveAwarded(r)
  \/ SaveWinner(r) \/ RejectOthers(r) \/ AssignContractor(r)

Next ==
  \/ \E r \in Requests : Start(r) \/ Continue(r) \/ Die(r)
  \/ \E t \in Tenders : SweepOverdue(t)

Spec == Init /\ [][Next]_vars

-----------------------------------------------------------------------------
(* Properties *)

Quiet == \A r \in Requests : at[r] = "idle"

\* "While a tender is OPEN, nobody may read a bid they did not write"
\* (bids.controller.ts), and once the owner has read the bids the tender does not
\* open again, whatever deadlines, sweeps and stale saves close it, unless it was
\* published or cancelled while another request held the draft.
SealedWhileOpen == \A t \in opened \ raced : tender[t].status # "OPEN"

\* Every bid prices the bill of quantities the tender has now: none is edited
\* under a contractor who is pricing it, with the same exception.
BidsPriceTheTender ==
  \A t \in Tenders \ raced, b \in Bidders : bid[<<t, b>>] # None => bid[<<t, b>>].boq = tender[t].boq

\* A tender is AWARDED only to the bidder the build contract was signed with for
\* it: of two tenders of the project, a cancelled one included, one is awarded.
AwardedIsSigned ==
  \A t \in Tenders : Exists(t) /\ tender[t].status = "AWARDED" =>
    contract = [tender |-> t, bidder |-> tender[t].awarded]

\* Once an award nobody interrupted is answered, every bid on the tender has been
\* told where it stands, unless it was saved again after the contract was signed.
NobodyGhosted ==
  contract # None /\ Quiet /\ contract.tender \notin interrupted =>
    \A b \in Bidders :
      bid[<<contract.tender, b>>] # None /\ <<contract.tender, b>> \notin disturbed =>
        bid[<<contract.tender, b>>].status \in
          IF b = contract.bidder THEN {"AWARDED"} ELSE {"REJECTED", "WITHDRAWN"}

\* Once an award nobody interrupted is answered, the contract has its schedule and
\* the winner is on the project, whatever the other requests have saved.
AwardCompletes ==
  contract # None /\ Quiet /\ contract.tender \notin interrupted =>
    /\ schedule
    /\ project.contractor = contract.bidder
    /\ tender[contract.tender].awarded = contract.bidder

\* An award that was answered left nothing undone (awardBid): nobody is ghosted, and
\* the build has its contract, its schedule and its contractor.
AwardAnswered == NobodyGhosted /\ AwardCompletes
=============================================================================
