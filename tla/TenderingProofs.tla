--------------------------- MODULE TenderingProofs --------------------------
(***************************************************************************)
(* Proofs about Tendering, for every set of tenders, contractors and      *)
(* requests: type correctness, that a tender is awarded only as the build  *)
(* contract was signed, that an award nobody interrupted is completed, and *)
(* that bids stay sealed while a tender is open and price it as it is.     *)
(***************************************************************************)
EXTENDS Tendering, TLAPS

-----------------------------------------------------------------------------
(* The inductive invariant *)

\* The places of a request that works on one bid, and those past the signature.
OnBid == {"submitting", "withdrawing", "shortlisting", "signing", "scheduling",
          "awarding", "winning", "rejecting", "assigning"}
Awarding == {"scheduling", "awarding", "winning", "rejecting", "assigning"}

\* The places at which the loaded tender is still needed.
Copying == {"editing", "submitting", "settlingCancel", "cancelling"}

\* A request under way works on a tender that exists, and on a bid that does.
InFlight ==
  \A r \in Requests : at[r] # "idle" =>
    /\ on[r] \in Tenders /\ Exists(on[r])
    /\ at[r] \in Copying => seen[r] # None
    /\ at[r] \in OnBid => whose[r] \in Bidders
    /\ at[r] \in OnBid \ {"submitting"} => bid[<<on[r], whose[r]>>] # None

\* A bid answers a tender.
Answers == \A t \in Tenders, b \in Bidders : bid[<<t, b>>] # None => Exists(t)

\* A request past the signature works on the bid the contract was signed for.
Signed ==
  \A r \in Requests : at[r] \in Awarding =>
    contract = [tender |-> on[r], bidder |-> whose[r]]

\* A tender is awarded to somebody.
Named ==
  \A t \in Tenders : Exists(t) /\ tender[t].status = "AWARDED" => tender[t].awarded \in Bidders

TInv == TypeOK /\ InFlight /\ Answers

IInv == TInv /\ Signed /\ Named /\ AwardedIsSigned

-----------------------------------------------------------------------------
(* What the requests hold *)

Held ==
  /\ at \in [Requests -> Places]
  /\ on \in [Requests -> Tenders \cup {None}]
  /\ whose \in [Requests -> Bidders \cup {None}]
  /\ seen \in [Requests -> Tender \cup {None}]
  /\ held \in [Requests -> BidStatus \cup {None}]
  /\ InFlight

\* No tender and no bid is ever deleted.
Grows ==
  /\ \A t \in Tenders : Exists(t) => tender'[t] # None
  /\ \A t \in Tenders, b \in Bidders : bid[<<t, b>>] # None => bid'[<<t, b>>] # None

\* What closing a tender and editing one leave of its record.
LEMMA ClosedTender ==
  \A copy \in Tender : [copy EXCEPT !.status = "CLOSED"] \in Tender
BY DEF Tender, TenderStatus

LEMMA EditedTender ==
  \A copy \in Tender : [copy EXCEPT !.boq = copy.boq + 1] \in Tender
BY DEF Tender

LEMMA FindHeld ==
  ASSUME TInv, NEW r \in Requests, NEW t \in Tenders, NEW place \in Places \ {"idle"},
         NEW copy \in Tender, NEW b \in Bidders \cup {None},
         place \in OnBid => place = "submitting" /\ b \in Bidders,
         Find(r, t, place, copy, b)
  PROVE  Held'
<1> USE TenderingAssumption DEF TInv, TypeOK, Find, awardVars
<1>1. /\ at' \in [Requests -> Places]
      /\ on' \in [Requests -> Tenders \cup {None}]
      /\ whose' \in [Requests -> Bidders \cup {None}]
      /\ seen' \in [Requests -> Tender \cup {None}]
      /\ held' \in [Requests -> BidStatus \cup {None}]
  OBVIOUS
<1>2. InFlight'
  BY <1>1 DEF InFlight, Exists, Copying, OnBid
<1> QED
  BY <1>1, <1>2 DEF Held

LEMMA FindBidHeld ==
  ASSUME TInv, NEW r \in Requests, NEW t \in Tenders, NEW b \in Bidders, NEW allowed,
         NEW place \in {"withdrawing", "shortlisting", "signing"},
         FindBid(r, t, b, allowed, place)
  PROVE  Held'
<1> USE TenderingAssumption DEF TInv, TypeOK, FindBid, awardVars
<1>0. bid[<<t, b>>] \in Bid
  OBVIOUS
<1>1. /\ at' \in [Requests -> Places]
      /\ on' \in [Requests -> Tenders \cup {None}]
      /\ whose' \in [Requests -> Bidders \cup {None}]
      /\ seen' \in [Requests -> Tender \cup {None}]
      /\ held' \in [Requests -> BidStatus \cup {None}]
  BY <1>0 DEF Bid, Places
<1>2. InFlight'
  BY <1>1 DEF InFlight, Exists, Copying, OnBid, Answers
<1> QED
  BY <1>1, <1>2 DEF Held

LEMMA FinishHeld ==
  ASSUME TInv, NEW r \in Requests, Finish(r), Grows
  PROVE  Held'
BY DEF TInv, TypeOK, Held, Finish, Grows, InFlight, Exists, Places, OnBid

LEMMA GotoHeld ==
  ASSUME TInv, NEW r \in Requests, at[r] # "idle", NEW place \in Places, Goto(r, place), Grows,
         place \in OnBid => at[r] \in OnBid \ {"submitting"}, place \notin Copying
  PROVE  Held'
BY DEF TInv, TypeOK, Held, Goto, Grows, InFlight, Exists, OnBid

\* A handler saves the status of its tender, and goes on or ends.
LEMMA SaveStatusHeld ==
  ASSUME TInv, NEW r \in Requests, at[r] # "idle", NEW st \in TenderStatus,
         NEW next \in Places \ OnBid, next \in Copying => at[r] \in Copying,
         SaveTenderStatus(r, st, next), UNCHANGED bid
  PROVE  /\ Held' /\ Grows /\ tender' \in [Tenders -> Tender \cup {None}]
         /\ raced' \subseteq Tenders
<1> USE TenderingAssumption DEF TInv, TypeOK
<1>1. on[r] \in Tenders /\ Exists(on[r]) /\ tender[on[r]] \in Tender
  BY DEF InFlight, Exists
<1>2. [tender[on[r]] EXCEPT !.status = st] \in Tender
  BY <1>1 DEF Tender
<1>r. raced' \subseteq Tenders
  BY <1>1 DEF SaveTenderStatus
<1>3. CASE Clash(on[r], st)
  <2>1. Finish(r) /\ Grows /\ UNCHANGED tender
    BY <1>3 DEF SaveTenderStatus, Grows, Exists
  <2> QED
    BY <2>1, <1>r, FinishHeld
<1>4. CASE ~Clash(on[r], st)
  <2>1. tender' = [tender EXCEPT ![on[r]] = [tender[on[r]] EXCEPT !.status = st]]
    BY <1>1, <1>4 DEF SaveTenderStatus
  <2>2. tender' \in [Tenders -> Tender \cup {None}]
    BY <1>2, <2>1
  <2>3. Grows
    BY <1>1, <1>2, <2>1 DEF Grows, Exists
  <2>4. Held'
    <3>1. CASE next = "idle"
      BY <1>4, <3>1, <2>3, FinishHeld DEF SaveTenderStatus
    <3>2. CASE next # "idle"
      <4>1. at' = [at EXCEPT ![r] = next] /\ UNCHANGED <<on, whose, seen, held>>
        BY <1>4, <3>2 DEF SaveTenderStatus
      <4> QED
        BY <4>1, <2>3 DEF Held, InFlight, Grows, Exists, OnBid
    <3> QED
      BY <3>1, <3>2
  <2> QED
    BY <2>2, <2>3, <2>4, <1>r
<1> QED
  BY <1>3, <1>4

-----------------------------------------------------------------------------
(* Type correctness, action by action *)

dataVars == <<tender, bid, contract, schedule, project, opened, raced, disturbed, interrupted>>

LEMMA UnchangedTInv ==
  ASSUME TInv, Held', UNCHANGED dataVars
  PROVE  TInv'
BY DEF TInv, TypeOK, Held, dataVars, Answers, Exists

LEMMA CreateTInv ==
  ASSUME TInv, NEW r \in Requests, NEW t \in Tenders, createTender(r, t)
  PROVE  TInv'
<1> USE TenderingAssumption DEF TInv, TypeOK, createTender, awardVars, requestVars
<1>1. [status |-> "DRAFT", boq |-> 1, awarded |-> None] \in Tender
  BY DEF Tender, TenderStatus
<1>2. TypeOK'
  BY <1>1
<1>3. InFlight' /\ Answers'
  BY <1>1 DEF InFlight, Answers, Exists
<1> QED
  BY <1>2, <1>3

\* Every handler but createTender starts by loading, and changes nothing yet.
LEMMA LoadTInv ==
  ASSUME TInv, NEW r \in Requests,
         \/ \E t \in Tenders : VisitOverdue(r, t) \/ updateTender(r, t) \/ publishTender(r, t)
                               \/ closeTender(r, t) \/ cancelTender(r, t) \/ listTenderBids(r, t)
         \/ \E t \in Tenders, b \in Bidders : submitBid(r, t, b) \/ withdrawBid(r, t, b)
                                              \/ shortlistBid(r, t, b) \/ awardBid(r, t, b)
  PROVE  TInv' /\ UNCHANGED dataVars
<1> USE TenderingAssumption
<1>1. ASSUME NEW t \in Tenders, NEW b \in Bidders \cup {None}, NEW copy \in Tender,
             NEW place \in Places \ {"idle"},
             place \in OnBid => place = "submitting" /\ b \in Bidders,
             Find(r, t, place, copy, b)
      PROVE  TInv' /\ UNCHANGED dataVars
  <2>1. UNCHANGED dataVars
    BY <1>1 DEF Find, dataVars, awardVars
  <2> QED
    BY <1>1, <2>1, FindHeld, UnchangedTInv
<1>2. ASSUME NEW t \in Tenders, NEW b \in Bidders, NEW allowed,
             NEW place \in {"withdrawing", "shortlisting", "signing"},
             FindBid(r, t, b, allowed, place)
      PROVE  TInv' /\ UNCHANGED dataVars
  <2>1. UNCHANGED dataVars
    BY <1>2 DEF FindBid, dataVars, awardVars
  <2> QED
    BY <1>2, <2>1, FindBidHeld, UnchangedTInv
<1>3. ASSUME NEW t \in Tenders, NEW st, NEW place \in Places \ (OnBid \cup {"idle"}),
             FindIn(r, t, st, place) \/ FindOverdue(r, t, place)
      PROVE  TInv' /\ UNCHANGED dataVars
  <2>1. tender[t] \in Tender /\ [tender[t] EXCEPT !.status = "CLOSED"] \in Tender
    <3>1. tender[t] \in Tender
      BY <1>3 DEF TInv, TypeOK, FindIn, FindOverdue, Exists
    <3> QED
      BY <3>1, ClosedTender
  <2>2. PICK copy \in Tender : Find(r, t, place, copy, None)
    BY <1>3, <2>1 DEF FindIn, FindOverdue
  <2> QED
    BY <1>1, <2>2
<1>4. ASSUME NEW t \in Tenders,
             VisitOverdue(r, t) \/ updateTender(r, t) \/ publishTender(r, t)
             \/ closeTender(r, t) \/ cancelTender(r, t) \/ listTenderBids(r, t)
      PROVE  TInv' /\ UNCHANGED dataVars
  BY <1>3, <1>4 DEF VisitOverdue, updateTender, publishTender, closeTender, cancelTender,
                    listTenderBids, Places, OnBid
<1>5. ASSUME NEW t \in Tenders, NEW b \in Bidders, submitBid(r, t, b)
      PROVE  TInv' /\ UNCHANGED dataVars
  <2>1. tender[t] \in Tender
    BY <1>5 DEF TInv, TypeOK, submitBid, Exists
  <2> QED
    BY <1>1, <1>5, <2>1 DEF submitBid, Places, OnBid
<1>6. ASSUME NEW t \in Tenders, NEW b \in Bidders,
             withdrawBid(r, t, b) \/ shortlistBid(r, t, b) \/ awardBid(r, t, b)
      PROVE  TInv' /\ UNCHANGED dataVars
  BY <1>2, <1>6 DEF withdrawBid, shortlistBid, awardBid
<1> QED
  BY <1>4, <1>5, <1>6

LEMMA StatusStepTInv ==
  ASSUME TInv, NEW r \in Requests,
         settleDeadline(r) \/ SavePublished(r) \/ SaveClosed(r) \/ SaveCancelled(r)
  PROVE  TInv'
<1> USE DEF KeepBeside, awardVars
<1>1. ASSUME NEW st \in TenderStatus, NEW next \in Places \ OnBid, at[r] # "idle",
             next \in Copying => at[r] \in Copying, SaveTenderStatus(r, st, next),
             UNCHANGED <<bid, contract, schedule, project, opened, disturbed, interrupted>>
      PROVE  TInv'
  BY <1>1, SaveStatusHeld DEF TInv, TypeOK, Held, Grows, Answers, Exists
<1>2. CASE settleDeadline(r)
  BY <1>1, <1>2 DEF settleDeadline, TenderStatus, Places, OnBid, Copying
<1>3. CASE SavePublished(r)
  BY <1>1, <1>3 DEF SavePublished, TenderStatus, Places, OnBid, Copying
<1>4. CASE SaveClosed(r)
  BY <1>1, <1>4 DEF SaveClosed, TenderStatus, Places, OnBid, Copying
<1>5. CASE SaveCancelled(r)
  <2>1. CASE seen[r].status = "CANCELLED"
    <3>1. Goto(r, "reverting") /\ at[r] = "cancelling" /\ UNCHANGED dataVars
      BY <1>5, <2>1 DEF SaveCancelled, dataVars
    <3>2. Grows
      BY <3>1 DEF Grows, Exists, dataVars
    <3>3. Held'
      BY <3>1, <3>2, GotoHeld DEF Places, OnBid, Copying
    <3> QED
      BY <3>1, <3>3, UnchangedTInv
  <2>2. CASE seen[r].status # "CANCELLED"
    BY <1>1, <1>5, <2>2 DEF SaveCancelled, TenderStatus, Places, OnBid, Copying
  <2> QED
    BY <2>1, <2>2
<1> QED
  BY <1>2, <1>3, <1>4, <1>5

LEMMA TenderStepTInv ==
  ASSUME TInv, NEW r \in Requests,
         SaveTender(r) \/ MoveToBidding(r) \/ MoveToPermitStage(r) \/ ReadBids(r)
  PROVE  TInv'
<1> USE TenderingAssumption DEF TInv, TypeOK, Keep, awardVars
<1>1. CASE SaveTender(r)
  <2>1. on[r] \in Tenders /\ Exists(on[r]) /\ tender[on[r]] \in Tender
    BY <1>1 DEF SaveTender, InFlight, Exists
  <2>2. [tender[on[r]] EXCEPT !.boq = tender[on[r]].boq + 1] \in Tender
    BY <2>1, EditedTender
  <2>3. \/ tender' = [tender EXCEPT ![on[r]] = [tender[on[r]] EXCEPT !.boq = tender[on[r]].boq + 1]]
        \/ tender' = tender
    BY <1>1, <2>1 DEF SaveTender
  <2>4. tender' \in [Tenders -> Tender \cup {None}] /\ Grows
    BY <1>1, <2>1, <2>2, <2>3 DEF Grows, Exists, SaveTender
  <2>5. Held'
    BY <1>1, <2>4, FinishHeld DEF SaveTender
  <2> QED
    BY <1>1, <2>4, <2>5 DEF SaveTender, Held, Grows, Answers, Exists
<1>2. ASSUME MoveToBidding(r) \/ MoveToPermitStage(r) \/ ReadBids(r)
      PROVE  TInv'
  <2>1. Finish(r) /\ Grows
    BY <1>2 DEF MoveToBidding, MoveToPermitStage, ReadBids, Grows, Exists
  <2>2. Held'
    BY <2>1, FinishHeld
  <2>3. ReadBids(r) => on[r] \in Tenders
    BY DEF ReadBids, InFlight
  <2>4. opened' \subseteq Tenders
    BY <1>2, <2>3 DEF MoveToBidding, MoveToPermitStage, ReadBids
  <2> QED
    BY <1>2, <2>2, <2>4 DEF MoveToBidding, MoveToPermitStage, ReadBids, Held, Answers, Exists
<1> QED
  BY <1>1, <1>2

LEMMA BidStepTInv ==
  ASSUME TInv, NEW r \in Requests, UpsertBid(r) \/ SaveWithdrawn(r) \/ SaveShortlisted(r)
  PROVE  TInv'
<1> USE TenderingAssumption DEF TInv, TypeOK, Keep, awardVars
<1>1. on[r] \in Tenders /\ Exists(on[r]) /\ whose[r] \in Bidders
  BY DEF UpsertBid, SaveWithdrawn, SaveShortlisted, InFlight, OnBid
<1>2. ASSUME NEW new \in Bid, SaveBid(r, new)
      PROVE  TInv'
  <2>1. /\ bid' \in [Tenders \X Bidders -> Bid \cup {None}]
        /\ Grows
        /\ disturbed' \subseteq Tenders \X Bidders
    BY <1>1, <1>2 DEF SaveBid, Grows, Exists
  <2>2. Held'
    BY <1>2, <2>1, FinishHeld DEF SaveBid
  <2>3. Answers'
    BY <1>1, <1>2 DEF SaveBid, Answers, Exists
  <2> QED
    BY <1>2, <2>1, <2>2, <2>3 DEF SaveBid, Held
<1>3. CASE UpsertBid(r)
  <2>1. seen[r] \in Tender
    BY <1>3 DEF UpsertBid, InFlight, Copying
  <2>2. [status |-> "SUBMITTED", boq |-> seen[r].boq] \in Bid
    BY <2>1 DEF Bid, BidStatus, Tender
  <2> QED
    BY <1>2, <1>3, <2>2 DEF UpsertBid
<1>4. CASE SaveWithdrawn(r)
  <2>1. bid[<<on[r], whose[r]>>] \in Bid
    BY <1>1, <1>4 DEF SaveWithdrawn, InFlight, OnBid
  <2>2. [bid[<<on[r], whose[r]>>] EXCEPT !.status = "WITHDRAWN"] \in Bid
    BY <2>1 DEF Bid, BidStatus
  <2>3. CASE held[r] = "WITHDRAWN"
    <3>1. Finish(r) /\ UNCHANGED dataVars
      BY <1>4, <2>3 DEF SaveWithdrawn, dataVars
    <3>2. Grows
      BY <3>1 DEF Grows, Exists, dataVars
    <3> QED
      BY <3>1, <3>2, FinishHeld, UnchangedTInv
  <2> QED
    BY <1>2, <1>4, <2>2, <2>3 DEF SaveWithdrawn
<1>5. CASE SaveShortlisted(r)
  <2>1. bid[<<on[r], whose[r]>>] \in Bid
    BY <1>1, <1>5 DEF SaveShortlisted, InFlight, OnBid
  <2>2. \A st \in BidStatus : [bid[<<on[r], whose[r]>>] EXCEPT !.status = st] \in Bid
    BY <2>1 DEF Bid
  <2>3. PICK st \in BidStatus : SaveBid(r, [bid[<<on[r], whose[r]>>] EXCEPT !.status = st])
    BY <1>5 DEF SaveShortlisted, BidStatus
  <2> QED
    BY <1>2, <2>2, <2>3
<1> QED
  BY <1>3, <1>4, <1>5

LEMMA AwardStepTInv ==
  ASSUME TInv, NEW r \in Requests,
         SignContract(r) \/ InsertSchedule(r) \/ SaveAwarded(r) \/ SaveWinner(r)
         \/ RejectOthers(r) \/ AssignContractor(r)
  PROVE  TInv'
<1> USE TenderingAssumption DEF Keep, awardVars
<1>1. /\ at[r] \in OnBid \ {"submitting"} /\ at[r] # "idle"
      /\ on[r] \in Tenders /\ whose[r] \in Bidders
      /\ tender[on[r]] \in Tender /\ bid[<<on[r], whose[r]>>] \in Bid
  BY DEF SignContract, InsertSchedule, SaveAwarded, SaveWinner, RejectOthers, AssignContractor,
         TInv, TypeOK, InFlight, Exists, OnBid
<1>2. ASSUME Grows, \/ Finish(r)
                    \/ \E place \in {"scheduling", "awarding", "winning", "rejecting", "assigning"} :
                         Goto(r, place)
      PROVE  Held'
  BY <1>1, <1>2, FinishHeld, GotoHeld DEF Places, Copying
<1>3. CASE SignContract(r)
  <2>1. contract' \in Contract \cup {None} /\ Grows
    BY <1>1, <1>3 DEF SignContract, Contract, TInv, TypeOK, Grows, Exists
  <2>2. Held'
    BY <1>2, <1>3, <2>1 DEF SignContract
  <2> QED
    BY <1>3, <2>1, <2>2 DEF SignContract, TInv, TypeOK, Held, Answers, Exists
<1>4. CASE InsertSchedule(r)
  <2>1. Grows
    BY <1>4 DEF InsertSchedule, Grows, Exists
  <2>2. Held'
    BY <1>2, <1>4, <2>1 DEF InsertSchedule
  <2> QED
    BY <1>4, <2>2 DEF InsertSchedule, TInv, TypeOK, Held, Answers, Exists
<1>5. CASE SaveAwarded(r)
  <2>1. [tender[on[r]] EXCEPT !.status = "AWARDED", !.awarded = whose[r]] \in Tender
    BY <1>1 DEF Tender, TenderStatus
  <2>2. tender' = [tender EXCEPT ![on[r]] =
                     [tender[on[r]] EXCEPT !.status = "AWARDED", !.awarded = whose[r]]]
    BY <1>1, <1>5 DEF SaveAwarded, TInv, TypeOK
  <2>3. tender' \in [Tenders -> Tender \cup {None}] /\ Grows
    BY <1>1, <1>5, <2>1, <2>2 DEF SaveAwarded, TInv, TypeOK, Grows, Exists
  <2>4. Held'
    BY <1>2, <1>5, <2>3 DEF SaveAwarded
  <2> QED
    BY <1>5, <2>3, <2>4 DEF SaveAwarded, TInv, TypeOK, Held, Answers, Exists, Grows
<1>6. CASE SaveWinner(r)
  <2>1. [bid[<<on[r], whose[r]>>] EXCEPT !.status = "AWARDED"] \in Bid
    BY <1>1 DEF Bid, BidStatus
  <2>2. bid' = [bid EXCEPT ![<<on[r], whose[r]>>] =
                  [bid[<<on[r], whose[r]>>] EXCEPT !.status = "AWARDED"]]
    BY <1>1, <1>6 DEF SaveWinner, TInv, TypeOK
  <2>a. bid' \in [Tenders \X Bidders -> Bid \cup {None}]
    BY <1>1, <2>1, <2>2 DEF TInv, TypeOK
  <2>b. UNCHANGED tender
    BY <1>6 DEF SaveWinner
  <2>c. \A t \in Tenders, b \in Bidders :
          bid[<<t, b>>] # None => bid'[<<t, b>>] # None
    <3> SUFFICES ASSUME NEW t \in Tenders, NEW b \in Bidders, bid[<<t, b>>] # None
                 PROVE  bid'[<<t, b>>] # None
      OBVIOUS
    <3>1. CASE <<t, b>> = <<on[r], whose[r]>>
      BY <1>1, <2>1, <2>2, <3>1 DEF TInv, TypeOK
    <3>2. CASE <<t, b>> # <<on[r], whose[r]>>
      BY <2>2, <3>2 DEF TInv, TypeOK
    <3> QED
      BY <3>1, <3>2
  <2>3. bid' \in [Tenders \X Bidders -> Bid \cup {None}] /\ Grows
    BY <2>a, <2>b, <2>c DEF Grows, Exists
  <2>4. Held'
    BY <1>2, <1>6, <2>3 DEF SaveWinner
  <2>5. Answers'
    BY <1>1, <1>6, <2>2 DEF SaveWinner, TInv, TypeOK, Answers, Exists
  <2> QED
    BY <1>6, <2>3, <2>4, <2>5 DEF SaveWinner, TInv, TypeOK, Held
<1>7. CASE RejectOthers(r)
  <2>1. ASSUME NEW tb \in Tenders \X Bidders
        PROVE  /\ bid'[tb] \in Bid \cup {None}
               /\ bid'[tb] # None <=> bid[tb] # None
    <3>1. bid[tb] \in Bid \cup {None}
      BY DEF TInv, TypeOK
    <3>2. bid[tb] # None => [bid[tb] EXCEPT !.status = "REJECTED"] \in Bid
      BY <3>1 DEF Bid, BidStatus
    <3> QED
      BY <1>7, <3>1, <3>2 DEF RejectOthers
  <2>2. bid' \in [Tenders \X Bidders -> Bid \cup {None}] /\ Grows
    BY <1>7, <2>1 DEF RejectOthers, Grows, Exists
  <2>3. Held'
    BY <1>2, <1>7, <2>2 DEF RejectOthers
  <2>4. Answers'
    BY <1>7, <2>1 DEF RejectOthers, TInv, Answers, Exists
  <2> QED
    BY <1>7, <2>2, <2>3, <2>4 DEF RejectOthers, TInv, TypeOK, Held
<1>8. CASE AssignContractor(r)
  <2>1. Grows
    BY <1>8 DEF AssignContractor, Grows, Exists
  <2>2. Held'
    BY <1>2, <1>8, <2>1 DEF AssignContractor
  <2> QED
    BY <1>1, <1>8, <2>2 DEF AssignContractor, TInv, TypeOK, Held, Answers, Exists
<1> QED
  BY <1>3, <1>4, <1>5, <1>6, <1>7, <1>8

LEMMA AsideTInv ==
  ASSUME TInv, (\E r \in Requests : Die(r)) \/ (\E t \in Tenders : SweepOverdue(t))
  PROVE  TInv'
<1> USE TenderingAssumption DEF Keep, awardVars
<1>1. ASSUME NEW r \in Requests, Die(r)
      PROVE  TInv'
  <2>1. interrupted' \subseteq Tenders /\ Grows
    BY <1>1 DEF Die, TInv, TypeOK, InFlight, Grows, Exists
  <2>2. Held'
    BY <1>1, <2>1, FinishHeld DEF Die
  <2> QED
    BY <1>1, <2>1, <2>2 DEF Die, TInv, TypeOK, Held, Answers, Exists
<1>2. ASSUME NEW t \in Tenders, SweepOverdue(t)
      PROVE  TInv'
  <2>1. tender[t] \in Tender
    BY <1>2 DEF SweepOverdue, TInv, TypeOK, Exists
  <2>2. [tender[t] EXCEPT !.status = "CLOSED"] \in Tender
    BY <2>1 DEF Tender, TenderStatus
  <2>3. tender' = [tender EXCEPT ![t] = [tender[t] EXCEPT !.status = "CLOSED"]]
    BY <1>2, <2>1 DEF SweepOverdue, TInv, TypeOK
  <2>4. tender' \in [Tenders -> Tender \cup {None}] /\ Grows
    BY <1>2, <2>2, <2>3 DEF SweepOverdue, TInv, TypeOK, Grows, Exists
  <2> QED
    BY <1>2, <2>4 DEF SweepOverdue, requestVars, TInv, TypeOK, InFlight, Answers, Exists, Grows
<1> QED
  BY <1>1, <1>2

LEMMA NextTInv == TInv /\ [Next]_vars => TInv'
<1> SUFFICES ASSUME TInv, [Next]_vars PROVE TInv'
  OBVIOUS
<1>1. ASSUME NEW r \in Requests, Start(r)
      PROVE  TInv'
  BY <1>1, CreateTInv, LoadTInv DEF Start
<1>2. ASSUME NEW r \in Requests, Continue(r)
      PROVE  TInv'
  BY <1>2, StatusStepTInv, TenderStepTInv, BidStepTInv, AwardStepTInv DEF Continue
<1>3. CASE UNCHANGED vars
  BY <1>3 DEF vars, awardVars, requestVars, TInv, TypeOK, InFlight, Answers, Exists
<1> QED
  BY <1>1, <1>2, <1>3, AsideTInv DEF Next

LEMMA InitTInv == Init => TInv
<1> SUFFICES ASSUME Init PROVE TInv
  OBVIOUS
<1>1. TypeOK
  BY DEF Init, TypeOK, Places
<1>2. InFlight
  BY DEF Init, InFlight
<1>3. Answers
  <2> SUFFICES ASSUME NEW t \in Tenders, NEW b \in Bidders PROVE bid[<<t, b>>] = None
    BY DEF Answers
  <2> QED
    BY DEF Init
<1> QED
  BY <1>1, <1>2, <1>3 DEF TInv

\* Every variable has its type in every state the handlers can reach.
THEOREM TypeCorrect == Spec => []TypeOK
<1>1. TInv => TypeOK
  BY DEF TInv
<1> QED
  BY InitTInv, NextTInv, <1>1, PTL DEF Spec

-----------------------------------------------------------------------------
(* A tender is awarded as the contract was signed *)

\* A step that signs nothing, awards nothing and brings nobody past the signature.
LEMMA AsideIInv ==
  ASSUME IInv, TInv', UNCHANGED contract,
         \A r \in Requests : at'[r] \in Awarding =>
           at[r] \in Awarding /\ on'[r] = on[r] /\ whose'[r] = whose[r],
         \A t \in Tenders : Exists(t)' /\ tender'[t].status = "AWARDED" =>
           Exists(t) /\ tender[t].status = "AWARDED" /\ tender'[t].awarded = tender[t].awarded
  PROVE  IInv'
BY DEF IInv, Signed, Named, AwardedIsSigned, Exists

\* The status a handler saves for its tender is never AWARDED.
LEMMA SaveStatusIInv ==
  ASSUME IInv, TInv', NEW r \in Requests, at[r] # "idle",
         NEW st \in TenderStatus \ {"AWARDED"}, NEW next \in Places \ OnBid,
         SaveTenderStatus(r, st, next), UNCHANGED contract
  PROVE  IInv'
<1> USE DEF IInv, TInv, TypeOK
<1>1. on[r] \in Tenders /\ tender[on[r]] \in Tender
  BY DEF InFlight, Exists
<1>2. \/ tender' = tender
      \/ tender' = [tender EXCEPT ![on[r]] = [tender[on[r]] EXCEPT !.status = st]]
  BY <1>1 DEF SaveTenderStatus
<1>3. \A t \in Tenders : Exists(t)' /\ tender'[t].status = "AWARDED" =>
        Exists(t) /\ tender[t].status = "AWARDED" /\ tender'[t].awarded = tender[t].awarded
  <2> SUFFICES ASSUME NEW t \in Tenders, Exists(t)', tender'[t].status = "AWARDED"
               PROVE  Exists(t) /\ tender[t].status = "AWARDED"
                      /\ tender'[t].awarded = tender[t].awarded
    OBVIOUS
  <2>1. CASE t = on[r] /\ tender' # tender
    <3>1. tender'[t].status = st
      BY <1>1, <1>2, <2>1 DEF Tender
    <3> QED
      BY <3>1
  <2>2. CASE t # on[r] \/ tender' = tender
    BY <1>2, <2>2 DEF Exists
  <2> QED
    BY <2>1, <2>2
<1>4. \A q \in Requests : at'[q] \in Awarding =>
        at[q] \in Awarding /\ on'[q] = on[q] /\ whose'[q] = whose[q]
  BY DEF SaveTenderStatus, Finish, Awarding, OnBid
<1> QED
  BY <1>3, <1>4, AsideIInv

\* What a step leaves alone when it saves no tender and signs nothing.
LEMMA KeepIInv ==
  ASSUME IInv, TInv', UNCHANGED <<tender, contract>>, NEW r \in Requests,
         \/ Finish(r)
         \/ \E place \in Places \ Awarding : Goto(r, place)
         \/ at[r] \in Awarding /\ \E place \in Awarding : Goto(r, place)
  PROVE  IInv'
<1>1. \A q \in Requests : at'[q] \in Awarding =>
        at[q] \in Awarding /\ on'[q] = on[q] /\ whose'[q] = whose[q]
  BY DEF Finish, Goto, IInv, TInv, TypeOK, Awarding
<1>2. \A t \in Tenders : Exists(t)' /\ tender'[t].status = "AWARDED" =>
        Exists(t) /\ tender[t].status = "AWARDED" /\ tender'[t].awarded = tender[t].awarded
  BY DEF Exists
<1> QED
  BY <1>1, <1>2, AsideIInv

LEMMA StartIInv ==
  ASSUME IInv, TInv', NEW r \in Requests, Start(r)
  PROVE  IInv'
<1> USE DEF IInv, TInv, TypeOK
<1>1. ASSUME NEW t \in Tenders, createTender(r, t)
      PROVE  IInv'
  <2>1. \A u \in Tenders : Exists(u)' /\ tender'[u].status = "AWARDED" =>
          Exists(u) /\ tender[u].status = "AWARDED" /\ tender'[u].awarded = tender[u].awarded
    BY <1>1 DEF createTender, Exists
  <2> QED
    BY <1>1, <2>1, AsideIInv DEF createTender, requestVars, awardVars
<1>2. CASE ~\E t \in Tenders : createTender(r, t)
  <2>1. UNCHANGED dataVars
    BY <1>2, LoadTInv DEF Start
  <2>2. \A q \in Requests : at'[q] \in Awarding =>
          at[q] \in Awarding /\ on'[q] = on[q] /\ whose'[q] = whose[q]
    <3>1. ASSUME NEW t \in Tenders, NEW place \in Places \ Awarding, NEW copy, NEW b,
                 Find(r, t, place, copy, b)
          PROVE  \A q \in Requests : at'[q] \in Awarding =>
                   at[q] \in Awarding /\ on'[q] = on[q] /\ whose'[q] = whose[q]
      BY <3>1 DEF Find, Awarding
    <3>2. ASSUME NEW t \in Tenders, NEW b, NEW allowed, NEW place \in Places \ Awarding,
                 FindBid(r, t, b, allowed, place)
          PROVE  \A q \in Requests : at'[q] \in Awarding =>
                   at[q] \in Awarding /\ on'[q] = on[q] /\ whose'[q] = whose[q]
      BY <3>2 DEF FindBid, Awarding
    <3>3. ASSUME NEW t \in Tenders,
                 VisitOverdue(r, t) \/ updateTender(r, t) \/ publishTender(r, t)
                 \/ closeTender(r, t) \/ cancelTender(r, t) \/ listTenderBids(r, t)
          PROVE  \A q \in Requests : at'[q] \in Awarding =>
                   at[q] \in Awarding /\ on'[q] = on[q] /\ whose'[q] = whose[q]
      BY <3>1, <3>3 DEF VisitOverdue, updateTender, publishTender, closeTender, cancelTender,
                        listTenderBids, FindIn, FindOverdue, Places, Awarding
    <3>4. ASSUME NEW t \in Tenders, NEW b \in Bidders,
                 submitBid(r, t, b) \/ withdrawBid(r, t, b) \/ shortlistBid(r, t, b)
                 \/ awardBid(r, t, b)
          PROVE  \A q \in Requests : at'[q] \in Awarding =>
                   at[q] \in Awarding /\ on'[q] = on[q] /\ whose'[q] = whose[q]
      BY <3>1, <3>2, <3>4 DEF submitBid, withdrawBid, shortlistBid, awardBid, Places, Awarding
    <3> QED
      BY <1>2, <3>3, <3>4 DEF Start
  <2> QED
    BY <2>1, <2>2, AsideIInv DEF dataVars, Exists
<1> QED
  BY <1>1, <1>2

LEMMA AwardIInv ==
  ASSUME IInv, TInv', NEW r \in Requests,
         SignContract(r) \/ InsertSchedule(r) \/ SaveAwarded(r) \/ SaveWinner(r)
         \/ RejectOthers(r) \/ AssignContractor(r)
  PROVE  IInv'
<1> USE DEF Keep, awardVars
<1>1. CASE SignContract(r)
  <2>1. CASE contract = None
    <3>1. on[r] \in Tenders /\ whose[r] \in Bidders
      BY <1>1 DEF SignContract, IInv, TInv, InFlight, OnBid
    <3>2. \A t \in Tenders, b \in Bidders : [tender |-> t, bidder |-> b] # None
      BY TenderingAssumption DEF Contract
    <3>3. \A q \in Requests : at[q] \notin Awarding
      <4> SUFFICES ASSUME NEW q \in Requests, at[q] \in Awarding PROVE FALSE
        OBVIOUS
      <4>1. on[q] \in Tenders /\ whose[q] \in Bidders
        BY DEF IInv, TInv, InFlight, OnBid, Awarding
      <4> QED
        BY <2>1, <3>2, <4>1 DEF IInv, Signed
    <3>4. \A t \in Tenders : Exists(t) => tender[t].status # "AWARDED"
      <4> SUFFICES ASSUME NEW t \in Tenders, Exists(t), tender[t].status = "AWARDED" PROVE FALSE
        OBVIOUS
      <4>1. tender[t].awarded \in Bidders
            /\ contract = [tender |-> t, bidder |-> tender[t].awarded]
        BY DEF IInv, Named, AwardedIsSigned
      <4> QED
        BY <2>1, <3>2, <4>1
    <3>5. Signed'
      BY <1>1, <2>1, <3>1, <3>3 DEF SignContract, Goto, Signed, IInv, TInv, TypeOK
    <3>6. Named' /\ AwardedIsSigned'
      BY <1>1, <3>4 DEF SignContract, Named, AwardedIsSigned, Exists
    <3> QED
      BY <3>5, <3>6 DEF IInv
  <2>2. CASE contract # None
    BY <1>1, <2>2, KeepIInv DEF SignContract
  <2> QED
    BY <2>1, <2>2
<1>2. CASE SaveAwarded(r)
  <2>1. /\ contract = [tender |-> on[r], bidder |-> whose[r]]
        /\ on[r] \in Tenders /\ whose[r] \in Bidders /\ tender[on[r]] \in Tender
    BY <1>2 DEF SaveAwarded, IInv, Signed, Awarding, OnBid, TInv, TypeOK, InFlight, Exists
  <2>2. Named' /\ AwardedIsSigned'
    <3> SUFFICES ASSUME NEW t \in Tenders, Exists(t)', tender'[t].status = "AWARDED"
                 PROVE  /\ tender'[t].awarded \in Bidders
                        /\ contract' = [tender |-> t, bidder |-> tender'[t].awarded]
      BY DEF Named, AwardedIsSigned
    <3>1. CASE t = on[r]
      <4>1. tender'[t].awarded = whose[r]
        BY <1>2, <2>1, <3>1 DEF SaveAwarded, IInv, TInv, TypeOK, Tender
      <4> QED
        BY <1>2, <2>1, <3>1, <4>1 DEF SaveAwarded
    <3>2. CASE t # on[r]
      BY <1>2, <2>1, <3>2 DEF SaveAwarded, IInv, Named, AwardedIsSigned, Exists, TInv, TypeOK
    <3> QED
      BY <3>1, <3>2
  <2>3. Signed'
    BY <1>2 DEF SaveAwarded, Goto, Signed, IInv, TInv, TypeOK, Awarding
  <2> QED
    BY <2>2, <2>3 DEF IInv
<1>3. ASSUME InsertSchedule(r) \/ SaveWinner(r) \/ RejectOthers(r) \/ AssignContractor(r)
      PROVE  IInv'
  BY <1>3, KeepIInv DEF InsertSchedule, SaveWinner, RejectOthers, AssignContractor, Awarding
<1> QED
  BY <1>1, <1>2, <1>3

LEMMA NextIInv == IInv /\ [Next]_vars => IInv'
<1> SUFFICES ASSUME IInv, [Next]_vars PROVE IInv'
  OBVIOUS
<1>0. TInv'
  BY NextTInv DEF IInv
<1> USE <1>0 DEF Keep, KeepBeside, awardVars
<1>1. ASSUME NEW r \in Requests, Start(r)
      PROVE  IInv'
  BY <1>1, StartIInv
<1>2. ASSUME NEW r \in Requests, Continue(r)
      PROVE  IInv'
  <2>1. CASE settleDeadline(r)
    BY <2>1, SaveStatusIInv DEF settleDeadline, TenderStatus, Places, OnBid
  <2>2. CASE SavePublished(r)
    BY <2>2, SaveStatusIInv DEF SavePublished, TenderStatus, Places, OnBid
  <2>3. CASE SaveClosed(r)
    BY <2>3, SaveStatusIInv DEF SaveClosed, TenderStatus, Places, OnBid
  <2>4. CASE SaveCancelled(r)
    <3>1. CASE seen[r].status = "CANCELLED"
      BY <2>4, <3>1, KeepIInv DEF SaveCancelled, Places, Awarding
    <3>2. CASE seen[r].status # "CANCELLED"
      BY <2>4, <3>2, SaveStatusIInv DEF SaveCancelled, TenderStatus, Places, OnBid
    <3> QED
      BY <3>1, <3>2
  <2>5. CASE SaveTender(r)
    <3>1. on[r] \in Tenders /\ tender[on[r]] \in Tender
      BY <2>5 DEF SaveTender, IInv, TInv, TypeOK, InFlight, Exists
    <3>2. \A t \in Tenders : Exists(t)' /\ tender'[t].status = "AWARDED" =>
            Exists(t) /\ tender[t].status = "AWARDED" /\ tender'[t].awarded = tender[t].awarded
      <4>1. \A t \in Tenders \ {on[r]} : tender'[t] = tender[t]
        BY <2>5, <3>1 DEF SaveTender
      <4>2. /\ tender'[on[r]].status = tender[on[r]].status
            /\ tender'[on[r]].awarded = tender[on[r]].awarded
        BY <2>5, <3>1 DEF SaveTender, IInv, TInv, TypeOK, Tender
      <4>3. Exists(on[r])
        BY <2>5 DEF SaveTender, IInv, TInv, InFlight
      <4> QED
        BY <4>1, <4>2, <4>3 DEF Exists
    <3>3. \A q \in Requests : at'[q] \in Awarding =>
            at[q] \in Awarding /\ on'[q] = on[q] /\ whose'[q] = whose[q]
      BY <2>5 DEF SaveTender, Finish, Awarding, IInv, TInv, TypeOK
    <3> QED
      BY <2>5, <3>2, <3>3, AsideIInv DEF SaveTender
  <2>6. ASSUME MoveToBidding(r) \/ MoveToPermitStage(r) \/ ReadBids(r)
        PROVE  IInv'
    BY <2>6, KeepIInv DEF MoveToBidding, MoveToPermitStage, ReadBids
  <2>7. ASSUME UpsertBid(r) \/ SaveWithdrawn(r) \/ SaveShortlisted(r)
        PROVE  IInv'
    BY <2>7, KeepIInv DEF UpsertBid, SaveWithdrawn, SaveShortlisted, SaveBid
  <2> QED
    BY <1>2, <2>1, <2>2, <2>3, <2>4, <2>5, <2>6, <2>7, AwardIInv DEF Continue
<1>3. ASSUME NEW r \in Requests, Die(r)
      PROVE  IInv'
  BY <1>3, KeepIInv DEF Die
<1>4. ASSUME NEW t \in Tenders, SweepOverdue(t)
      PROVE  IInv'
  <2>1. \A u \in Tenders : Exists(u)' /\ tender'[u].status = "AWARDED" =>
          Exists(u) /\ tender[u].status = "AWARDED" /\ tender'[u].awarded = tender[u].awarded
    <3>1. tender[t] \in Tender
      BY <1>4 DEF SweepOverdue, IInv, TInv, TypeOK, Exists
    <3>2. tender'[t].status = "CLOSED" /\ \A u \in Tenders \ {t} : tender'[u] = tender[u]
      BY <1>4, <3>1 DEF SweepOverdue, IInv, TInv, TypeOK, Tender
    <3> QED
      BY <3>2 DEF Exists
  <2> QED
    BY <1>4, <2>1, AsideIInv DEF SweepOverdue, requestVars
<1>5. CASE UNCHANGED vars
  BY <1>5, AsideIInv DEF vars, requestVars, Exists
<1> QED
  BY <1>1, <1>2, <1>3, <1>4, <1>5 DEF Next

LEMMA InitIInv == Init => IInv
<1> SUFFICES ASSUME Init PROVE IInv
  OBVIOUS
<1>1. Signed /\ Named /\ AwardedIsSigned
  BY DEF Init, Signed, Named, AwardedIsSigned, Exists, Awarding
<1> QED
  BY <1>1, InitTInv DEF IInv

\* A tender is AWARDED only to the bidder the build contract was signed with for
\* it, for any number of tenders and of requests, the owner's included.
THEOREM AwardedHolds == Spec => []AwardedIsSigned
<1>1. IInv => AwardedIsSigned
  BY DEF IInv
<1> QED
  BY InitIInv, NextIInv, <1>1, PTL DEF Spec

-----------------------------------------------------------------------------
(* An award that was answered left nothing undone *)

\* Somebody's award is at one of these steps.
Pending(steps) == \E r \in Requests : at[r] \in steps

\* What is still to come at each step of an award.
Unscheduled == {"scheduling"}
Unrecorded  == Unscheduled \cup {"awarding"}
Uncrowned   == Unrecorded \cup {"winning"}
Unrejected  == Uncrowned \cup {"rejecting"}

\* A contract was signed, and no request on its tender has died.
InOrder == contract # None /\ contract.tender \notin interrupted

\* The contract is with a bidder who made an offer.
OnOffer == contract # None => bid[<<contract.tender, contract.bidder>>] # None

\* A bid on the contract's tender that nobody has saved since the signature.
Waiting(b) == bid[<<contract.tender, b>>] # None /\ <<contract.tender, b>> \notin disturbed
Standing(b) == bid[<<contract.tender, b>>].status

\* Each of the award's writes is there, or the award is still before it.
Scheduled  == InOrder => schedule \/ Pending(Unscheduled)
Recorded   == InOrder => tender[contract.tender].awarded = contract.bidder \/ Pending(Unrecorded)
Crowned    ==
  InOrder /\ Waiting(contract.bidder) => Standing(contract.bidder) = "AWARDED" \/ Pending(Uncrowned)
LosersTold ==
  InOrder => \A b \in Bidders \ {contract.bidder} :
    Waiting(b) => Standing(b) \in {"REJECTED", "WITHDRAWN"} \/ Pending(Unrejected)
Attached   == InOrder => project.contractor = contract.bidder \/ Pending(Awarding)

AInv == IInv /\ OnOffer /\ Scheduled /\ Recorded /\ Crowned /\ LosersTold /\ Attached

\* The writes of the award as they stand, and the awards under way.
Untouched ==
  /\ UNCHANGED <<contract, schedule>>
  /\ project'.contractor = project.contractor
  /\ \A t \in Tenders : Exists(t) => tender'[t].awarded = tender[t].awarded
  /\ \A t \in Tenders, b \in Bidders :
       \/ bid'[<<t, b>>] = bid[<<t, b>>]
       \/ /\ bid'[<<t, b>>] # None
          /\ contract # None /\ contract.tender = t => <<t, b>> \in disturbed'
  /\ disturbed \subseteq disturbed' /\ interrupted \subseteq interrupted'
  /\ \A q \in Requests : at[q] \in Awarding => at'[q] = at[q] \/ on[q] \in interrupted'

\* Whatever the other handlers save, the award goes on or its tender is interrupted.
LEMMA AsideAInv ==
  ASSUME AInv, IInv', Untouched
  PROVE  AInv'
<1> USE DEF AInv
<1>1. CASE ~InOrder'
  <2>1. OnOffer'
    <3> SUFFICES ASSUME contract' # None PROVE bid'[<<contract'.tender, contract'.bidder>>] # None
      BY DEF OnOffer
    <3>1. contract.tender \in Tenders /\ contract.bidder \in Bidders /\ contract' = contract
      BY DEF Untouched, IInv, TInv, TypeOK, Contract
    <3> QED
      BY <3>1 DEF Untouched, OnOffer
  <2> QED
    BY <1>1, <2>1 DEF Scheduled, Recorded, Crowned, LosersTold, Attached
<1>2. CASE InOrder'
  <2>1. /\ InOrder /\ contract' = contract
        /\ contract.tender \in Tenders /\ contract.bidder \in Bidders
    BY <1>2 DEF InOrder, Untouched, IInv, TInv, TypeOK, Contract
  <2> DEFINE T == contract.tender
             B == contract.bidder
  <2>2. \A q \in Requests : at[q] \in Awarding => at'[q] = at[q]
    <3> SUFFICES ASSUME NEW q \in Requests, at[q] \in Awarding PROVE at'[q] = at[q]
      OBVIOUS
    <3>1. on[q] = T
      BY DEF IInv, Signed
    <3> QED
      BY <1>2, <2>1, <3>1 DEF InOrder, Untouched
  <2>3. /\ Pending(Unscheduled) => Pending(Unscheduled)'
        /\ Pending(Unrecorded) => Pending(Unrecorded)'
        /\ Pending(Uncrowned) => Pending(Uncrowned)'
        /\ Pending(Unrejected) => Pending(Unrejected)'
        /\ Pending(Awarding) => Pending(Awarding)'
    BY <2>2 DEF Pending, Unscheduled, Unrecorded, Uncrowned, Unrejected, Awarding
  <2>4. bid[<<T, B>>] # None /\ Exists(T)
    BY <2>1 DEF InOrder, OnOffer, IInv, TInv, Answers
  <2>5. OnOffer'
    BY <2>1, <2>4 DEF OnOffer, Untouched
  <2>6. Scheduled' /\ Attached'
    BY <2>1, <2>3 DEF Scheduled, Attached, Untouched
  <2>7. Recorded'
    BY <2>1, <2>3, <2>4 DEF Recorded, Untouched
  <2>8. ASSUME NEW b \in Bidders, Waiting(b)'
        PROVE  Waiting(b) /\ Standing(b)' = Standing(b)
    BY <2>1, <2>8 DEF InOrder, Waiting, Standing, Untouched
  <2>9. Crowned'
    <3> SUFFICES ASSUME Waiting(contract.bidder)'
                 PROVE  Standing(contract.bidder)' = "AWARDED" \/ Pending(Uncrowned)'
      BY <2>1 DEF Crowned, Waiting, Standing
    <3> QED
      BY <2>1, <2>3, <2>8 DEF Crowned
  <2>10. LosersTold'
    <3> SUFFICES ASSUME NEW b \in Bidders \ {B}, Waiting(b)'
                 PROVE  Standing(b)' \in {"REJECTED", "WITHDRAWN"} \/ Pending(Unrejected)'
      BY <2>1 DEF LosersTold
    <3> QED
      BY <2>1, <2>3, <2>8 DEF LosersTold
  <2> QED
    BY <2>5, <2>6, <2>7, <2>9, <2>10
<1> QED
  BY <1>1, <1>2

\* The signature starts an award: everything is still to come.
LEMMA SignAInv ==
  ASSUME AInv, IInv', NEW r \in Requests, SignContract(r)
  PROVE  AInv'
<1> USE DEF AInv, Keep, awardVars, SignContract
<1>0. /\ on[r] \in Tenders /\ whose[r] \in Bidders /\ bid[<<on[r], whose[r]>>] # None
      /\ at[r] = "signing"
  BY DEF IInv, TInv, InFlight, OnBid
<1>1. CASE contract = None
  <2>1. at'[r] = "scheduling" /\ UNCHANGED bid
        /\ contract' = [tender |-> on[r], bidder |-> whose[r]]
    BY <1>1 DEF Goto, IInv, TInv, TypeOK
  <2>2. /\ Pending(Unscheduled)' /\ Pending(Unrecorded)' /\ Pending(Uncrowned)'
        /\ Pending(Unrejected)' /\ Pending(Awarding)'
    BY <2>1 DEF Pending, Unscheduled, Unrecorded, Uncrowned, Unrejected, Awarding
  <2> QED
    BY <1>0, <2>1, <2>2 DEF OnOffer, Scheduled, Recorded, Crowned, LosersTold, Attached
<1>2. CASE contract # None
  <2>1. Untouched
    BY <1>0, <1>2 DEF Finish, Untouched, Awarding, IInv, TInv, TypeOK
  <2> QED
    BY <2>1, AsideAInv
<1> QED
  BY <1>1, <1>2

\* One of the award's writes: it is there afterwards, and so are those before it.
LEMMA AwardAInv ==
  ASSUME AInv, IInv', NEW r \in Requests,
         InsertSchedule(r) \/ SaveAwarded(r) \/ SaveWinner(r) \/ RejectOthers(r)
         \/ AssignContractor(r)
  PROVE  AInv'
<1> DEFINE T == on[r]
           B == whose[r]
<1>1. /\ at[r] \in Awarding /\ T \in Tenders /\ B \in Bidders
      /\ contract = [tender |-> T, bidder |-> B] /\ contract # None
      /\ contract.tender = T /\ contract.bidder = B
      /\ tender[T] \in Tender /\ bid[<<T, B>>] \in Bid
  <2>1. at[r] \in Awarding
    BY DEF InsertSchedule, SaveAwarded, SaveWinner, RejectOthers, AssignContractor, Awarding
  <2>2. T \in Tenders /\ B \in Bidders /\ Exists(T) /\ bid[<<T, B>>] # None
    BY <2>1 DEF AInv, IInv, TInv, InFlight, Awarding, OnBid
  <2>3. contract = [tender |-> T, bidder |-> B]
    BY <2>1 DEF AInv, IInv, Signed
  <2> QED
    BY <2>1, <2>2, <2>3, TenderingAssumption DEF AInv, IInv, TInv, TypeOK, Exists, Contract
<1>2. /\ UNCHANGED <<contract, disturbed, interrupted>>
      /\ at \in [Requests -> Places] /\ bid \in [Tenders \X Bidders -> Bid \cup {None}]
      /\ tender \in [Tenders -> Tender \cup {None}]
      /\ \A q \in Requests \ {r} : at'[q] = at[q]
  BY DEF InsertSchedule, SaveAwarded, SaveWinner, RejectOthers, AssignContractor, Keep, awardVars,
         Goto, Finish, AInv, IInv, TInv, TypeOK
<1> HIDE DEF T, B
<1>3. InOrder' = InOrder /\ contract'.tender = T /\ contract'.bidder = B
  BY <1>1, <1>2 DEF InOrder
<1> DEFINE
      Left(b)  == bid[<<T, b>>] # None /\ <<T, b>> \notin disturbed
      Later(b) == bid'[<<T, b>>] # None /\ <<T, b>> \notin disturbed
<1>4. /\ InOrder => schedule \/ Pending(Unscheduled)
      /\ InOrder => tender[T].awarded = B \/ Pending(Unrecorded)
      /\ InOrder /\ Left(B) => bid[<<T, B>>].status = "AWARDED" \/ Pending(Uncrowned)
      /\ InOrder => \A b \in Bidders \ {B} :
           Left(b) => bid[<<T, b>>].status \in {"REJECTED", "WITHDRAWN"} \/ Pending(Unrejected)
      /\ InOrder => project.contractor = B \/ Pending(Awarding)
  BY <1>1 DEF AInv, Scheduled, Recorded, Crowned, LosersTold, Attached, Waiting, Standing
<1>5. SUFFICES
        /\ bid'[<<T, B>>] # None
        /\ InOrder => schedule' \/ Pending(Unscheduled)'
        /\ InOrder => tender'[T].awarded = B \/ Pending(Unrecorded)'
        /\ InOrder /\ Later(B) => bid'[<<T, B>>].status = "AWARDED" \/ Pending(Uncrowned)'
        /\ InOrder => \A b \in Bidders \ {B} :
             Later(b) => bid'[<<T, b>>].status \in {"REJECTED", "WITHDRAWN"} \/ Pending(Unrejected)'
        /\ InOrder => project'.contractor = B \/ Pending(Awarding)'
  <2> SUFFICES OnOffer' /\ Scheduled' /\ Recorded' /\ Crowned' /\ LosersTold' /\ Attached'
    BY DEF AInv
  <2>1. OnOffer' /\ Scheduled' /\ Recorded' /\ Attached'
    BY <1>3 DEF OnOffer, Scheduled, Recorded, Attached
  <2>2. Crowned'
    BY <1>2, <1>3 DEF Crowned, Waiting, Standing
  <2>3. LosersTold'
    BY <1>2, <1>3 DEF LosersTold, Waiting, Standing
  <2> QED
    BY <2>1, <2>2, <2>3
<1>6. ASSUME NEW steps, NEW new, at' = [at EXCEPT ![r] = new],
             Pending(steps), at[r] \in steps => new \in steps
      PROVE  Pending(steps)'
  <2>1. PICK q \in Requests : at[q] \in steps
    BY <1>6 DEF Pending
  <2>2. CASE q = r
    BY <1>2, <1>6, <2>1, <2>2 DEF Pending
  <2>3. CASE q # r
    BY <1>2, <2>1, <2>3 DEF Pending
  <2> QED
    BY <2>2, <2>3
<1>7. CASE InsertSchedule(r)
  <2>1. /\ at[r] = "scheduling" /\ at' = [at EXCEPT ![r] = "awarding"] /\ schedule' = TRUE
        /\ UNCHANGED <<tender, bid, project>>
    BY <1>7 DEF InsertSchedule, Goto, Keep
  <2>2. /\ Pending(Unrecorded) => Pending(Unrecorded)'
        /\ Pending(Uncrowned) => Pending(Uncrowned)'
        /\ Pending(Unrejected) => Pending(Unrejected)'
        /\ Pending(Awarding) => Pending(Awarding)'
    BY <1>6, <2>1 DEF Unscheduled, Unrecorded, Uncrowned, Unrejected, Awarding
  <2> QED
    BY <1>1, <1>4, <2>1, <2>2, TenderingAssumption
<1>8. CASE SaveAwarded(r)
  <2>1. /\ at[r] = "awarding" /\ at' = [at EXCEPT ![r] = "winning"]
        /\ tender'[T].awarded = B
        /\ UNCHANGED <<bid, schedule, project>>
    BY <1>1, <1>2, <1>8 DEF SaveAwarded, Goto, Keep, awardVars, Tender, T, B
  <2>2. /\ Pending(Unscheduled) => Pending(Unscheduled)'
        /\ Pending(Uncrowned) => Pending(Uncrowned)'
        /\ Pending(Unrejected) => Pending(Unrejected)'
        /\ Pending(Awarding) => Pending(Awarding)'
    BY <1>6, <2>1 DEF Unscheduled, Unrecorded, Uncrowned, Unrejected, Awarding
  <2> QED
    BY <1>1, <1>4, <2>1, <2>2, TenderingAssumption
<1>9. CASE SaveWinner(r)
  <2>1. /\ at[r] = "winning" /\ at' = [at EXCEPT ![r] = "rejecting"]
        /\ bid' = [bid EXCEPT ![<<T, B>>] = [bid[<<T, B>>] EXCEPT !.status = "AWARDED"]]
        /\ UNCHANGED <<tender, schedule, project>>
    BY <1>1, <1>2, <1>9 DEF SaveWinner, Goto, Keep, awardVars, T, B
  <2>2. bid'[<<T, B>>] \in Bid /\ bid'[<<T, B>>].status = "AWARDED"
    BY <1>1, <1>2, <2>1 DEF Bid, BidStatus
  <2>3. \A b \in Bidders \ {B} : bid'[<<T, b>>] = bid[<<T, b>>]
    BY <1>1, <1>2, <2>1
  <2>4. /\ Pending(Unscheduled) => Pending(Unscheduled)'
        /\ Pending(Unrecorded) => Pending(Unrecorded)'
        /\ Pending(Unrejected) => Pending(Unrejected)'
        /\ Pending(Awarding) => Pending(Awarding)'
    BY <1>6, <2>1 DEF Unscheduled, Unrecorded, Uncrowned, Unrejected, Awarding
  <2> QED
    BY <1>4, <2>1, <2>2, <2>3, <2>4, TenderingAssumption
<1>10. CASE RejectOthers(r)
  <2>1. /\ at[r] = "rejecting" /\ at' = [at EXCEPT ![r] = "assigning"]
        /\ UNCHANGED <<tender, schedule, project>>
    BY <1>10 DEF RejectOthers, Goto, Keep, awardVars
  <2>2. bid'[<<T, B>>] = bid[<<T, B>>]
    BY <1>1, <1>10 DEF RejectOthers, T, B
  <2>3. ASSUME NEW b \in Bidders \ {B}, Later(b)
        PROVE  bid'[<<T, b>>].status \in {"REJECTED", "WITHDRAWN"}
    <3>1. bid[<<T, b>>] \in Bid \cup {None}
      BY <1>1, <1>2
    <3>2. bid'[<<T, b>>] = IF bid[<<T, b>>] # None /\ bid[<<T, b>>].status # "WITHDRAWN"
                             THEN [bid[<<T, b>>] EXCEPT !.status = "REJECTED"]
                             ELSE bid[<<T, b>>]
      BY <1>1, <1>10 DEF RejectOthers, T, B
    <3> QED
      BY <2>3, <3>1, <3>2 DEF Bid
  <2>4. /\ Pending(Unscheduled) => Pending(Unscheduled)'
        /\ Pending(Unrecorded) => Pending(Unrecorded)'
        /\ Pending(Uncrowned) => Pending(Uncrowned)'
        /\ Pending(Awarding) => Pending(Awarding)'
    BY <1>6, <2>1 DEF Unscheduled, Unrecorded, Uncrowned, Unrejected, Awarding
  <2> QED
    BY <1>1, <1>4, <2>1, <2>2, <2>3, <2>4, TenderingAssumption
<1>11. CASE AssignContractor(r)
  <2>1. /\ at[r] = "assigning" /\ at' = [at EXCEPT ![r] = "idle"]
        /\ project'.contractor = B
        /\ UNCHANGED <<tender, bid, schedule>>
    BY <1>11 DEF AssignContractor, Finish, Keep, B
  <2>2. /\ Pending(Unscheduled) => Pending(Unscheduled)'
        /\ Pending(Unrecorded) => Pending(Unrecorded)'
        /\ Pending(Uncrowned) => Pending(Uncrowned)'
        /\ Pending(Unrejected) => Pending(Unrejected)'
    BY <1>6, <2>1 DEF Unscheduled, Unrecorded, Uncrowned, Unrejected
  <2> QED
    BY <1>1, <1>4, <2>1, <2>2, TenderingAssumption
<1> QED
  BY <1>7, <1>8, <1>9, <1>10, <1>11

\* A handler that starts has changed nothing yet, or has drafted a tender nobody bid on.
LEMMA StartAInv ==
  ASSUME AInv, IInv', NEW r \in Requests, Start(r)
  PROVE  AInv'
<1> USE DEF AInv, IInv, TInv
<1>1. ASSUME NEW t \in Tenders, createTender(r, t)
      PROVE  AInv'
  <2>1. Untouched
    BY <1>1 DEF createTender, Untouched, awardVars, requestVars, Exists, TypeOK
  <2> QED
    BY <2>1, AsideAInv
<1>2. ASSUME \/ \E t \in Tenders : VisitOverdue(r, t) \/ updateTender(r, t) \/ publishTender(r, t)
                               \/ closeTender(r, t) \/ cancelTender(r, t) \/ listTenderBids(r, t)
             \/ \E t \in Tenders, b \in Bidders : submitBid(r, t, b) \/ withdrawBid(r, t, b)
                                              \/ shortlistBid(r, t, b) \/ awardBid(r, t, b)
      PROVE  AInv'
  <2>1. UNCHANGED dataVars
    BY <1>2, LoadTInv
  <2>2. at[r] = "idle" /\ \A q \in Requests \ {r} : at'[q] = at[q]
    <3>1. ASSUME NEW t, NEW place, NEW copy, NEW b, Find(r, t, place, copy, b)
          PROVE  at[r] = "idle" /\ \A q \in Requests \ {r} : at'[q] = at[q]
      BY <3>1 DEF Find, TypeOK
    <3>2. ASSUME NEW t, NEW b, NEW allowed, NEW place, FindBid(r, t, b, allowed, place)
          PROVE  at[r] = "idle" /\ \A q \in Requests \ {r} : at'[q] = at[q]
      BY <3>2 DEF FindBid, TypeOK
    <3>3. CASE \E t \in Tenders : VisitOverdue(r, t) \/ updateTender(r, t) \/ publishTender(r, t)
                                  \/ closeTender(r, t) \/ cancelTender(r, t) \/ listTenderBids(r, t)
      BY <3>1, <3>3 DEF VisitOverdue, updateTender, publishTender, closeTender, cancelTender,
                        listTenderBids, FindIn, FindOverdue
    <3>4. CASE \E t \in Tenders, b \in Bidders : submitBid(r, t, b) \/ withdrawBid(r, t, b)
                                                 \/ shortlistBid(r, t, b) \/ awardBid(r, t, b)
      BY <3>1, <3>2, <3>4 DEF submitBid, withdrawBid, shortlistBid, awardBid
    <3> QED
      BY <1>2, <3>3, <3>4
  <2>3. Untouched
    BY <2>1, <2>2 DEF Untouched, dataVars, Awarding
  <2> QED
    BY <2>3, AsideAInv
<1> QED
  BY <1>1, <1>2 DEF Start

\* The owner's saves on a tender keep to whom it was awarded.
LEMMA TenderStepAInv ==
  ASSUME AInv, IInv', NEW r \in Requests,
         \/ settleDeadline(r) \/ SaveTender(r) \/ SavePublished(r) \/ MoveToBidding(r)
         \/ SaveClosed(r) \/ SaveCancelled(r) \/ MoveToPermitStage(r) \/ ReadBids(r)
  PROVE  AInv'
<1> USE DEF AInv, IInv, TInv, Keep, KeepBeside, awardVars
<1>1. on[r] \in Tenders /\ tender[on[r]] \in Tender /\ at[r] \notin Awarding
  BY DEF settleDeadline, SaveTender, SavePublished, MoveToBidding, SaveClosed, SaveCancelled,
         MoveToPermitStage, ReadBids, TypeOK, InFlight, Exists, Awarding
<1>2. UNCHANGED <<bid, contract, schedule, disturbed, interrupted>>
  BY DEF settleDeadline, SaveTender, SavePublished, MoveToBidding, SaveClosed, SaveCancelled,
         MoveToPermitStage, ReadBids
<1>3. project'.contractor = project.contractor
  BY DEF settleDeadline, SaveTender, SavePublished, MoveToBidding, SaveClosed, SaveCancelled,
         MoveToPermitStage, ReadBids, TypeOK
<1>4. \A q \in Requests \ {r} : at'[q] = at[q]
  BY DEF settleDeadline, SaveTender, SavePublished, MoveToBidding, SaveClosed, SaveCancelled,
         MoveToPermitStage, ReadBids, SaveTenderStatus, Goto, Finish, TypeOK
<1>5. \A t \in Tenders : Exists(t) => tender'[t].awarded = tender[t].awarded
  <2>1. ASSUME NEW st, NEW next, SaveTenderStatus(r, st, next)
        PROVE  \A t \in Tenders : Exists(t) => tender'[t].awarded = tender[t].awarded
    BY <1>1, <2>1 DEF SaveTenderStatus, TypeOK, Tender, Exists
  <2>2. CASE SaveTender(r)
    BY <1>1, <2>2 DEF SaveTender, TypeOK, Tender, Exists
  <2>3. CASE UNCHANGED tender
    BY <2>3
  <2> QED
    BY <2>1, <2>2, <2>3 DEF settleDeadline, SavePublished, MoveToBidding, SaveClosed,
       SaveCancelled, MoveToPermitStage, ReadBids
<1>6. Untouched
  BY <1>1, <1>2, <1>3, <1>4, <1>5 DEF Untouched
<1> QED
  BY <1>6, AsideAInv

\* A bid saved after the signature is remembered as saved.
LEMMA BidStepAInv ==
  ASSUME AInv, IInv', NEW r \in Requests, UpsertBid(r) \/ SaveWithdrawn(r) \/ SaveShortlisted(r)
  PROVE  AInv'
<1> USE DEF AInv, IInv, TInv, Keep, KeepBeside, awardVars
<1>1. /\ on[r] \in Tenders /\ whose[r] \in Bidders /\ at[r] \notin Awarding
      /\ at[r] # "submitting" => bid[<<on[r], whose[r]>>] \in Bid
  BY DEF UpsertBid, SaveWithdrawn, SaveShortlisted, InFlight, OnBid, Awarding, TypeOK
<1>2. ASSUME NEW new, new # None, SaveBid(r, new)
      PROVE  Untouched
  <2>1. \A q \in Requests \ {r} : at'[q] = at[q]
    BY <1>2 DEF SaveBid, Finish, TypeOK
  <2>2. \A t \in Tenders, b \in Bidders :
          \/ bid'[<<t, b>>] = bid[<<t, b>>]
          \/ /\ bid'[<<t, b>>] # None
             /\ contract # None /\ contract.tender = t => <<t, b>> \in disturbed'
    BY <1>1, <1>2 DEF SaveBid, TypeOK
  <2> QED
    BY <1>1, <1>2, <2>1, <2>2 DEF SaveBid, Untouched
<1>3. CASE UpsertBid(r)
  <2>1. seen[r] \in Tender
    BY <1>3 DEF UpsertBid, InFlight, Copying, TypeOK
  <2>2. [status |-> "SUBMITTED", boq |-> seen[r].boq] # None
    BY <2>1, TenderingAssumption DEF Bid, BidStatus, Tender
  <2> QED
    BY <1>2, <1>3, <2>2, AsideAInv DEF UpsertBid
<1>4. CASE (SaveWithdrawn(r) \/ SaveShortlisted(r)) /\ ~UNCHANGED bid
  <2>1. bid[<<on[r], whose[r]>>] \in Bid
    BY <1>1, <1>4 DEF SaveWithdrawn, SaveShortlisted
  <2>2. \A st \in BidStatus : [bid[<<on[r], whose[r]>>] EXCEPT !.status = st] # None
    BY <2>1, TenderingAssumption DEF Bid
  <2>3. PICK st \in BidStatus : SaveBid(r, [bid[<<on[r], whose[r]>>] EXCEPT !.status = st])
    BY <1>4 DEF SaveWithdrawn, SaveShortlisted, BidStatus
  <2> QED
    BY <1>2, <2>2, <2>3, AsideAInv
<1>5. CASE UNCHANGED bid
  <2>1. \A q \in Requests \ {r} : at'[q] = at[q]
    BY DEF UpsertBid, SaveWithdrawn, SaveShortlisted, SaveBid, Finish, TypeOK
  <2>2. /\ disturbed \subseteq disturbed'
        /\ UNCHANGED <<tender, contract, schedule, project, interrupted>>
    BY DEF UpsertBid, SaveWithdrawn, SaveShortlisted, SaveBid
  <2>3. Untouched
    BY <1>1, <1>5, <2>1, <2>2 DEF Untouched
  <2> QED
    BY <2>3, AsideAInv
<1> QED
  BY <1>3, <1>4, <1>5

LEMMA NextAInv == AInv /\ [Next]_vars => AInv'
<1> SUFFICES ASSUME AInv, [Next]_vars PROVE AInv'
  OBVIOUS
<1>0. IInv'
  BY NextIInv DEF AInv
<1>1. ASSUME NEW r \in Requests, Start(r)
      PROVE  AInv'
  BY <1>0, <1>1, StartAInv
<1>2. ASSUME NEW r \in Requests, Continue(r)
      PROVE  AInv'
  BY <1>0, <1>2, TenderStepAInv, BidStepAInv, SignAInv, AwardAInv DEF Continue
<1>3. ASSUME NEW r \in Requests, Die(r)
      PROVE  AInv'
  <2>1. Untouched
    BY <1>3 DEF Die, Finish, Untouched, awardVars, AInv, IInv, TInv, TypeOK
  <2> QED
    BY <1>0, <2>1, AsideAInv
<1>4. ASSUME NEW t \in Tenders, SweepOverdue(t)
      PROVE  AInv'
  <2>1. \A u \in Tenders : Exists(u) => tender'[u].awarded = tender[u].awarded
    BY <1>4 DEF SweepOverdue, AInv, IInv, TInv, TypeOK, Exists, Tender
  <2>2. Untouched
    BY <1>4, <2>1 DEF SweepOverdue, Untouched, Keep, awardVars, requestVars
  <2> QED
    BY <1>0, <2>2, AsideAInv
<1>5. CASE UNCHANGED vars
  <2>1. Untouched
    BY <1>5 DEF vars, Untouched, awardVars, requestVars
  <2> QED
    BY <1>0, <2>1, AsideAInv
<1> QED
  BY <1>1, <1>2, <1>3, <1>4, <1>5 DEF Next

LEMMA InitAInv == Init => AInv
BY InitIInv DEF Init, AInv, OnOffer, InOrder, Scheduled, Recorded, Crowned, LosersTold, Attached

\* An award that was answered left nothing undone: every bid on the tender has been
\* told where it stands, and the build has its schedule and its contractor, whatever
\* the other requests have loaded and saved, however many the owner sends.
THEOREM NobodyIsGhosted == Spec => []AwardAnswered
<1>1. AInv => AwardAnswered
  <2> SUFFICES ASSUME AInv, InOrder, Quiet PROVE AwardAnswered
    BY DEF AwardAnswered, NobodyGhosted, AwardCompletes, InOrder
  <2>1. /\ ~Pending(Unscheduled) /\ ~Pending(Unrecorded) /\ ~Pending(Uncrowned)
        /\ ~Pending(Unrejected) /\ ~Pending(Awarding)
    BY DEF Quiet, Pending, Unscheduled, Unrecorded, Uncrowned, Unrejected, Awarding
  <2>2. AwardCompletes
    BY <2>1 DEF AInv, Scheduled, Recorded, Attached, AwardCompletes
  <2>3. NobodyGhosted
    BY <2>1 DEF AInv, Crowned, LosersTold, NobodyGhosted, Waiting, Standing
  <2> QED
    BY <2>2, <2>3 DEF AwardAnswered
<1> QED
  BY InitAInv, NextAInv, <1>1, PTL DEF Spec

-----------------------------------------------------------------------------
(* Sealed bids that price the tender as it is *)

IsDraft(t) == Exists(t) /\ tender[t].status = "DRAFT"

\* The places at which a request can find itself on a draft.
Drafting == {"editing", "publishing", "cancelling", "reverting"}

\* A draft has no bids, nobody has read them, and nobody else works on it.
Drafts ==
  \A t \in Tenders : IsDraft(t) =>
    /\ \A b \in Bidders : bid[<<t, b>>] = None
    /\ t \notin opened
    /\ \A r \in Requests : at[r] # "idle" /\ on[r] = t => at[r] \in Drafting

\* What is about to be edited or published is still a draft, unless it was raced.
Editing ==
  \A r \in Requests : at[r] \in {"editing", "publishing"} =>
    IsDraft(on[r]) \/ on[r] \in raced

\* Tenders whose bids were read, or are about to be, are past bidding.
Read ==
  /\ \A t \in opened : Exists(t) /\ (t \notin raced => tender[t].status # "OPEN")
  /\ \A r \in Requests : at[r] = "reading" =>
       /\ tender[on[r]].status # "DRAFT"
       /\ on[r] \notin raced => tender[on[r]].status # "OPEN"

\* A bid on its way prices the tender as it is.
Pricing ==
  \A r \in Requests : at[r] = "submitting" /\ on[r] \notin raced =>
    seen[r].boq = tender[on[r]].boq

OInv == TInv /\ Drafts /\ Editing /\ Read /\ Pricing /\ BidsPriceTheTender

\* What a step does to a request under way: it ends, or goes on with its tender.
Moves(q) ==
  at'[q] # "idle" =>
    /\ at[q] # "idle" /\ on'[q] = on[q]
    /\ at'[q] \in {"editing", "publishing", "submitting"} => at'[q] = at[q] /\ seen'[q] = seen[q]
    /\ at'[q] = "reading" => at[q] = "reading" \/ tender'[on[q]].status = "CLOSED"
    /\ at[q] \in Drafting => at'[q] \in Drafting \/ tender'[on[q]].status # "DRAFT"

\* A step that takes tenders only further from being drafts, and prices nothing.
LEMMA AsideOInv ==
  ASSUME OInv, TInv', UNCHANGED opened, raced \subseteq raced',
         \A q \in Requests : Moves(q),
         \A t \in Tenders : ~Exists(t) => tender'[t] = None,
         \A t \in Tenders : Exists(t) =>
           /\ tender'[t] # None
           /\ tender'[t].boq = tender[t].boq
           /\ \/ tender'[t].status = tender[t].status
              \/ /\ tender'[t].status \in {"CLOSED", "CANCELLED", "AWARDED"}
                 /\ \/ t \in raced'
                    \/ \A q \in Requests : at[q] \in {"editing", "publishing"} => on[q] # t,
         \A t \in Tenders, b \in Bidders : bid'[<<t, b>>] # None =>
           bid[<<t, b>>] # None /\ bid'[<<t, b>>].boq = bid[<<t, b>>].boq
  PROVE  OInv'
<1>0. \A q \in Requests : at[q] # "idle" => on[q] \in Tenders /\ Exists(on[q])
  BY DEF OInv, TInv, InFlight
<1>2. \A t \in Tenders : IsDraft(t)' => IsDraft(t)
  BY DEF IsDraft, Exists
<1>3. Drafts'
  <2> SUFFICES ASSUME NEW t \in Tenders, IsDraft(t)'
               PROVE  /\ \A b \in Bidders : bid'[<<t, b>>] = None
                      /\ t \notin opened'
                      /\ \A r \in Requests : at'[r] # "idle" /\ on'[r] = t => at'[r] \in Drafting
    BY DEF Drafts
  <2>1. IsDraft(t) /\ tender'[t].status = "DRAFT"
    BY <1>2 DEF IsDraft
  <2>2. \A b \in Bidders : bid'[<<t, b>>] = None
    BY <2>1 DEF OInv, Drafts
  <2>3. t \notin opened'
    BY <2>1 DEF OInv, Drafts
  <2>4. ASSUME NEW r \in Requests, at'[r] # "idle", on'[r] = t
        PROVE  at'[r] \in Drafting
    BY <2>1, <2>4 DEF OInv, Drafts, Moves
  <2> QED
    BY <2>2, <2>3, <2>4
<1>4. Editing'
  <2> SUFFICES ASSUME NEW r \in Requests, at'[r] \in {"editing", "publishing"}
               PROVE  (IsDraft(on[r]) \/ on[r] \in raced)'
    BY DEF Editing
  <2>1. /\ at[r] = at'[r] /\ on'[r] = on[r] /\ on[r] \in Tenders
        /\ IsDraft(on[r]) \/ on[r] \in raced
    BY <1>0 DEF OInv, Editing, Moves
  <2> QED
    BY <2>1 DEF IsDraft, Exists
<1>5. Read'
  <2>1. \A t \in opened' : Exists(t)' /\ (t \notin raced' => tender'[t].status # "OPEN")
    BY DEF OInv, Read, Exists, TInv, TypeOK
  <2>2. ASSUME NEW r \in Requests, at'[r] = "reading"
        PROVE  /\ tender'[on'[r]].status # "DRAFT"
               /\ on'[r] \notin raced' => tender'[on'[r]].status # "OPEN"
    <3>1. /\ on'[r] = on[r] /\ on[r] \in Tenders /\ Exists(on[r])
          /\ at[r] = "reading" \/ tender'[on[r]].status = "CLOSED"
      BY <1>0, <2>2 DEF Moves
    <3> QED
      BY <3>1 DEF OInv, Read
  <2> QED
    BY <2>1, <2>2 DEF Read
<1>6. Pricing'
  <2> SUFFICES ASSUME NEW r \in Requests, at'[r] = "submitting", on'[r] \notin raced'
               PROVE  seen'[r].boq = tender'[on'[r]].boq
    BY DEF Pricing
  <2>1. /\ at[r] = "submitting" /\ on'[r] = on[r] /\ seen'[r] = seen[r]
        /\ on[r] \in Tenders /\ Exists(on[r])
    BY <1>0 DEF Moves
  <2> QED
    BY <2>1 DEF OInv, Pricing
<1>7. BidsPriceTheTender'
  BY DEF OInv, BidsPriceTheTender, TInv, Answers
<1> QED
  BY <1>3, <1>4, <1>5, <1>6, <1>7 DEF OInv

\* The tender's status is saved, to close or to cancel it.
LEMMA SaveStatusOInv ==
  ASSUME OInv, TInv', NEW r \in Requests, NEW st \in {"CLOSED", "CANCELLED"},
         NEW next \in {"idle", "cancelling", "reading", "reverting"},
         at[r] \in {"settling", "settlingCancel", "settlingList", "closing", "cancelling"},
         next = "reading" => st = "CLOSED",
         next = "cancelling" => at[r] = "settlingCancel",
         SaveTenderStatus(r, st, next), UNCHANGED <<bid, opened>>
  PROVE  OInv'
<1>1. on[r] \in Tenders /\ Exists(on[r]) /\ tender[on[r]] \in Tender
  BY DEF OInv, TInv, TypeOK, InFlight, Exists
<1>2. \/ tender' = tender /\ Finish(r)
      \/ /\ tender' = [tender EXCEPT ![on[r]] = [tender[on[r]] EXCEPT !.status = st]]
         /\ \/ Finish(r)
            \/ next # "idle" /\ at' = [at EXCEPT ![r] = next] /\ UNCHANGED <<on, whose, seen, held>>
  BY <1>1 DEF SaveTenderStatus
<1>3. tender' = tender \/ tender'[on[r]].status = st
  BY <1>1, <1>2 DEF OInv, TInv, TypeOK, Tender
<1>r. raced \subseteq raced'
  BY DEF SaveTenderStatus
<1>m. \/ tender' = tender \/ on[r] \in raced'
      \/ \A q \in Requests : at[q] \in {"editing", "publishing"} => on[q] # on[r]
  BY DEF SaveTenderStatus, MeetsOnDraft
<1>4. \A q \in Requests : Moves(q)
  <2> SUFFICES ASSUME NEW q \in Requests, at'[q] # "idle" PROVE Moves(q)
    BY DEF Moves
  <2>1. CASE q # r
    BY <1>2, <2>1 DEF Moves, Finish, OInv, TInv, TypeOK
  <2>2. CASE q = r
    <3>1. /\ at'[r] = next /\ on'[r] = on[r] /\ seen'[r] = seen[r]
          /\ tender'[on[r]].status = st
      BY <1>1, <1>2, <2>2 DEF Finish, OInv, TInv, TypeOK, Tender
    <3> QED
      BY <2>2, <3>1 DEF Moves
  <2> QED
    BY <2>1, <2>2
<1>5. \A t \in Tenders : ~Exists(t) => tender'[t] = None
  BY <1>1, <1>2 DEF Exists, OInv, TInv, TypeOK
<1>6. \A t \in Tenders : Exists(t) =>
        /\ tender'[t] # None
        /\ tender'[t].boq = tender[t].boq
        /\ \/ tender'[t].status = tender[t].status
           \/ /\ tender'[t].status \in {"CLOSED", "CANCELLED", "AWARDED"}
              /\ \/ t \in raced'
                 \/ \A q \in Requests : at[q] \in {"editing", "publishing"} => on[q] # t
  <2> SUFFICES ASSUME NEW t \in Tenders, Exists(t)
               PROVE  /\ tender'[t] # None
                      /\ tender'[t].boq = tender[t].boq
                      /\ \/ tender'[t].status = tender[t].status
                         \/ /\ tender'[t].status \in {"CLOSED", "CANCELLED", "AWARDED"}
                            /\ \/ t \in raced'
                               \/ \A q \in Requests :
                                    at[q] \in {"editing", "publishing"} => on[q] # t
    OBVIOUS
  <2>1. CASE t # on[r] \/ tender' = tender
    BY <1>2, <2>1 DEF Exists, OInv, TInv, TypeOK
  <2>2. CASE t = on[r] /\ tender' # tender
    <3>1. [tender[on[r]] EXCEPT !.status = st] \in Tender
      BY <1>1 DEF Tender, TenderStatus
    <3>2. tender'[t] \in Tender /\ tender'[t].boq = tender[t].boq /\ tender'[t].status = st
      BY <1>1, <1>2, <2>2, <3>1 DEF OInv, TInv, TypeOK, Tender
    <3>3. tender'[t] # None
      BY <3>2, TenderingAssumption
    <3> QED
      BY <2>2, <3>2, <3>3, <1>m
  <2> QED
    BY <2>1, <2>2
<1> QED
  BY <1>4, <1>5, <1>6, <1>r, AsideOInv

\* What a step leaves alone when it saves no tender and opens no bids.
LEMMA KeepOInv ==
  ASSUME OInv, TInv', UNCHANGED <<tender, opened, raced>>, NEW r \in Requests,
         Finish(r) \/ (at[r] \in OnBid /\ \E place \in Awarding : Goto(r, place)),
         \A t \in Tenders, b \in Bidders : bid'[<<t, b>>] # None =>
           bid[<<t, b>>] # None /\ bid'[<<t, b>>].boq = bid[<<t, b>>].boq
  PROVE  OInv'
<1>1. \A q \in Requests : Moves(q)
  BY DEF Moves, Finish, Goto, OInv, TInv, TypeOK, OnBid, Awarding, Drafting
<1> QED
  BY <1>1, AsideOInv DEF Exists

LEMMA TenderStepOInv ==
  ASSUME OInv, TInv', NEW r \in Requests,
         settleDeadline(r) \/ SaveClosed(r) \/ SaveCancelled(r) \/ MoveToBidding(r)
         \/ MoveToPermitStage(r)
  PROVE  OInv'
<1> USE DEF Keep, KeepBeside, awardVars
<1>1. CASE settleDeadline(r)
  BY <1>1, SaveStatusOInv DEF settleDeadline
<1>2. CASE SaveClosed(r)
  BY <1>2, SaveStatusOInv DEF SaveClosed
<1>3. CASE SaveCancelled(r)
  <2>1. CASE seen[r].status = "CANCELLED"
    <3>1. \A q \in Requests : Moves(q)
      BY <1>3, <2>1 DEF SaveCancelled, Moves, Goto, OInv, TInv, TypeOK, Drafting
    <3>2. UNCHANGED <<tender, bid, opened, raced>>
      BY <1>3, <2>1 DEF SaveCancelled
    <3> QED
      BY <3>1, <3>2, AsideOInv DEF Exists
  <2>2. CASE seen[r].status # "CANCELLED"
    BY <1>3, <2>2, SaveStatusOInv DEF SaveCancelled
  <2> QED
    BY <2>1, <2>2
<1>4. ASSUME MoveToBidding(r) \/ MoveToPermitStage(r)
      PROVE  OInv'
  BY <1>4, KeepOInv DEF MoveToBidding, MoveToPermitStage
<1> QED
  BY <1>1, <1>2, <1>3, <1>4

LEMMA AwardStepOInv ==
  ASSUME OInv, TInv', NEW r \in Requests,
         SignContract(r) \/ InsertSchedule(r) \/ SaveAwarded(r) \/ SaveWinner(r)
         \/ RejectOthers(r) \/ AssignContractor(r)
  PROVE  OInv'
<1> USE DEF Keep, awardVars
<1>1. ASSUME SignContract(r) \/ InsertSchedule(r) \/ AssignContractor(r)
      PROVE  OInv'
  BY <1>1, KeepOInv DEF SignContract, InsertSchedule, AssignContractor, OnBid, Awarding
<1>2. CASE SaveWinner(r)
  <2>1. on[r] \in Tenders /\ whose[r] \in Bidders /\ bid[<<on[r], whose[r]>>] \in Bid
    BY <1>2 DEF SaveWinner, OInv, TInv, TypeOK, InFlight, OnBid
  <2>2. bid' = [bid EXCEPT ![<<on[r], whose[r]>>] =
                  [bid[<<on[r], whose[r]>>] EXCEPT !.status = "AWARDED"]]
    BY <1>2, <2>1 DEF SaveWinner, OInv, TInv, TypeOK
  <2>3. \A t \in Tenders, b \in Bidders : bid'[<<t, b>>] # None =>
          bid[<<t, b>>] # None /\ bid'[<<t, b>>].boq = bid[<<t, b>>].boq
    BY <2>1, <2>2, TenderingAssumption DEF OInv, TInv, TypeOK, Bid
  <2> QED
    BY <1>2, <2>3, KeepOInv DEF SaveWinner, OnBid, Awarding
<1>3. CASE RejectOthers(r)
  <2>1. ASSUME NEW t \in Tenders, NEW b \in Bidders, bid'[<<t, b>>] # None
        PROVE  bid[<<t, b>>] # None /\ bid'[<<t, b>>].boq = bid[<<t, b>>].boq
    <3>1. /\ <<t, b>> \in Tenders \X Bidders
          /\ bid[<<t, b>>] # None => bid[<<t, b>>] \in Bid
      BY DEF OInv, TInv, TypeOK
    <3>2. \/ bid'[<<t, b>>] = bid[<<t, b>>]
          \/ bid[<<t, b>>] # None /\ bid'[<<t, b>>] = [bid[<<t, b>>] EXCEPT !.status = "REJECTED"]
      BY <1>3, <3>1 DEF RejectOthers
    <3> QED
      BY <2>1, <3>1, <3>2 DEF Bid
  <2> QED
    BY <1>3, <2>1, KeepOInv DEF RejectOthers, OnBid, Awarding
<1>4. CASE SaveAwarded(r)
  <2>1. on[r] \in Tenders /\ tender[on[r]] \in Tender /\ at[r] = "awarding" /\ whose[r] \in Bidders
    BY <1>4 DEF SaveAwarded, OInv, TInv, TypeOK, InFlight, Exists, OnBid
  <2>2. \A t \in Tenders \ {on[r]} : tender'[t] = tender[t]
    BY <1>4, <2>1 DEF SaveAwarded, OInv, TInv, TypeOK
  <2>3. /\ tender'[on[r]] = [tender[on[r]] EXCEPT !.status = "AWARDED", !.awarded = whose[r]]
        /\ tender'[on[r]].status = "AWARDED" /\ tender'[on[r]].boq = tender[on[r]].boq
    BY <1>4, <2>1 DEF SaveAwarded, OInv, TInv, TypeOK, Tender
  <2>4. tender'[on[r]] # None
    BY <2>1, <2>3, TenderingAssumption DEF Tender, TenderStatus
  <2>5. /\ Exists(on[r])
        /\ \/ on[r] \in raced
           \/ \A q \in Requests : at[q] \in {"editing", "publishing"} => on[q] # on[r]
    <3>1. Exists(on[r]) /\ ~IsDraft(on[r])
      BY <2>1 DEF OInv, TInv, InFlight, Drafts, Drafting
    <3> QED
      BY <3>1 DEF OInv, Editing
  <2>6. \A q \in Requests : Moves(q)
    BY <1>4 DEF SaveAwarded, Moves, Goto, OInv, TInv, TypeOK, Drafting
  <2>7. UNCHANGED <<bid, opened, raced>>
    BY <1>4 DEF SaveAwarded
  <2> QED
    BY <2>2, <2>3, <2>4, <2>5, <2>6, <2>7, AsideOInv DEF Exists
<1> QED
  BY <1>1, <1>2, <1>3, <1>4

LEMMA BidStepOInv ==
  ASSUME OInv, TInv', NEW r \in Requests,
         UpsertBid(r) \/ SaveWithdrawn(r) \/ SaveShortlisted(r)
  PROVE  OInv'
<1> USE DEF Keep, awardVars
<1>1. on[r] \in Tenders /\ Exists(on[r]) /\ whose[r] \in Bidders
  BY DEF UpsertBid, SaveWithdrawn, SaveShortlisted, OInv, TInv, InFlight, OnBid
<1>2. CASE UpsertBid(r)
  <2>1. /\ on[r] \notin raced => tender[on[r]].boq = seen[r].boq
        /\ ~IsDraft(on[r])
    BY <1>1, <1>2 DEF UpsertBid, OInv, Pricing, Drafts, Drafting
  <2>2. \A t \in Tenders, b \in Bidders : <<t, b>> # <<on[r], whose[r]>> =>
          bid'[<<t, b>>] = bid[<<t, b>>]
    BY <1>2 DEF UpsertBid, SaveBid, OInv, TInv, TypeOK
  <2>3. on[r] \notin raced => bid'[<<on[r], whose[r]>>].boq = tender[on[r]].boq
    BY <1>1, <1>2, <2>1 DEF UpsertBid, SaveBid, OInv, TInv, TypeOK
  <2>4. BidsPriceTheTender'
    BY <1>2, <2>2, <2>3 DEF UpsertBid, SaveBid, OInv, BidsPriceTheTender
  <2>5. \A q \in Requests : at'[q] # "idle" =>
          at'[q] = at[q] /\ on'[q] = on[q] /\ seen'[q] = seen[q]
    BY <1>2 DEF UpsertBid, SaveBid, Finish, OInv, TInv, TypeOK
  <2>6. UNCHANGED <<tender, opened, raced>>
    BY <1>2 DEF UpsertBid, SaveBid
  <2>7. Drafts'
    <3> SUFFICES ASSUME NEW t \in Tenders, IsDraft(t)
                 PROVE  /\ \A b \in Bidders : bid'[<<t, b>>] = None
                        /\ t \notin opened
                        /\ \A q \in Requests : at'[q] # "idle" /\ on'[q] = t => at'[q] \in Drafting
      BY <2>6 DEF Drafts, IsDraft, Exists
    <3>1. t # on[r]
      BY <2>1
    <3> QED
      BY <2>2, <2>5, <3>1 DEF OInv, Drafts
  <2>8. Editing' /\ Read' /\ Pricing'
    BY <2>5, <2>6 DEF OInv, Editing, Read, Pricing, IsDraft, Exists
  <2> QED
    BY <2>4, <2>7, <2>8 DEF OInv
<1>3. ASSUME SaveWithdrawn(r) \/ SaveShortlisted(r)
      PROVE  OInv'
  <2>1. bid[<<on[r], whose[r]>>] \in Bid
    BY <1>1, <1>3 DEF SaveWithdrawn, SaveShortlisted, OInv, TInv, TypeOK, InFlight, OnBid
  <2>2. ASSUME NEW st, SaveBid(r, [bid[<<on[r], whose[r]>>] EXCEPT !.status = st])
        PROVE  OInv'
    <3>1. \A t \in Tenders, b \in Bidders : bid'[<<t, b>>] # None =>
            bid[<<t, b>>] # None /\ bid'[<<t, b>>].boq = bid[<<t, b>>].boq
      BY <1>1, <2>1, <2>2, TenderingAssumption DEF SaveBid, OInv, TInv, TypeOK, Bid
    <3> QED
      BY <2>2, <3>1, KeepOInv DEF SaveBid
  <2>3. ASSUME Finish(r), UNCHANGED <<tender, bid, opened, raced>>
        PROVE  OInv'
    BY <2>3, KeepOInv
  <2> QED
    BY <1>3, <2>2, <2>3 DEF SaveWithdrawn, SaveShortlisted
<1> QED
  BY <1>2, <1>3

LEMMA PublishOInv ==
  ASSUME OInv, TInv', NEW r \in Requests, SavePublished(r)
  PROVE  OInv'
<1> USE DEF KeepBeside, awardVars
<1>1. /\ at[r] = "publishing" /\ on[r] \in Tenders /\ Exists(on[r])
      /\ tender[on[r]] \in Tender /\ (IsDraft(on[r]) \/ on[r] \in raced)
  BY DEF SavePublished, OInv, TInv, TypeOK, InFlight, Exists, Editing
<1>2. CASE Clash(on[r], "OPEN")
  BY <1>2, KeepOInv DEF SavePublished, SaveTenderStatus
<1>3. CASE ~Clash(on[r], "OPEN")
  <2>1. /\ tender' = [tender EXCEPT ![on[r]] = [tender[on[r]] EXCEPT !.status = "OPEN"]]
        /\ at' = [at EXCEPT ![r] = "bidding"]
        /\ UNCHANGED <<on, whose, seen, held, bid, opened>>
    BY <1>1, <1>3 DEF SavePublished, SaveTenderStatus
  <2>2. /\ \A t \in Tenders \ {on[r]} : tender'[t] = tender[t]
        /\ tender'[on[r]].status = "OPEN" /\ tender'[on[r]].boq = tender[on[r]].boq
    BY <1>1, <2>1 DEF OInv, TInv, TypeOK, Tender
  <2>3. tender'[on[r]] # None
    BY <1>1, <2>1, TenderingAssumption DEF OInv, TInv, TypeOK, Tender, TenderStatus
  <2>4. /\ \A q \in Requests \ {r} : at'[q] = at[q]
        /\ at'[r] = "bidding"
        /\ \A q \in Requests : at'[q] # "idle" => on[q] \in Tenders
    BY <1>1, <2>1 DEF OInv, TInv, TypeOK, InFlight
  <2>5. raced \subseteq raced'
    BY <1>3 DEF SavePublished, SaveTenderStatus
  <2>6. Editing'
    <3>1. \/ on[r] \in raced'
          \/ \A q \in Requests \ {r} : at[q] \in {"editing", "publishing"} => on[q] # on[r]
      BY <1>3 DEF SavePublished, SaveTenderStatus, MeetsOnDraft
    <3>2. ASSUME NEW q \in Requests, at'[q] \in {"editing", "publishing"}, on[q] \notin raced'
          PROVE  IsDraft(on[q])'
      <4>1. q # r /\ at[q] \in {"editing", "publishing"} /\ IsDraft(on[q])
        BY <2>4, <2>5, <3>2 DEF OInv, Editing
      <4>2. on[q] # on[r] /\ on[q] \in Tenders
        BY <2>4, <3>1, <3>2, <4>1
      <4> QED
        BY <2>1, <2>2, <4>1, <4>2 DEF IsDraft, Exists
    <3> QED
      BY <2>1, <3>2 DEF Editing, IsDraft, Exists
  <2>7. Drafts'
    <3> SUFFICES ASSUME NEW t \in Tenders, IsDraft(t)'
                 PROVE  /\ \A b \in Bidders : bid[<<t, b>>] = None
                        /\ t \notin opened
                        /\ \A q \in Requests : at'[q] # "idle" /\ on[q] = t => at'[q] \in Drafting
      BY <2>1 DEF Drafts
    <3>1. t # on[r] /\ IsDraft(t)
      BY <2>2 DEF IsDraft, Exists
    <3> QED
      BY <2>4, <3>1 DEF OInv, Drafts
  <2>8. Read'
    <3>1. on[r] \notin opened \/ on[r] \in raced'
      BY <1>1, <2>5 DEF OInv, Drafts
    <3>2. ASSUME NEW q \in Requests, at'[q] = "reading"
          PROVE  on[q] # on[r] \/ on[r] \in raced'
      BY <1>1, <2>4, <2>5, <3>2 DEF OInv, Read, IsDraft
    <3> QED
      BY <2>1, <2>2, <2>3, <2>4, <2>5, <3>1, <3>2 DEF OInv, Read, Exists, TInv, TypeOK
  <2>9. Pricing'
    BY <2>1, <2>2, <2>4, <2>5 DEF OInv, Pricing
  <2>10. BidsPriceTheTender'
    BY <2>1, <2>2, <2>5 DEF OInv, BidsPriceTheTender
  <2> QED
    BY <2>6, <2>7, <2>8, <2>9, <2>10 DEF OInv
<1> QED
  BY <1>2, <1>3

LEMMA EditOInv ==
  ASSUME OInv, TInv', NEW r \in Requests, SaveTender(r)
  PROVE  OInv'
<1>1. /\ at[r] = "editing" /\ on[r] \in Tenders /\ Exists(on[r])
      /\ tender[on[r]] \in Tender /\ (IsDraft(on[r]) \/ on[r] \in raced)
  BY DEF SaveTender, OInv, TInv, TypeOK, InFlight, Exists, Editing
<1>2. /\ \A t \in Tenders \ {on[r]} : tender'[t] = tender[t]
      /\ tender'[on[r]].status = tender[on[r]].status
      /\ UNCHANGED <<bid, opened, raced>>
  BY <1>1 DEF SaveTender, awardVars, OInv, TInv, TypeOK, Tender
<1>3. tender'[on[r]] # None
  BY <1>1, TenderingAssumption DEF SaveTender, OInv, TInv, TypeOK, Tender
<1>4. \A q \in Requests : at'[q] # "idle" =>
        at'[q] = at[q] /\ on'[q] = on[q] /\ seen'[q] = seen[q] /\ on[q] \in Tenders
  BY DEF SaveTender, Finish, OInv, TInv, TypeOK, InFlight
<1>5. \A t \in Tenders : Exists(t)' = Exists(t) /\ IsDraft(t)' = IsDraft(t)
  BY <1>1, <1>2, <1>3 DEF Exists, IsDraft
<1>6. Drafts' /\ Editing'
  BY <1>2, <1>4, <1>5 DEF OInv, Drafts, Editing
<1>7. Read'
  BY <1>1, <1>2, <1>4, <1>5 DEF OInv, Read, TInv, TypeOK
<1>8. Pricing'
  <2>1. \A q \in Requests : at[q] = "submitting" /\ on[q] \notin raced => on[q] # on[r]
    BY <1>1 DEF OInv, Drafts, Drafting
  <2> QED
    BY <1>2, <1>4, <2>1 DEF OInv, Pricing
<1>9. BidsPriceTheTender'
  BY <1>1, <1>2 DEF OInv, BidsPriceTheTender, Drafts
<1> QED
  BY <1>6, <1>7, <1>8, <1>9 DEF OInv

LEMMA ReadOInv ==
  ASSUME OInv, TInv', NEW r \in Requests, ReadBids(r)
  PROVE  OInv'
<1>1. /\ at[r] = "reading" /\ on[r] \in Tenders /\ Exists(on[r])
      /\ tender[on[r]].status # "DRAFT"
      /\ on[r] \notin raced => tender[on[r]].status # "OPEN"
      /\ opened' = opened \cup {on[r]}
      /\ UNCHANGED <<tender, bid, raced>>
  BY DEF ReadBids, awardVars, OInv, TInv, TypeOK, InFlight, Read
<1>2. \A q \in Requests : at'[q] # "idle" =>
        at'[q] = at[q] /\ on'[q] = on[q] /\ seen'[q] = seen[q]
  BY DEF ReadBids, Finish, OInv, TInv, TypeOK
<1>3. Drafts'
  BY <1>1, <1>2 DEF OInv, Drafts, IsDraft, Exists
<1>4. Editing' /\ Pricing' /\ BidsPriceTheTender'
  BY <1>1, <1>2 DEF OInv, Editing, Pricing, BidsPriceTheTender, IsDraft, Exists
<1>5. Read'
  BY <1>1, <1>2 DEF OInv, Read, Exists
<1> QED
  BY <1>3, <1>4, <1>5 DEF OInv

\* What a handler's load must have found.
Found(r) ==
  /\ IsDraft(on'[r]) => at'[r] \in Drafting
  /\ at'[r] \in {"editing", "publishing"} => IsDraft(on'[r])
  /\ at'[r] = "reading" => tender[on'[r]].status \notin {"DRAFT", "OPEN"}
  /\ at'[r] = "submitting" => seen'[r].boq = tender[on'[r]].boq

LEMMA FoundOInv ==
  ASSUME OInv, TInv', NEW r \in Requests, UNCHANGED dataVars, Found(r),
         \A q \in Requests \ {r} : at'[q] = at[q] /\ on'[q] = on[q] /\ seen'[q] = seen[q]
  PROVE  OInv'
<1> USE DEF dataVars
<1>2. Drafts'
  BY DEF OInv, Drafts, IsDraft, Exists, Found
<1>3. Editing'
  BY DEF OInv, Editing, IsDraft, Exists, Found
<1>4. Read'
  BY DEF OInv, Read, Exists, Found
<1>5. Pricing' /\ BidsPriceTheTender'
  BY DEF OInv, Pricing, BidsPriceTheTender, Found
<1> QED
  BY <1>2, <1>3, <1>4, <1>5 DEF OInv

LEMMA LoadOInv ==
  ASSUME OInv, TInv', NEW r \in Requests, Start(r), ~\E t \in Tenders : createTender(r, t)
  PROVE  OInv'
<1>1. UNCHANGED dataVars
  BY LoadTInv DEF Start, OInv
<1>2. ASSUME NEW t \in Tenders, NEW place, NEW copy, NEW b, Find(r, t, place, copy, b),
             IsDraft(t) => place \in Drafting,
             place \in {"editing", "publishing"} => IsDraft(t),
             place = "reading" => tender[t].status \notin {"DRAFT", "OPEN"},
             place = "submitting" => copy = tender[t]
      PROVE  OInv'
  <2>1. at'[r] = place /\ on'[r] = t /\ seen'[r] = copy
    BY <1>2 DEF Find, OInv, TInv, TypeOK
  <2>2. \A q \in Requests \ {r} : at'[q] = at[q] /\ on'[q] = on[q] /\ seen'[q] = seen[q]
    BY <1>2 DEF Find, OInv, TInv, TypeOK
  <2>3. Found(r)
    BY <1>2, <2>1 DEF Found
  <2> QED
    BY <1>1, <2>2, <2>3, FoundOInv
<1>3. ASSUME NEW t \in Tenders, NEW b \in Bidders, NEW allowed,
             NEW place \in {"withdrawing", "shortlisting", "signing"},
             FindBid(r, t, b, allowed, place)
      PROVE  OInv'
  <2>1. at'[r] = place /\ on'[r] = t /\ ~IsDraft(t)
    BY <1>3 DEF FindBid, OInv, TInv, TypeOK, Drafts
  <2>2. \A q \in Requests \ {r} : at'[q] = at[q] /\ on'[q] = on[q] /\ seen'[q] = seen[q]
    BY <1>3 DEF FindBid, OInv, TInv, TypeOK
  <2>3. Found(r)
    BY <1>3, <2>1 DEF Found
  <2> QED
    BY <1>1, <2>2, <2>3, FoundOInv
<1>4. ASSUME NEW t \in Tenders, VisitOverdue(r, t) \/ closeTender(r, t)
      PROVE  OInv'
  BY <1>2, <1>4 DEF VisitOverdue, closeTender, FindOverdue, FindIn, IsDraft
<1>5. ASSUME NEW t \in Tenders, updateTender(r, t) \/ publishTender(r, t)
      PROVE  OInv'
  BY <1>2, <1>5 DEF updateTender, publishTender, FindIn, IsDraft, Drafting
<1>6. ASSUME NEW t \in Tenders, cancelTender(r, t)
      PROVE  OInv'
  BY <1>2, <1>6 DEF cancelTender, FindIn, FindOverdue, IsDraft, Drafting
<1>7. ASSUME NEW t \in Tenders, listTenderBids(r, t)
      PROVE  OInv'
  BY <1>2, <1>7 DEF listTenderBids, Readable, FindIn, FindOverdue, IsDraft
<1>8. ASSUME NEW t \in Tenders, NEW b \in Bidders, submitBid(r, t, b)
      PROVE  OInv'
  BY <1>2, <1>8 DEF submitBid, IsDraft
<1>9. ASSUME NEW t \in Tenders, NEW b \in Bidders,
             withdrawBid(r, t, b) \/ shortlistBid(r, t, b) \/ awardBid(r, t, b)
      PROVE  OInv'
  BY <1>3, <1>9 DEF withdrawBid, shortlistBid, awardBid
<1> QED
  BY <1>4, <1>5, <1>6, <1>7, <1>8, <1>9 DEF Start

LEMMA CreateOInv ==
  ASSUME OInv, TInv', NEW r \in Requests, NEW t \in Tenders, createTender(r, t)
  PROVE  OInv'
<1>1. /\ ~Exists(t)
      /\ \A u \in Tenders \ {t} : tender'[u] = tender[u]
      /\ UNCHANGED <<bid, requestVars, opened, raced>>
  BY DEF createTender, OInv, TInv, TypeOK
<1>2. /\ \A b \in Bidders : bid[<<t, b>>] = None
      /\ \A q \in Requests : at[q] # "idle" => on[q] \in Tenders \ {t}
      /\ t \notin opened
  BY <1>1 DEF OInv, TInv, InFlight, Answers, Read
<1>3. Drafts'
  BY <1>1, <1>2 DEF OInv, Drafts, IsDraft, Exists, requestVars
<1>4. Editing' /\ Pricing'
  BY <1>1, <1>2 DEF OInv, Editing, Pricing, IsDraft, Exists, requestVars
<1>5. Read'
  BY <1>1, <1>2 DEF OInv, Read, Exists, requestVars, TInv, TypeOK
<1>6. BidsPriceTheTender'
  BY <1>1, <1>2 DEF OInv, BidsPriceTheTender
<1> QED
  BY <1>3, <1>4, <1>5, <1>6 DEF OInv

LEMMA NextOInv == OInv /\ [Next]_vars => OInv'
<1> SUFFICES ASSUME OInv, [Next]_vars PROVE OInv'
  OBVIOUS
<1>0. TInv'
  BY NextTInv DEF OInv
<1>1. ASSUME NEW r \in Requests, Start(r)
      PROVE  OInv'
  BY <1>0, <1>1, LoadOInv, CreateOInv
<1>2. ASSUME NEW r \in Requests, Continue(r)
      PROVE  OInv'
  BY <1>0, <1>2, TenderStepOInv, PublishOInv, EditOInv, ReadOInv, BidStepOInv, AwardStepOInv
     DEF Continue
<1>3. ASSUME NEW r \in Requests, Die(r)
      PROVE  OInv'
  BY <1>0, <1>3, KeepOInv DEF Die, awardVars
<1>4. ASSUME NEW t \in Tenders, SweepOverdue(t)
      PROVE  OInv'
  <2>1. tender[t] \in Tender /\ tender[t].status = "OPEN" /\ Exists(t)
    BY <1>4 DEF SweepOverdue, OInv, TInv, TypeOK, Exists
  <2>2. /\ \A u \in Tenders \ {t} : tender'[u] = tender[u]
        /\ tender'[t] = [tender[t] EXCEPT !.status = "CLOSED"]
        /\ tender'[t].status = "CLOSED" /\ tender'[t].boq = tender[t].boq
    BY <1>4, <2>1 DEF SweepOverdue, OInv, TInv, TypeOK, Tender
  <2>3. tender'[t] # None
    BY <2>1, <2>2, TenderingAssumption DEF Tender, TenderStatus
  <2>4. \/ t \in raced
        \/ \A q \in Requests : at[q] \in {"editing", "publishing"} => on[q] # t
    BY <2>1 DEF OInv, Editing, IsDraft
  <2>5. \A q \in Requests : Moves(q)
    BY <1>4 DEF SweepOverdue, requestVars, Moves
  <2>6. UNCHANGED <<bid, opened, raced>>
    BY <1>4 DEF SweepOverdue, Keep
  <2> QED
    BY <1>0, <2>1, <2>2, <2>3, <2>4, <2>5, <2>6, AsideOInv DEF Exists
<1>5. CASE UNCHANGED vars
  <2>1. \A q \in Requests : Moves(q)
    BY <1>5 DEF vars, requestVars, Moves
  <2> QED
    BY <1>0, <1>5, <2>1, AsideOInv DEF vars, Exists
<1> QED
  BY <1>1, <1>2, <1>3, <1>4, <1>5 DEF Next

LEMMA InitOInv == Init => OInv
<1> SUFFICES ASSUME Init PROVE OInv
  OBVIOUS
<1>1. Editing /\ Read /\ Pricing
  BY DEF Init, Editing, Read, Pricing
<1>2. Drafts /\ BidsPriceTheTender
  <2>1. \A t \in Tenders, b \in Bidders : bid[<<t, b>>] = None /\ ~Exists(t)
    BY DEF Init, Exists
  <2>2. \A t \in Tenders : ~Exists(t)
    BY DEF Init, Exists
  <2> QED
    BY <2>1, <2>2 DEF Drafts, BidsPriceTheTender, IsDraft
<1> QED
  BY <1>1, <1>2, InitTInv DEF OInv

LEMMA AlwaysOInv == Spec => []OInv
<1>1. OInv /\ [Next]_vars => OInv'
  BY NextOInv
<1> QED
  BY InitOInv, <1>1, PTL DEF Spec

\* A tender whose bids the owner has read is never OPEN, whatever visitors, deadlines,
\* sweeps, contractors and the owner's other tabs do, unless it was published or
\* cancelled while another request held the draft.
THEOREM Sealed == Spec => []SealedWhileOpen
<1>1. OInv => SealedWhileOpen
  BY DEF OInv, Read, SealedWhileOpen
<1> QED
  BY AlwaysOInv, <1>1, PTL

\* Every bid prices the bill of quantities its tender has now, with the same exception.
THEOREM Priced == Spec => []BidsPriceTheTender
<1>1. OInv => BidsPriceTheTender
  BY DEF OInv
<1> QED
  BY AlwaysOInv, <1>1, PTL
=============================================================================
