----------------------------- MODULE MCPlatform -----------------------------
(* Small instances, for TLC, of the components that share no state: `part` *)
(* says which of them a behaviour is about, and the others stay as they    *)
(* begin.  Every action of every one is a disjunct of its own.             *)
EXTENDS Sessions, Accounts, EmailLinks, Calls, Verification, Handover, Structural, Matching, Variations, Orders, Meetings, DesignContract, TLC

CONSTANTS r1, r2, d1, d2, d3, p1, p2, c1, c2

VARIABLE part

\* The requests on a design contract: two reviews that race each other.
DesignParties == {r1, r2, c1, c2, d3}
DesignRole == [r \in DesignParties |->
  IF r \in {r1, r2} THEN "reviewer" ELSE IF r = c1 THEN "payer" ELSE IF r = c2 THEN "architect" ELSE "gateway"]

\* Followed from an approved concept on: the fee and one submission have been pushed,
\* nothing is pending, and the escrow is still to be funded, by hand or through the gateway.
ReviewInit ==
  /\ status = "AWAITING_ESCROW"
  /\ deliverables = <<[kind |-> "CONCEPT", status |-> "APPROVED"]>>
  /\ revisionsUsed = 0
  /\ conceptFees = 1 /\ deposits = 0 /\ releases = 0
  /\ version = 2
  /\ projectStatus = "CONCEPT_STAGE" /\ architect = "own" /\ designProposal = "ACCEPTED"
  /\ disputeLive = FALSE /\ disputes = 0
  /\ at = [r \in Requests |-> "idle"]
  /\ loaded = [r \in Requests |-> None]
  /\ index = [r \in Requests |-> 0]
  /\ queued = FALSE /\ redecided = FALSE /\ astray = FALSE

Parts == {"sessions", "accounts", "email", "calls", "verification", "handover", "structural", "matching", "variations", "orders", "meetings", "reviews"}

PlatformVars == <<part, sessionVars, accountVars, emailVars, callVars, verificationVars, handoverVars, structuralVars, matchingVars, variationVars, orderVars, meetingVars, vars>>

PlatformInit ==
  /\ part \in Parts
  /\ SessionsInit
  /\ AccountsInit
  /\ EmailInit
  /\ CallsInit
  /\ VerificationInit
  /\ HandoverInit
  /\ StructuralInit
  /\ MatchingInit
  /\ VariationsInit
  /\ OrdersInit
  /\ MeetingsInit
  /\ ReviewInit
  /\ part # "sessions" => access = [t \in Tabs |-> "fresh"]
  /\ part # "accounts" => account.role = "client"
  /\ part # "email" => email = "mail"

Elsewhere(p) ==
  /\ UNCHANGED part
  /\ IF p = "sessions" THEN TRUE ELSE UNCHANGED sessionVars
  /\ IF p = "accounts" THEN TRUE ELSE UNCHANGED accountVars
  /\ IF p = "email" THEN TRUE ELSE UNCHANGED emailVars
  /\ IF p = "calls" THEN TRUE ELSE UNCHANGED callVars
  /\ IF p = "verification" THEN TRUE ELSE UNCHANGED verificationVars
  /\ IF p = "handover" THEN TRUE ELSE UNCHANGED handoverVars
  /\ IF p = "structural" THEN TRUE ELSE UNCHANGED structuralVars
  /\ IF p = "matching" THEN TRUE ELSE UNCHANGED matchingVars
  /\ IF p = "variations" THEN TRUE ELSE UNCHANGED variationVars
  /\ IF p = "orders" THEN TRUE ELSE UNCHANGED orderVars
  /\ IF p = "meetings" THEN TRUE ELSE UNCHANGED meetingVars
  /\ IF p = "reviews" THEN TRUE ELSE UNCHANGED vars

Verdicts == {"APPROVED", "REJECTED"}

PlatformNext ==
  \/ part = "sessions" /\ (\E t \in Tabs : Renew(t)) /\ Elsewhere("sessions")
  \/ part = "sessions" /\ (\E t \in Tabs : Retry(t)) /\ Elsewhere("sessions")
  \/ part = "sessions" /\ (\E t \in Tabs : LogOut(t)) /\ Elsewhere("sessions")
  \/ part = "sessions" /\ (\E t \in Tabs : AccessExpires(t)) /\ Elsewhere("sessions")
  \/ part = "sessions" /\ (\E t \in Tabs : RefuseAnonymous(t)) /\ Elsewhere("sessions")
  \/ part = "sessions" /\ (\E t \in Tabs : Rotate(t)) /\ Elsewhere("sessions")
  \/ part = "sessions" /\ (\E t \in Tabs : MissRotation(t)) /\ Elsewhere("sessions")
  \/ part = "sessions" /\ (\E t \in Tabs : EndReplayed(t)) /\ Elsewhere("sessions")
  \/ part = "sessions" /\ (\E t \in Tabs : GrantGrace(t)) /\ Elsewhere("sessions")
  \/ part = "sessions" /\ (\E t \in Tabs : RefuseUnknown(t)) /\ Elsewhere("sessions")
  \/ part = "sessions" /\ (\E t \in Tabs : RefuseLogout(t)) /\ Elsewhere("sessions")
  \/ part = "sessions" /\ (\E t \in Tabs : EndSession(t)) /\ Elsewhere("sessions")
  \/ part = "sessions" /\ (\E t \in Tabs : Deliver(t)) /\ Elsewhere("sessions")
  \/ part = "sessions" /\ (\E t \in Tabs : LoseCall(t)) /\ Elsewhere("sessions")
  \/ part = "sessions" /\ (Tick) /\ Elsewhere("sessions")
  \/ part = "sessions" /\ (UpdateBrowser) /\ Elsewhere("sessions")
  \/ part = "sessions" /\ (Expire) /\ Elsewhere("sessions")
  \/ part = "accounts" /\ (\E l \in Logins : CheckPassword(l)) /\ Elsewhere("accounts")
  \/ part = "accounts" /\ (\E l \in Logins : UpgradeHash(l)) /\ Elsewhere("accounts")
  \/ part = "accounts" /\ (\E l \in Logins : StartSession(l)) /\ Elsewhere("accounts")
  \/ part = "accounts" /\ (\E l \in Logins : ReadForRefresh(l)) /\ Elsewhere("accounts")
  \/ part = "accounts" /\ (\E l \in Logins : MintAccess(l)) /\ Elsewhere("accounts")
  \/ part = "accounts" /\ (\E which \in SUBSET Logins : EndLogins(which)) /\ Elsewhere("accounts")
  \/ part = "accounts" /\ (\E c \in Changes, l \in Logins : 
       AskNewPassword(c, l)) /\ Elsewhere("accounts")
  \/ part = "accounts" /\ (\E c \in Changes, role \in UserRoles : 
       AskNewRole(c, role)) /\ Elsewhere("accounts")
  \/ part = "accounts" /\ (\E c \in Changes : SavePassword(c)) /\ Elsewhere("accounts")
  \/ part = "accounts" /\ (\E c \in Changes : RevokeOthers(c)) /\ Elsewhere("accounts")
  \/ part = "accounts" /\ (\E c \in Changes : SaveRole(c)) /\ Elsewhere("accounts")
  \/ part = "accounts" /\ (\E c \in Changes : RevokeAll(c)) /\ Elsewhere("accounts")
  \/ part = "email" /\ (\E s \in Senders : Issue(s)) /\ Elsewhere("email")
  \/ part = "email" /\ (\E s \in Senders : DeleteOlder(s)) /\ Elsewhere("email")
  \/ part = "email" /\ (\E s \in Senders : CreateLink(s)) /\ Elsewhere("email")
  \/ part = "email" /\ (\E s \in Senders : MailLink(s)) /\ Elsewhere("email")
  \/ part = "email" /\ (\E s \in Senders : MailFails(s)) /\ Elsewhere("email")
  \/ part = "email" /\ (WaitIsOver) /\ Elsewhere("email")
  \/ part = "email" /\ (\E l \in record : ExpireLink(l)) /\ Elsewhere("email")
  \/ part = "email" /\ (\E c \in Clickers, l \in mailed : FindRecord(c, l)) /\ Elsewhere("email")
  \/ part = "email" /\ (\E c \in Clickers : ReadAccount(c)) /\ Elsewhere("email")
  \/ part = "email" /\ (\E c \in Clickers : SaveVerified(c)) /\ Elsewhere("email")
  \/ part = "email" /\ (\E c \in Clickers : SpendLink(c)) /\ Elsewhere("email")
  \/ part = "email" /\ (\E m \in Movers, a \in Addresses : 
       ReadForChange(m, a)) /\ Elsewhere("email")
  \/ part = "email" /\ (\E m \in Movers : ChangeEmail(m)) /\ Elsewhere("email")
  \/ part = "calls" /\ (\E h \in Handlers : CreateCall(h)) /\ Elsewhere("calls")
  \/ part = "calls" /\ (\E h \in Handlers : Ring(h)) /\ Elsewhere("calls")
  \/ part = "calls" /\ (\E h \in Handlers : SaveAccepted(h)) /\ Elsewhere("calls")
  \/ part = "calls" /\ (\E h \in Handlers : ReadCall(h)) /\ Elsewhere("calls")
  \/ part = "calls" /\ (\E h \in Handlers : StampCall(h)) /\ Elsewhere("calls")
  \/ part = "calls" /\ (\E h \in Handlers : AskStatus(h)) /\ Elsewhere("calls")
  \/ part = "calls" /\ (\E h \in Handlers : Leave(h)) /\ Elsewhere("calls")
  \/ part = "calls" /\ (\E h \in Handlers : Sweep(h)) /\ Elsewhere("calls")
  \/ part = "calls" /\ (\E h \in Handlers, c \in CallIds : Dial(h, c)) /\ Elsewhere("calls")
  \/ part = "calls" /\ (\E h \in Handlers, c \in CallIds : Accept(h, c)) /\ Elsewhere("calls")
  \/ part = "calls" /\ (\E h \in Handlers, c \in CallIds : Reject(h, c)) /\ Elsewhere("calls")
  \/ part = "calls" /\ (\E h \in Handlers, c \in CallIds : Cancel(h, c)) /\ Elsewhere("calls")
  \/ part = "calls" /\ (\E h \in Handlers, c \in CallIds, p \in People : 
       HangUp(h, c, p)) /\ Elsewhere("calls")
  \/ part = "calls" /\ (\E h \in Handlers, p \in People : Disconnect(h, p)) /\ Elsewhere("calls")
  \/ part = "calls" /\ (\E p \in People : Connect(p)) /\ Elsewhere("calls")
  \/ part = "calls" /\ (RestartServer) /\ Elsewhere("calls")
  \/ part = "verification" /\ (\E d \in Desks : EditProfile(d)) /\ Elsewhere("verification")
  \/ part = "verification" /\ (\E d \in Desks : SaveProfile(d)) /\ Elsewhere("verification")
  \/ part = "verification" /\ (\E d \in Desks : SubmitVerification(d)) /\ Elsewhere("verification")
  \/ part = "verification" /\ (\E d \in Desks : AskOpen(d)) /\ Elsewhere("verification")
  \/ part = "verification" /\ (\E d \in Desks : SaveSubmitted(d)) /\ Elsewhere("verification")
  \/ part = "verification" /\ (\E d \in Desks : SaveOpened(d)) /\ Elsewhere("verification")
  \/ part = "verification" /\ (\E d \in Desks : ShowUnderReview(d)) /\ Elsewhere("verification")
  \/ part = "verification" /\ (\E d \in Desks : SaveDecision(d)) /\ Elsewhere("verification")
  \/ part = "verification" /\ (\E d \in Desks : GrantBadge(d)) /\ Elsewhere("verification")
  \/ part = "verification" /\ (\E d \in Desks : DeskDies(d)) /\ Elsewhere("verification")
  \/ part = "verification" /\ (\E d \in Desks, s \in Submissions : 
       CreateRequest(d, s)) /\ Elsewhere("verification")
  \/ part = "verification" /\ (\E d \in Desks, s \in Submissions : 
       GetRequest(d, s)) /\ Elsewhere("verification")
  \/ part = "verification" /\ (\E d \in Desks, s \in Submissions, v \in Verdicts : 
       DecideRequest(d, s, v)) /\ Elsewhere("verification")
  \/ part = "handover" /\ (\E r \in HandoverTabs, p \in Packages, c \in BOOLEAN : 
       SaveHandover(r, p, c)) /\ Elsewhere("handover")
  \/ part = "handover" /\ (\E r \in HandoverTabs : UpsertPackage(r)) /\ Elsewhere("handover")
  \/ part = "handover" /\ (\E r \in HandoverTabs : AcceptHandover(r)) /\ Elsewhere("handover")
  \/ part = "handover" /\ (\E r \in HandoverTabs : SaveReceipt(r)) /\ Elsewhere("handover")
  \/ part = "handover" /\ (\E r \in HandoverTabs : CompleteBuilding(r)) /\ Elsewhere("handover")
  \/ part = "handover" /\ (\E r \in HandoverTabs : TabDies(r)) /\ Elsewhere("handover")
  \/ part = "handover" /\ (OwnerMoves) /\ Elsewhere("handover")
  \/ part = "handover" /\ (LastRelease) /\ Elsewhere("handover")
  \/ part = "structural" /\ (\E r \in StRequests, e \in Engagements : 
       Appoint(r, e)) /\ Elsewhere("structural")
  \/ part = "structural" /\ (\E r \in StRequests : AttachEngineer(r)) /\ Elsewhere("structural")
  \/ part = "structural" /\ (\E r \in StRequests, e \in Engagements : 
       FundFee(r, e)) /\ Elsewhere("structural")
  \/ part = "structural" /\ (\E r \in StRequests : SaveFee(r)) /\ Elsewhere("structural")
  \/ part = "structural" /\ (\E r \in StRequests, e \in Engagements : 
       SubmitDrawings(r, e)) /\ Elsewhere("structural")
  \/ part = "structural" /\ (\E r \in StRequests : SaveDrawings(r)) /\ Elsewhere("structural")
  \/ part = "structural" /\ (\E r \in StRequests, e \in Engagements : 
       RefuseDrawings(r, e)) /\ Elsewhere("structural")
  \/ part = "structural" /\ (\E r \in StRequests : SaveChanges(r)) /\ Elsewhere("structural")
  \/ part = "structural" /\ (\E r \in StRequests, e \in Engagements : 
       ApproveDrawings(r, e)) /\ Elsewhere("structural")
  \/ part = "structural" /\ (\E r \in StRequests : AskFrozen(r)) /\ Elsewhere("structural")
  \/ part = "structural" /\ (\E r \in StRequests : SaveApproval(r)) /\ Elsewhere("structural")
  \/ part = "structural" /\ (\E r \in StRequests, e \in Engagements : 
       CancelEngagement(r, e)) /\ Elsewhere("structural")
  \/ part = "structural" /\ (\E r \in StRequests : SaveCancellation(r)) /\ Elsewhere("structural")
  \/ part = "structural" /\ (\E r \in StRequests : DetachEngineer(r)) /\ Elsewhere("structural")
  \/ part = "structural" /\ (\E d \in StDisputes, e \in Engagements : 
       RaiseRuling(d, e)) /\ Elsewhere("structural")
  \/ part = "structural" /\ (\E d \in StDisputes : WithdrawRuling(d)) /\ Elsewhere("structural")
  \/ part = "structural" /\ (\E r \in StRequests, d \in StDisputes : 
       ResolveRuling(r, d)) /\ Elsewhere("structural")
  \/ part = "structural" /\ (\E r \in StRequests : WeighHeld(r)) /\ Elsewhere("structural")
  \/ part = "structural" /\ (\E r \in StRequests : PayRuling(r)) /\ Elsewhere("structural")
  \/ part = "structural" /\ (\E r \in StRequests : CloseRuling(r)) /\ Elsewhere("structural")
  \/ part = "matching" /\ (\E r \in MatchRequests, p \in Proposals, a \in Architects : 
       CreateProposal(r, p, a)) /\ Elsewhere("matching")
  \/ part = "matching" /\ (\E r \in MatchRequests : InsertProposal(r)) /\ Elsewhere("matching")
  \/ part = "matching" /\ (\E r \in MatchRequests, p \in Proposals : 
       AcceptProposal(r, p)) /\ Elsewhere("matching")
  \/ part = "matching" /\ (\E r \in MatchRequests : SaveWinner(r)) /\ Elsewhere("matching")
  \/ part = "matching" /\ (\E r \in MatchRequests : EngageArchitect(r)) /\ Elsewhere("matching")
  \/ part = "matching" /\ (\E r \in MatchRequests : DeclineLosers(r)) /\ Elsewhere("matching")
  \/ part = "matching" /\ (\E r \in MatchRequests, c \in Contracts : 
       SignContract(r, c)) /\ Elsewhere("matching")
  \/ part = "matching" /\ (\E r \in MatchRequests, p \in Proposals : 
       DeclineProposal(r, p)) /\ Elsewhere("matching")
  \/ part = "matching" /\ (\E r \in MatchRequests, p \in Proposals : 
       WithdrawProposal(r, p)) /\ Elsewhere("matching")
  \/ part = "matching" /\ (\E r \in MatchRequests : SaveRefused(r)) /\ Elsewhere("matching")
  \/ part = "matching" /\ (\E r \in MatchRequests : UpdateProject(r)) /\ Elsewhere("matching")
  \/ part = "matching" /\ (\E r \in MatchRequests : SaveBrief(r)) /\ Elsewhere("matching")
  \/ part = "matching" /\ (\E r \in MatchRequests : DeleteProject(r)) /\ Elsewhere("matching")
  \/ part = "matching" /\ (\E r \in MatchRequests : PostBrief(r)) /\ Elsewhere("matching")
  \/ part = "matching" /\ (\E r \in MatchRequests : SavePosted(r)) /\ Elsewhere("matching")
  \/ part = "matching" /\ (\E r \in MatchRequests : RemoveBrief(r)) /\ Elsewhere("matching")
  \/ part = "matching" /\ (\E from, to \in BriefStatus : 
       UpdateProjectStatus(from, to)) /\ Elsewhere("matching")
  \/ part = "matching" /\ (\E r \in MatchRequests, c \in Contracts : 
       CancelSigned(r, c)) /\ Elsewhere("matching")
  \/ part = "matching" /\ (\E r \in MatchRequests : 
       SaveCancelledContract(r)) /\ Elsewhere("matching")
  \/ part = "matching" /\ (\E r \in MatchRequests : OpenBriefAgain(r)) /\ Elsewhere("matching")
  \/ part = "matching" /\ (\E r \in MatchRequests : DeclineWinner(r)) /\ Elsewhere("matching")
  \/ part = "matching" /\ (\E c \in Contracts : CompleteDesign(c)) /\ Elsewhere("matching")
  \/ part = "matching" /\ (\E r \in MatchRequests : MatchDies(r)) /\ Elsewhere("matching")
  \/ part = "variations" /\ (\E o \in Orders, delta \in Deltas : 
       ProposeChangeOrder(o, delta)) /\ Elsewhere("variations")
  \/ part = "variations" /\ (\E r \in VarRequests, o \in Orders : 
       ApproveOrder(r, o)) /\ Elsewhere("variations")
  \/ part = "variations" /\ (\E r \in VarRequests, o \in Orders : 
       RejectOrder(r, o)) /\ Elsewhere("variations")
  \/ part = "variations" /\ (\E r \in VarRequests, o \in Orders : 
       WithdrawOrder(r, o)) /\ Elsewhere("variations")
  \/ part = "variations" /\ (\E r \in VarRequests : SaveRefusedOrder(r)) /\ Elsewhere("variations")
  \/ part = "variations" /\ (\E r \in VarRequests : SeekPlace(r)) /\ Elsewhere("variations")
  \/ part = "variations" /\ (\E r \in VarRequests : AppendMilestone(r)) /\ Elsewhere("variations")
  \/ part = "variations" /\ (\E r \in VarRequests : ChargeContract(r)) /\ Elsewhere("variations")
  \/ part = "variations" /\ (\E r \in VarRequests : RecordApproval(r)) /\ Elsewhere("variations")
  \/ part = "variations" /\ (\E r \in VarRequests : DecisionDies(r)) /\ Elsewhere("variations")
  \/ part = "variations" /\ (\E i \in DOMAIN schedule : 
       ReleaseTranche(i)) /\ Elsewhere("variations")
  \/ part = "orders" /\ (\E r \in ShopRequests, x \in Products : 
       AddCartItem(r, x)) /\ Elsewhere("orders")
  \/ part = "orders" /\ (\E r \in ShopRequests : PushLine(r)) /\ Elsewhere("orders")
  \/ part = "orders" /\ (\E r \in ShopRequests : WriteLine(r)) /\ Elsewhere("orders")
  \/ part = "orders" /\ (\E r \in ShopRequests, x \in Products, n \in 1..MaxAdded : 
       SetCartItem(r, x, n)) /\ Elsewhere("orders")
  \/ part = "orders" /\ (\E x \in Products : CreateOrder(x)) /\ Elsewhere("orders")
  \/ part = "orders" /\ (\E r \in ShopRequests : ClearCart(r)) /\ Elsewhere("orders")
  \/ part = "orders" /\ (\E r \in ShopRequests : LoadCart(r)) /\ Elsewhere("orders")
  \/ part = "orders" /\ (\E r \in ShopRequests : SavePruned(r)) /\ Elsewhere("orders")
  \/ part = "orders" /\ (\E r \in ShopRequests, x \in Products : 
       SetCartItemToZero(r, x)) /\ Elsewhere("orders")
  \/ part = "orders" /\ (\E r \in ShopRequests : SaveWithout(r)) /\ Elsewhere("orders")
  \/ part = "orders" /\ (\E r \in ShopRequests, x \in Products : 
       RemoveCartItem(r, x)) /\ Elsewhere("orders")
  \/ part = "orders" /\ (\E r \in ShopRequests : CheckoutCart(r)) /\ Elsewhere("orders")
  \/ part = "orders" /\ (\E r \in ShopRequests : PlaceOrder(r)) /\ Elsewhere("orders")
  \/ part = "orders" /\ (\E r \in ShopRequests : SpendCart(r)) /\ Elsewhere("orders")
  \/ part = "orders" /\ (\E x \in Products : Unlist(x)) /\ Elsewhere("orders")
  \/ part = "orders" /\ (\E r \in ShopRequests, i \in DOMAIN ordered, to \in OrderStatuses : 
       UpdateOrderStatus(r, i, to)) /\ Elsewhere("orders")
  \/ part = "orders" /\ (\E r \in ShopRequests : SaveOrderStatus(r)) /\ Elsewhere("orders")
  \/ part = "orders" /\ (\E r \in ShopRequests : ShopDies(r)) /\ Elsewhere("orders")
  \/ part = "meetings" /\ (\E a \in Hosts, rules \in OpenHours \cup {None} : 
       SaveAvailability(a, rules)) /\ Elsewhere("meetings")
  \/ part = "meetings" /\ (\E r \in MeetRequests, m \in Meetings, k \in Bookers, a \in Hosts, t \in 0..LastTime, place \in Venues : 
       BookMeeting(r, m, k, a, t, place)) /\ Elsewhere("meetings")
  \/ part = "meetings" /\ (\E r \in MeetRequests : CheckClash(r)) /\ Elsewhere("meetings")
  \/ part = "meetings" /\ (\E r \in MeetRequests : InsertMeeting(r)) /\ Elsewhere("meetings")
  \/ part = "meetings" /\ (\E r \in MeetRequests, m \in Meetings, party \in Parties : 
       ProposeVenue(r, m, party)) /\ Elsewhere("meetings")
  \/ part = "meetings" /\ (\E r \in MeetRequests : SaveCounter(r)) /\ Elsewhere("meetings")
  \/ part = "meetings" /\ (\E r \in MeetRequests, m \in Meetings, party \in Parties : 
       AcceptVenue(r, m, party)) /\ Elsewhere("meetings")
  \/ part = "meetings" /\ (\E r \in MeetRequests : SaveAgreed(r)) /\ Elsewhere("meetings")
  \/ part = "meetings" /\ (\E r \in MeetRequests, m \in Meetings : 
       ChooseOffice(r, m)) /\ Elsewhere("meetings")
  \/ part = "meetings" /\ (\E r \in MeetRequests : SaveOffice(r)) /\ Elsewhere("meetings")
  \/ part = "meetings" /\ (\E r \in MeetRequests, m \in Meetings : 
       CancelMeeting(r, m)) /\ Elsewhere("meetings")
  \/ part = "meetings" /\ (\E r \in MeetRequests : SaveCancelled(r)) /\ Elsewhere("meetings")
  \/ part = "meetings" /\ (\E r \in MeetRequests, m \in Meetings, t \in 0..LastTime : 
       RescheduleMeeting(r, m, t)) /\ Elsewhere("meetings")
  \/ part = "meetings" /\ (\E r \in MeetRequests : SaveMoved(r)) /\ Elsewhere("meetings")
  \/ part = "meetings" /\ (PassTime) /\ Elsewhere("meetings")
  \/ part = "reviews" /\ (\E r \in Requests : Start(r)) /\ Elsewhere("reviews")
  \/ part = "reviews" /\ (\E r \in Requests : Continue(r)) /\ Elsewhere("reviews")
  \/ part = "reviews" /\ (\E r \in Requests : Die(r)) /\ Elsewhere("reviews")

PlatformSpec == PlatformInit /\ [][PlatformNext]_PlatformVars

\* What TLC does not follow further: states that the properties except.
Followed ==
  CASE part = "sessions" -> /\ lost => minted < 2 /\ ~loggedOut /\ agent = "recorded"
                            /\ ~NoLogoutAsked \/ agent = "changed" => minted = 0
    [] part = "accounts" -> racing = {} /\ ~undone
    [] part = "email" -> ~outrun
    [] part = "calls" -> clashed = {}
    [] part = "variations" -> botched = {}
    [] part = "structural" -> crossed = {}
    [] part = "orders" -> ~jumbled
    [] part = "meetings" -> ~tangled
    [] part = "verification" -> ~disordered
    [] part = "matching" -> ~muddled
    [] part = "handover" -> ~jostled
    [] OTHER -> TRUE

\* The hours a host may open: two slots, which overlap.
Hours == {{<<0, 2>>, <<1, 3>>}}

\* Requests are interchangeable, and so are documents, people and contracts.
Symmetry == Permutations({r1, r2}) \cup Permutations({d1, d2}) \cup Permutations({p1, p2})

-----------------------------------------------------------------------------
\* Every value is of the type its module gives it: whatever requests cross,
\* no write goes to an element that is not there, and no sum or count falls below zero.
PlatformTypes ==
  CASE part = "sessions" -> SessionsTypeOK
    [] part = "accounts" -> AccountsTypeOK
    [] part = "email" -> EmailTypeOK
    [] part = "calls" -> CallsTypeOK
    [] part = "verification" -> VerificationTypeOK
    [] part = "handover" -> HandoverTypeOK
    [] part = "structural" -> StructuralTypeOK
    [] part = "matching" -> MatchingTypeOK
    [] part = "variations" -> VariationsTypeOK
    [] part = "orders" -> OrdersTypeOK
    [] part = "meetings" -> MeetingsTypeOK
    [] part = "reviews" -> TypeOK
=============================================================================
