--------------------------- MODULE PaymentGateway ---------------------------
(***************************************************************************)
(* Online payments: controllers/payments.controller.ts over the            *)
(* PaymentSession collection, the SSLCommerz gateway it talks to, and the  *)
(* requests of the other controllers that pay for, or cancel, the same     *)
(* thing by hand.                                                          *)
(*                                                                         *)
(* Every handler reads a document, checks it, and saves it later, with     *)
(* awaits in between, so a handler is a process with one step per          *)
(* database round trip.  What a request holds between two steps is what it *)
(* loaded (loaded[r]), never the current document.                         *)
(***************************************************************************)
EXTENDS Naturals

CONSTANTS
  Sessions,     \* payment sessions (rows of PaymentSession)
  Targets,      \* the things paid for: contracts, engagements, milestones, orders
  Purpose,      \* the PaymentPurpose under which each target is paid
  Price,        \* what each target costs: amountBdt of every session that pays for it
  Requests,     \* request handlers that can be in flight together
  Manual,       \* the reference of a payment recorded by hand
  None,         \* no session, no target
  MaxManual,    \* bound: manual payments begin until a ledger holds this many
  CanFail       \* may a request die half way (crash, restart, database error)?

PaymentPurpose == {"CONTRACT_CONCEPT_FEE", "CONTRACT_ESCROW",
                   "STRUCTURAL_ESCROW", "MILESTONE_ESCROW", "MARKET_ORDER"}

PaymentSessionStatus == {"INITIATED", "PAID", "FAILED", "CANCELLED"}

ASSUME GatewayAssumption ==
  /\ Purpose \in [Targets -> PaymentPurpose]
  /\ Price \in [Targets -> Nat]
  /\ Manual \notin Sessions
  /\ None \notin Sessions \cup Targets \cup PaymentSessionStatus \cup {Manual}
  /\ MaxManual \in Nat
  /\ CanFail \in BOOLEAN

VARIABLES
  \* --- the database
  sessionStatus,   \* PaymentSession.status, None before the row exists
  paysFor,         \* PaymentSession.purpose and refId, as a target
  appliedAt,       \* is PaymentSession.appliedAt set?
  targetStatus,    \* the target's status: AWAITING payment, FUNDED, CANCELLED
  ledger,          \* ledger[t][ref]: entries of the target's ledger by reference
  \* --- the gateway
  charge,          \* what the gateway did with the payer's money
  \* --- the requests in flight
  at,              \* where each request is in its handler
  ref,             \* the session a request works for, Manual, or None
  voucher,         \* the session whose val_id the request was posted with, or None
  target,          \* the target a request works on
  loaded,          \* the session status the request read
  \* --- history, read by no action
  written,         \* how many ledger entries each session has produced
  lost,            \* what a request that died in settle left undone for each session
  misdirected      \* sessions an IPN had saved PAID on the val_id of another one

dbVars      == <<sessionStatus, paysFor, appliedAt, targetStatus, ledger>>
requestVars == <<at, ref, voucher, target, loaded>>
history     == <<written, lost, misdirected>>
vars        == <<dbVars, charge, requestVars, history>>

Refs == Sessions \cup {Manual}

\* The places a request can be waiting at: the await it has not come back from.
Places == {"idle", "validating", "mismatched", "notified", "settling", "crediting", "writing",
           "marking", "ending", "cancelling"}

TypeOK ==
  /\ sessionStatus \in [Sessions -> PaymentSessionStatus \cup {None}]
  /\ paysFor \in [Sessions -> Targets \cup {None}]
  /\ appliedAt \in [Sessions -> BOOLEAN]
  /\ targetStatus \in [Targets -> {"AWAITING", "FUNDED", "CANCELLED"}]
  /\ ledger \in [Targets -> [Refs -> Nat]]
  /\ charge \in [Sessions -> {"none", "open", "taken", "short"}]
  /\ at \in [Requests -> Places]
  /\ ref \in [Requests -> Refs \cup {None}]
  /\ voucher \in [Requests -> Sessions \cup {None}]
  /\ target \in [Requests -> Targets \cup {None}]
  /\ loaded \in [Requests -> PaymentSessionStatus \cup {None}]
  /\ written \in [Sessions -> Nat]
  /\ lost \in [Sessions -> {"nothing", "claim", "entry"}]
  /\ misdirected \subseteq Sessions

Init ==
  /\ sessionStatus = [s \in Sessions |-> None]
  /\ paysFor = [s \in Sessions |-> None]
  /\ appliedAt = [s \in Sessions |-> FALSE]
  /\ targetStatus = [t \in Targets |-> "AWAITING"]
  /\ ledger = [t \in Targets |-> [x \in Refs |-> 0]]
  /\ charge = [s \in Sessions |-> "none"]
  /\ at = [r \in Requests |-> "idle"]
  /\ ref = [r \in Requests |-> None]
  /\ voucher = [r \in Requests |-> None]
  /\ target = [r \in Requests |-> None]
  /\ loaded = [r \in Requests |-> None]
  /\ written = [s \in Sessions |-> 0]
  /\ lost = [s \in Sessions |-> "nothing"]
  /\ misdirected = {}

-----------------------------------------------------------------------------
(* Requests *)

\* The request comes back from one await and stops at the next.
Goto(r, place) == at' = [at EXCEPT ![r] = place]

\* A new request for reference x, posted with the val_id of v, for target t, having
\* read session status st.
Begin(r, place, x, v, t, st) ==
  /\ at[r] = "idle"
  /\ Goto(r, place)
  /\ ref' = [ref EXCEPT ![r] = x]
  /\ voucher' = [voucher EXCEPT ![r] = v]
  /\ target' = [target EXCEPT ![r] = t]
  /\ loaded' = [loaded EXCEPT ![r] = st]

\* The response is sent; the request keeps nothing.
Finish(r) ==
  /\ Goto(r, "idle")
  /\ ref' = [ref EXCEPT ![r] = None]
  /\ voucher' = [voucher EXCEPT ![r] = None]
  /\ target' = [target EXCEPT ![r] = None]
  /\ loaded' = [loaded EXCEPT ![r] = None]

\* session.save() writes status only when it differs from what was loaded, and
\* filters on _id alone: whatever was saved in between is overwritten.
SaveStatus(r, st) ==
  sessionStatus' = IF loaded[r] = st
                     THEN sessionStatus
                     ELSE [sessionStatus EXCEPT ![ref[r]] = st]

-----------------------------------------------------------------------------
(* Targets *)

\* An order has no ledger of payments: paidAt and paymentRef say it is paid.
IsOrder(t) == Purpose[t] = "MARKET_ORDER"
PaidAt(t)  == \E x \in Refs : ledger[t][x] > 0

\* describe: `blocked` is undefined, the target can be checked out now.
Payable(t) ==
  /\ IsOrder(t) => ~PaidAt(t)
  /\ targetStatus[t] = "AWAITING"

\* (mutant) The guard of settle, inverted.
StillOwedInverted(t) == IF IsOrder(t) THEN PaidAt(t) ELSE targetStatus[t] # "AWAITING"

\* settle: the guard of each case.  An order's status is not looked at again.
StillOwed(t) == IF IsOrder(t) THEN ~PaidAt(t) ELSE targetStatus[t] = "AWAITING"

\* Milestones are not cancelled, and an order may be cancelled after it is paid.
Cancellable(t) ==
  /\ Purpose[t] # "MILESTONE_ESCROW"
  /\ targetStatus[t] = "AWAITING"

-----------------------------------------------------------------------------
(* The gateway (external) *)

\* The payer pays on the hosted page: the sum asked for, or less.
Charge(s) ==
  /\ charge[s] = "open"
  /\ \E outcome \in {"taken", "short"} :
       charge' = [charge EXCEPT ![s] = outcome]
  /\ UNCHANGED <<dbVars, requestVars, history>>

\* The gateway has a val_id to post once it has dealt with the payer's money.
HasValId(s) == charge[s] \in {"taken", "short"}

\* The sum the validator names for the val_id of v is no less than session s asks for:
\* the whole of v's sum, or a part of it when the payer underpaid.
Covers(v, s) ==
  /\ paysFor[v] \in Targets /\ paysFor[s] \in Targets
  /\ \/ charge[v] = "taken" /\ Price[paysFor[v]] >= Price[paysFor[s]]
     \/ charge[v] = "short" /\ Price[paysFor[v]] > Price[paysFor[s]]

-----------------------------------------------------------------------------
(* POST /api/payments/checkout *)

\* The session row is created, then the gateway is asked for its page.  It gives
\* one, or refuses (the row is saved FAILED).  A server that stops in between leaves
\* what a page nobody pays on leaves.
StartCheckout(s, t) ==
  /\ sessionStatus[s] = None
  /\ Payable(t)
  /\ paysFor' = [paysFor EXCEPT ![s] = t]
  /\ \/ /\ sessionStatus' = [sessionStatus EXCEPT ![s] = "INITIATED"]
        /\ charge' = [charge EXCEPT ![s] = "open"]
     \/ /\ sessionStatus' = [sessionStatus EXCEPT ![s] = "FAILED"]
        /\ UNCHANGED charge
  /\ UNCHANGED <<appliedAt, targetStatus, ledger, requestVars, history>>

-----------------------------------------------------------------------------
(* POST /api/payments/callback/success and /ipn *)

\* Both load the session by its tran_id, answer at once if it is PAID, and ask the
\* validator about the val_id they were posted with, whichever session v it is of.
Confirm(r, place, s, v) ==
  /\ HasValId(v)
  /\ sessionStatus[s] \notin {None, "PAID"}
  /\ Begin(r, place, s, v, None, sessionStatus[s])
  /\ UNCHANGED <<dbVars, charge, history>>

\* (mutant) The success callback compares no tran_ids, as the IPN does not.
ComparesNothing(r, s, v) == Confirm(r, "validating", s, v)

\* The payer's browser comes back from the gateway.  If the val_id is another session's,
\* the tran_id the validator names will not be this one's.
CallbackSuccess(r, s, v) ==
  Confirm(r, IF v = s THEN "validating" ELSE "mismatched", s, v)

\* The gateway calls the server.  Here no tran_ids are compared.
HandleIpn(r, s, v) ==
  Confirm(r, IF v = s THEN "validating" ELSE "notified", s, v)

\* The validator did not vouch for the payment (not VALID, or unreachable), or
\* vouched for less than was owed.
SaveFailed(r) ==
  /\ at[r] \in {"validating", "mismatched", "notified"}
  /\ SaveStatus(r, "FAILED")
  /\ Finish(r)
  /\ UNCHANGED <<paysFor, appliedAt, targetStatus, ledger, charge, history>>

\* callbackSuccess: the validator vouched for another tran_id.  Nothing is saved.
AnswerMismatch(r) ==
  /\ at[r] = "mismatched"
  /\ Finish(r)
  /\ UNCHANGED <<dbVars, charge, history>>

\* (mutant) The sum the validator names is not compared.
AcceptsAnySum(r) == at[r] \in {"validating", "notified"}

\* The validator vouched for the payment and for no less than was owed.
Accepts(r) == at[r] \in {"validating", "notified"} /\ Covers(voucher[r], ref[r])

\* (mutant) The handler forgets to settle.
SavePaidAndAnswer(r) ==
  /\ Accepts(r)
  /\ SaveStatus(r, "PAID")
  /\ Finish(r)
  /\ UNCHANGED <<paysFor, appliedAt, targetStatus, ledger, charge, history>>

\* The validator confirmed the full amount.  What was read and posted is not used again.
SavePaid(r) ==
  /\ Accepts(r)
  /\ SaveStatus(r, "PAID")
  /\ Goto(r, "settling")
  /\ voucher' = [voucher EXCEPT ![r] = None]
  /\ loaded' = [loaded EXCEPT ![r] = None]
  /\ misdirected' = IF at[r] = "notified" THEN misdirected \cup {ref[r]} ELSE misdirected
  /\ UNCHANGED <<paysFor, appliedAt, targetStatus, ledger, charge, ref, target,
                 written, lost>>

-----------------------------------------------------------------------------
(* settle *)

\* (mutant) The session is marked applied without asking that it was not.
ClaimUnconditionally(r) ==
  /\ at[r] = "settling"
  /\ appliedAt' = [appliedAt EXCEPT ![ref[r]] = TRUE]
  /\ Goto(r, "crediting")
  /\ UNCHANGED <<ref, voucher, target, loaded>>
  /\ UNCHANGED <<sessionStatus, paysFor, targetStatus, ledger, charge, history>>

\* (mutant) The claim's result is read the wrong way round.
ClaimInverted(r) ==
  /\ at[r] = "settling"
  /\ Finish(r)
  /\ UNCHANGED <<dbVars, charge, history>>

\* findOneAndUpdate({ appliedAt: null }): the first request sets it and goes on,
\* any other finds it set and answers.
Claim(r) ==
  /\ at[r] = "settling"
  /\ IF appliedAt[ref[r]]
       THEN Finish(r) /\ UNCHANGED <<appliedAt, lost>>
       ELSE /\ appliedAt' = [appliedAt EXCEPT ![ref[r]] = TRUE]
            /\ lost' = [lost EXCEPT ![ref[r]] = "nothing"]
            /\ Goto(r, "crediting")
            /\ UNCHANGED <<ref, voucher, target, loaded>>
  /\ UNCHANGED <<sessionStatus, paysFor, targetStatus, ledger, charge, written, misdirected>>

\* The target is loaded.  If it no longer waits for this payment, settle returns
\* and the session stays applied.
LoadTarget(r) ==
  /\ at[r] = "crediting"
  /\ LET t == paysFor[ref[r]] IN
       IF StillOwed(t)
         THEN /\ Goto(r, "writing")
              /\ target' = [target EXCEPT ![r] = t]
              /\ UNCHANGED <<ref, voucher, loaded>>
         ELSE Finish(r)
  /\ UNCHANGED <<dbVars, charge, history>>

-----------------------------------------------------------------------------
(* Writing a payment down, from settle or from the manual forms *)

\* payments.push adds an entry whatever else was saved meanwhile; an order's
\* single paymentRef is replaced.
Enter(t, x) ==
  ledger' = [ledger EXCEPT ![t] =
               IF IsOrder(t) THEN [y \in Refs |-> IF y = x THEN 1 ELSE 0]
                             ELSE [ledger[t] EXCEPT ![x] = ledger[t][x] + 1]]

\* (mutant) The status is saved and the entry is not.
WriteStatusOnly(r) ==
  /\ at[r] = "writing"
  /\ targetStatus' = [targetStatus EXCEPT ![target[r]] = "FUNDED"]
  /\ Finish(r)
  /\ UNCHANGED <<sessionStatus, paysFor, appliedAt, ledger, charge, history>>

\* A milestone's money is entered in the build contract's ledger first and the
\* milestone is marked by a second save; everything else is one save.
WriteCredit(r) ==
  LET t == target[r]  x == ref[r] IN
  /\ at[r] = "writing"
  /\ Enter(t, x)
  /\ written' = IF x = Manual THEN written ELSE [written EXCEPT ![x] = @ + 1]
  /\ \/ /\ Purpose[t] = "MILESTONE_ESCROW"
        /\ Goto(r, "marking")
        /\ UNCHANGED <<targetStatus, ref, voucher, target, loaded>>
     \/ /\ IsOrder(t)
        /\ Finish(r)
        /\ UNCHANGED targetStatus
     \/ /\ Purpose[t] \notin {"MILESTONE_ESCROW", "MARKET_ORDER"}
        /\ targetStatus' = [targetStatus EXCEPT ![t] = "FUNDED"]
        /\ Finish(r)
  /\ UNCHANGED <<sessionStatus, paysFor, appliedAt, charge, lost, misdirected>>

\* milestone.save() with status FUNDED.
MarkFunded(r) ==
  /\ at[r] = "marking"
  /\ targetStatus' = [targetStatus EXCEPT ![target[r]] = "FUNDED"]
  /\ Finish(r)
  /\ UNCHANGED <<sessionStatus, paysFor, appliedAt, ledger, charge, history>>

-----------------------------------------------------------------------------
(* POST /api/payments/callback/fail and /cancel *)

\* The payer can press cancel, or have a card refused, and still go on to pay on
\* the same page, so these may come at any time after the page was opened.
CallbackEnded(r, s) ==
  /\ charge[s] # "none"
  /\ sessionStatus[s] = "INITIATED"
  /\ Begin(r, "ending", s, None, None, "INITIATED")
  /\ UNCHANGED <<dbVars, charge, history>>

\* (mutant) The gateway's own word is saved as the status.
SaveEndedRaw(r) ==
  /\ at[r] = "ending"
  /\ SaveStatus(r, "UNATTEMPTED")
  /\ Finish(r)
  /\ UNCHANGED <<paysFor, appliedAt, targetStatus, ledger, charge, history>>

SaveEnded(r) ==
  /\ at[r] = "ending"
  /\ \E outcome \in {"CANCELLED", "FAILED"} : SaveStatus(r, outcome)
  /\ Finish(r)
  /\ UNCHANGED <<paysFor, appliedAt, targetStatus, ledger, charge, history>>

-----------------------------------------------------------------------------
(* The same target, paid or cancelled by hand in the other controllers *)

\* The owner records a payment made outside the gateway: the target was read
\* as awaiting it, and WriteCredit follows.
LoadForManual(r, t) ==
  /\ targetStatus[t] = "AWAITING"
  /\ \A u \in Targets : ledger[u][Manual] < MaxManual
  /\ Begin(r, "writing", Manual, None, t, None)
  /\ UNCHANGED <<dbVars, charge, history>>

PayConceptFee(r, t) ==
  Purpose[t] = "CONTRACT_CONCEPT_FEE" /\ LoadForManual(r, t)
FundDesignEscrow(r, t) ==
  Purpose[t] = "CONTRACT_ESCROW" /\ LoadForManual(r, t)
FundStructuralEscrow(r, t) ==
  Purpose[t] = "STRUCTURAL_ESCROW" /\ LoadForManual(r, t)
FundMilestone(r, t) ==
  Purpose[t] = "MILESTONE_ESCROW" /\ LoadForManual(r, t)

PayManually(r, t) ==
  \/ PayConceptFee(r, t)
  \/ FundDesignEscrow(r, t)
  \/ FundStructuralEscrow(r, t)
  \/ FundMilestone(r, t)

LoadForCancel(r, t) ==
  /\ Cancellable(t)
  /\ Begin(r, "cancelling", None, None, t, None)
  /\ UNCHANGED <<dbVars, charge, history>>

CancelContract(r, t) ==
  Purpose[t] \in {"CONTRACT_CONCEPT_FEE", "CONTRACT_ESCROW"} /\ LoadForCancel(r, t)
CancelEngagement(r, t) ==
  Purpose[t] = "STRUCTURAL_ESCROW" /\ LoadForCancel(r, t)
CancelOrder(r, t) ==
  IsOrder(t) /\ LoadForCancel(r, t)

Cancel(r, t) ==
  CancelContract(r, t) \/ CancelEngagement(r, t) \/ CancelOrder(r, t)

\* status = CANCELLED is saved over whatever the status has become.
SaveCancelled(r) ==
  /\ at[r] = "cancelling"
  /\ targetStatus' = [targetStatus EXCEPT ![target[r]] = "CANCELLED"]
  /\ Finish(r)
  /\ UNCHANGED <<sessionStatus, paysFor, appliedAt, ledger, charge, history>>

-----------------------------------------------------------------------------
\* What the death of request r leaves undone for its session: the claim, if nobody has
\* claimed the session, or the ledger entry its own claim was for.
LeavesUndone(r) ==
  IF at[r] = "settling" /\ ~appliedAt[ref[r]] THEN "claim"
  ELSE IF at[r] \in {"crediting", "writing"} THEN "entry"
  ELSE "nothing"

\* A request dies between two of its steps.
Die(r) ==
  /\ CanFail
  /\ at[r] # "idle"
  /\ Finish(r)
  /\ lost' = [s \in Sessions |->
       IF ref[r] = s /\ LeavesUndone(r) # "nothing" THEN LeavesUndone(r) ELSE lost[s]]
  /\ UNCHANGED <<dbVars, charge, written, misdirected>>

\* What a request already under way does next.
Continue(r) ==
  \/ SaveFailed(r)
  \/ AnswerMismatch(r)
  \/ SavePaid(r)
  \/ Claim(r)
  \/ LoadTarget(r)
  \/ WriteCredit(r)
  \/ MarkFunded(r)
  \/ SaveEnded(r)
  \/ SaveCancelled(r)

Next ==
  \/ \E s \in Sessions, t \in Targets : StartCheckout(s, t)
  \/ \E s \in Sessions : Charge(s)
  \/ \E r \in Requests, s, v \in Sessions : CallbackSuccess(r, s, v) \/ HandleIpn(r, s, v)
  \/ \E r \in Requests, s \in Sessions : CallbackEnded(r, s)
  \/ \E r \in Requests, t \in Targets : PayManually(r, t) \/ Cancel(r, t)
  \/ \E r \in Requests : Continue(r) \/ Die(r)

Spec == Init /\ [][Next]_vars

\* A request under way is always resumed: the event loop runs every settled await.
FairSpec == Spec /\ \A r \in Requests : WF_vars(Continue(r))

-----------------------------------------------------------------------------
(* Properties *)

\* Requests working for session s that are past the places in P.
Busy(s, P) == {r \in Requests : ref[r] = s /\ at[r] \in P}

\* The sessions for which the gateway took a payer's money: the full sum in the session
\* itself, or, when an IPN named it beside another one's val_id, a sum there that covers it.
Backed ==
  {s \in Sessions :
     \/ charge[s] = "taken"
     \/ s \in misdirected /\ \E v \in Sessions \ {s} : Covers(v, s)}

\* No session puts money in a ledger twice, however many callbacks and IPNs arrive, in
\* whatever order, with requests dying between their steps; and none does so before the
\* gateway took a payer's money: in the session itself if only its own val_id was posted
\* for it, since handleIpn, unlike callbackSuccess, compares no tran_id.
CreditedOnceIfCharged ==
  \A s \in Sessions :
    /\ written[s] <= 1
    /\ written[s] = 1 => appliedAt[s] /\ s \in Backed

\* What the gateway took from the payer in session s.
Took(s) == IF charge[s] = "taken" THEN "all" ELSE IF charge[s] = "short" THEN "part" ELSE "nothing"

\* The detailed specification keeps the promise of GatewayPromise.
Promise == INSTANCE GatewayPromise WITH
             took     <- [s \in Sessions |-> Took(s)],
             credited <- written
KeepsPromise == Promise!Spec

\* A target is FUNDED only when its ledger holds money for it: the status is
\* never saved ahead of the entry, in one save or in two.
FundedHasMoney ==
  \A t \in Targets : targetStatus[t] = "FUNDED" => PaidAt(t)

\* Once no request works for a PAID session any more, it has been settled, unless one
\* died after saving PAID: it is never resumed, and later notifications are answered
\* "already settled".
PaidMeansSettled ==
  \A s \in Sessions :
    sessionStatus[s] = "PAID" /\ Busy(s, Places) = {} /\ lost[s] # "claim" =>
      appliedAt[s]

\* The money of a settled session reaches the ledger, unless the target was
\* paid or cancelled by someone else in the meantime, or the request that had claimed
\* the session died.
NoMoneyStranded ==
  \A s \in Sessions :
    appliedAt[s] /\ Busy(s, Places) = {} /\ lost[s] # "entry" /\ written[s] = 0 =>
      \/ targetStatus[paysFor[s]] = "CANCELLED"
      \/ \E x \in Refs \ {s} : ledger[paysFor[s]][x] > 0

\* A request that validated a payment settles it, if it is not cut short.
ConfirmedIsSettled ==
  \A r \in Requests, s \in Sessions :
    at[r] = "settling" /\ ref[r] = s ~> appliedAt[s] \/ lost[s] = "claim"
=============================================================================
