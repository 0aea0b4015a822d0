------------------------ MODULE PaymentGatewayProofs ------------------------
(***************************************************************************)
(* Proofs about PaymentGateway, for every set of sessions, targets and     *)
(* requests: type correctness, that a session credits at most once and     *)
(* only after the gateway took the full sum, that money precedes the       *)
(* FUNDED status, that only a request that died leaves a payment           *)
(* unsettled, and that PaymentGateway implements GatewayPromise.           *)
(***************************************************************************)
EXTENDS PaymentGateway, TLAPS

\* Its parts, wherever it is left unchanged.
USE DEF history

(* The inductive invariant *)

\* A session the payer can have paid has a row, and a row names its target.
Opened ==
  \A s \in Sessions :
    /\ charge[s] # "none" => sessionStatus[s] # None
    /\ sessionStatus[s] # None <=> paysFor[s] \in Targets

\* A request holds the references its next step uses.
Routed ==
  \A r \in Requests :
    /\ at[r] \in {"validating", "mismatched", "notified", "settling", "crediting", "ending"} =>
         ref[r] \in Sessions /\ sessionStatus[ref[r]] # None
    /\ at[r] = "validating" => voucher[r] = ref[r]
    /\ at[r] = "notified" => voucher[r] \in Sessions \ {ref[r]}
    /\ at[r] \in {"writing", "marking"} => ref[r] \in Refs /\ target[r] \in Targets
    /\ at[r] = "cancelling" => target[r] \in Targets /\ ref[r] = None

\* A request that saved PAID was shown a charge; past the claim it holds the only right
\* to credit its session.
Claimed ==
  \A r \in Requests :
    /\ at[r] \in {"settling", "crediting"} => ref[r] \in Backed
    /\ at[r] \in {"crediting", "writing"} /\ ref[r] \in Sessions =>
         /\ ref[r] \in Backed
         /\ appliedAt[ref[r]]
         /\ written[ref[r]] = 0

OneClaimant ==
  \A r, q \in Requests :
    /\ at[r] \in {"crediting", "writing"} /\ at[q] \in {"crediting", "writing"}
    /\ ref[r] = ref[q] /\ ref[r] \in Sessions
    => r = q

\* A milestone is marked only after its money was entered.
Marked ==
  /\ \A r \in Requests : at[r] = "marking" =>
       Purpose[target[r]] = "MILESTONE_ESCROW" /\ PaidAt(target[r])
  /\ \A t \in Targets : targetStatus[t] = "FUNDED" => ~IsOrder(t) /\ PaidAt(t)

IInv ==
  /\ TypeOK
  /\ Opened
  /\ Routed
  /\ Claimed
  /\ OneClaimant
  /\ Marked
  /\ CreditedOnceIfCharged

-----------------------------------------------------------------------------

\* What backs a session stays: charges are final, and rows keep their targets.
LEMMA BackedStays ==
  ASSUME misdirected \subseteq misdirected',
         \A z \in Sessions : paysFor[z] \in Targets => paysFor'[z] = paysFor[z],
         \A z \in Sessions : charge[z] \in {"taken", "short"} => charge'[z] = charge[z]
  PROVE  Backed \subseteq Backed'
BY DEF Backed, Covers

LEMMA BackedSame ==
  ASSUME UNCHANGED <<paysFor, charge, misdirected>>
  PROVE  Backed' = Backed
BY DEF Backed, Covers

\* A session that is backed has a row.
LEMMA BackedOpen ==
  ASSUME Opened, NEW s \in Backed
  PROVE  s \in Sessions /\ sessionStatus[s] # None /\ paysFor[s] \in Targets
BY DEF Opened, Backed, Covers

LEMMA InitIInv == Init => IInv
BY GatewayAssumption
   DEF Init, IInv, TypeOK, Opened, Routed, Claimed, OneClaimant, Marked,
       CreditedOnceIfCharged, Places, PaymentSessionStatus, Refs, PaidAt, IsOrder

LEMMA CheckoutIInv ==
  ASSUME IInv, NEW s \in Sessions, NEW t \in Targets, StartCheckout(s, t)
  PROVE  IInv'
<1> USE GatewayAssumption DEF IInv, TypeOK, StartCheckout, requestVars
<1>1. TypeOK'
  <2>1. sessionStatus' \in [Sessions -> PaymentSessionStatus \cup {None}]
    <3>1. PICK st \in PaymentSessionStatus :
            sessionStatus' = [sessionStatus EXCEPT ![s] = st]
      BY DEF PaymentSessionStatus
    <3> QED
      BY <3>1
  <2>2. charge' \in [Sessions -> {"none", "open", "taken", "short"}]
    OBVIOUS
  <2>3. paysFor' \in [Sessions -> Targets \cup {None}]
    OBVIOUS
  <2> QED
    BY <2>1, <2>2, <2>3
<1>2. charge[s] = "none" /\ paysFor[s] \notin Targets
      /\ \A z \in Sessions : z # s => charge'[z] = charge[z] /\ paysFor'[z] = paysFor[z]
                                    /\ sessionStatus'[z] = sessionStatus[z]
  BY DEF Opened
<1>3. Backed \subseteq Backed'
  BY <1>2, BackedStays
<1>4. Opened'
  <2>1. sessionStatus'[s] # None /\ paysFor'[s] = t
    BY DEF PaymentSessionStatus
  <2> QED
    BY <1>2, <2>1 DEF Opened
<1>5. Routed' /\ Claimed' /\ OneClaimant'
  BY <1>2, <1>3 DEF Routed, Claimed, OneClaimant
<1>6. Marked'
  BY DEF Marked, PaidAt, IsOrder
<1>7. CreditedOnceIfCharged'
  BY <1>3 DEF CreditedOnceIfCharged
<1> QED
  BY <1>1, <1>4, <1>5, <1>6, <1>7

LEMMA ChargeIInv ==
  ASSUME IInv, NEW s \in Sessions, Charge(s)
  PROVE  IInv'
<1> USE GatewayAssumption DEF IInv, TypeOK, Charge, dbVars, requestVars
<1>1. TypeOK'
  OBVIOUS
<1>2. Opened'
  BY DEF Opened
<1>6. Backed \subseteq Backed'
  BY BackedStays
<1>3. Routed' /\ Claimed' /\ OneClaimant'
  BY <1>6 DEF Routed, Claimed, OneClaimant
<1>4. Marked'
  BY DEF Marked, PaidAt, IsOrder
<1>5. CreditedOnceIfCharged'
  BY <1>6 DEF CreditedOnceIfCharged
<1> QED
  BY <1>1, <1>2, <1>3, <1>4, <1>5

LEMMA ConfirmIInv ==
  ASSUME IInv, NEW r \in Requests, NEW s \in Sessions, NEW v \in Sessions,
         NEW place \in {"validating", "mismatched", "notified"}, Confirm(r, place, s, v),
         place = "validating" => v = s, place = "notified" => v # s
  PROVE  IInv'
<1> USE GatewayAssumption, BackedSame DEF IInv, TypeOK, Confirm, HasValId, Begin, Goto, dbVars
<1>1. TypeOK'
  BY DEF Places, Refs
<1>2. Opened'
  BY DEF Opened
<1>3. Routed' /\ Claimed' /\ OneClaimant'
  BY DEF Routed, Claimed, OneClaimant
<1>4. Marked'
  BY DEF Marked, PaidAt, IsOrder
<1>5. CreditedOnceIfCharged'
  BY DEF CreditedOnceIfCharged
<1> QED
  BY <1>1, <1>2, <1>3, <1>4, <1>5

\* Any other session, callback or manual form a request may start with.
LEMMA BeginIInv ==
  ASSUME IInv, NEW r \in Requests,
         NEW place \in {"ending", "writing", "cancelling"},
         NEW x \in Refs \cup {None}, NEW t \in Targets \cup {None},
         NEW st \in PaymentSessionStatus \cup {None},
         Begin(r, place, x, None, t, st),
         UNCHANGED <<dbVars, charge, history>>,
         place = "ending" => x \in Sessions /\ sessionStatus[x] # None,
         place = "writing" => x = Manual /\ t \in Targets,
         place = "cancelling" => t \in Targets /\ x = None
  PROVE  IInv'
<1> USE GatewayAssumption, BackedSame DEF IInv, TypeOK, Begin, Goto, dbVars
<1>1. TypeOK'
  BY DEF Places, Refs
<1>2. Opened'
  BY DEF Opened
<1>3. Routed' /\ Claimed' /\ OneClaimant'
  BY DEF Routed, Claimed, OneClaimant, Refs
<1>4. Marked'
  BY DEF Marked, PaidAt, IsOrder
<1>5. CreditedOnceIfCharged'
  BY DEF CreditedOnceIfCharged
<1> QED
  BY <1>1, <1>2, <1>3, <1>4, <1>5

\* A request that answers leaves the other requests as they were.
LEMMA FinishRequests ==
  ASSUME TypeOK, NEW r \in Requests, Finish(r)
  PROVE  /\ at' \in [Requests -> Places]
         /\ ref' \in [Requests -> Refs \cup {None}]
         /\ voucher' \in [Requests -> Sessions \cup {None}]
         /\ target' \in [Requests -> Targets \cup {None}]
         /\ loaded' \in [Requests -> PaymentSessionStatus \cup {None}]
         /\ at'[r] = "idle"
         /\ \A q \in Requests : q # r =>
              /\ at'[q] = at[q] /\ ref'[q] = ref[q]
              /\ voucher'[q] = voucher[q] /\ target'[q] = target[q]
BY DEF TypeOK, Finish, Goto, Places

\* Saving a status keeps the row: it never goes back to None.
LEMMA SaveStatusType ==
  ASSUME TypeOK, NEW r \in Requests, ref[r] \in Sessions,
         NEW st \in PaymentSessionStatus, SaveStatus(r, st)
  PROVE  /\ sessionStatus' \in [Sessions -> PaymentSessionStatus \cup {None}]
         /\ sessionStatus[ref[r]] # None =>
              \A s \in Sessions : sessionStatus[s] # None <=> sessionStatus'[s] # None
BY GatewayAssumption DEF TypeOK, SaveStatus

LEMMA SaveAndFinishIInv ==
  ASSUME IInv, NEW r \in Requests, ref[r] \in Sessions, sessionStatus[ref[r]] # None,
         NEW st \in PaymentSessionStatus, SaveStatus(r, st), Finish(r),
         UNCHANGED <<paysFor, appliedAt, targetStatus, ledger, charge, history>>
  PROVE  IInv'
<1> USE GatewayAssumption, FinishRequests, BackedSame, SaveStatusType DEF IInv
<1>1. TypeOK'
  BY DEF TypeOK
<1>2. Opened'
  BY DEF Opened
<1>3. Routed' /\ Claimed' /\ OneClaimant'
  BY DEF Routed, Claimed, OneClaimant
<1>4. Marked'
  BY DEF Marked, PaidAt, IsOrder
<1>5. CreditedOnceIfCharged'
  BY DEF CreditedOnceIfCharged
<1> QED
  BY <1>1, <1>2, <1>3, <1>4, <1>5

LEMMA SavePaidIInv ==
  ASSUME IInv, NEW r \in Requests, SavePaid(r)
  PROVE  IInv'
<1> USE GatewayAssumption DEF IInv, SavePaid, Accepts
<1>1. /\ at[r] \in {"validating", "notified"} /\ ref[r] \in Sessions /\ voucher[r] \in Sessions
      /\ at[r] = "notified" <=> voucher[r] # ref[r]
      /\ sessionStatus[ref[r]] # None /\ Covers(voucher[r], ref[r])
  BY DEF Routed
<1>2. /\ sessionStatus' \in [Sessions -> PaymentSessionStatus \cup {None}]
      /\ \A s \in Sessions : sessionStatus[s] # None <=> sessionStatus'[s] # None
  BY <1>1, SaveStatusType DEF PaymentSessionStatus
<1>3. TypeOK'
  BY <1>1, <1>2 DEF TypeOK, Goto, Places
<1>4. Opened'
  BY <1>2 DEF Opened
<1>5. Backed \subseteq Backed'
  BY BackedStays
<1>6. ref[r] \in Backed'
  <2>1. CASE voucher[r] = ref[r]
    <3>1. charge[ref[r]] = "taken"
      BY <1>1, <2>1 DEF Covers, TypeOK
    <3> QED
      BY <1>1, <3>1 DEF Backed
  <2>2. CASE voucher[r] # ref[r]
    <3>1. ref[r] \in misdirected' /\ Covers(voucher[r], ref[r])
      BY <1>1, <2>2
    <3> QED
      BY <1>1, <2>2, <3>1 DEF Backed, Covers
  <2> QED
    BY <2>1, <2>2
<1>7. Routed' /\ Claimed' /\ OneClaimant'
  BY <1>1, <1>2, <1>5, <1>6 DEF Routed, Claimed, OneClaimant, Goto, TypeOK
<1>8. Marked'
  BY <1>1 DEF Marked, PaidAt, IsOrder, Goto, TypeOK
<1>9. CreditedOnceIfCharged'
  BY <1>5 DEF CreditedOnceIfCharged
<1> QED
  BY <1>3, <1>4, <1>7, <1>8, <1>9

\* A session nobody has claimed has credited nothing.
LEMMA UnclaimedUncredited ==
  ASSUME TypeOK, CreditedOnceIfCharged, NEW s \in Sessions, ~appliedAt[s]
  PROVE  written[s] = 0
<1>1. written[s] \in Nat /\ written[s] <= 1 /\ written[s] # 1
  BY DEF TypeOK, CreditedOnceIfCharged
<1> QED
  BY <1>1

LEMMA ClaimIInv ==
  ASSUME IInv, NEW r \in Requests, Claim(r)
  PROVE  IInv'
<1> USE GatewayAssumption, BackedSame DEF IInv
<1>1. ref[r] \in Sessions /\ ref[r] \in Backed
  BY DEF Routed, Claimed, Claim
<1>2. CASE appliedAt[ref[r]]
  <2> USE <1>2, FinishRequests DEF Claim
  <2>1. TypeOK'
    BY DEF TypeOK
  <2>2. Opened'
    BY DEF Opened
  <2>3. Routed' /\ Claimed' /\ OneClaimant'
    BY DEF Routed, Claimed, OneClaimant
  <2>4. Marked'
    BY DEF Marked, PaidAt, IsOrder
  <2>5. CreditedOnceIfCharged'
    BY DEF CreditedOnceIfCharged
  <2> QED
    BY <2>1, <2>2, <2>3, <2>4, <2>5
<1>3. CASE ~appliedAt[ref[r]]
  <2> USE <1>1, <1>3 DEF Claim, Goto
  <2>1. TypeOK'
    <3>1. /\ appliedAt' \in [Sessions -> BOOLEAN] /\ at' \in [Requests -> Places]
          /\ lost' \in [Sessions -> {"nothing", "claim", "entry"}]
      BY DEF TypeOK, Places
    <3> QED
      BY <3>1 DEF TypeOK
  <2>2. Opened'
    BY DEF Opened
  <2>3. Routed'
    BY DEF Routed, TypeOK
  <2>4. written[ref[r]] = 0
    BY UnclaimedUncredited
  <2>5. \A q \in Requests :
          at[q] \in {"crediting", "writing"} /\ ref[q] \in Sessions => ref[q] # ref[r]
    BY DEF Claimed
  <2>6. Claimed' /\ OneClaimant'
    BY <2>4, <2>5 DEF Claimed, OneClaimant, TypeOK, Routed
  <2>7. Marked'
    BY DEF Marked, PaidAt, IsOrder, TypeOK
  <2>8. CreditedOnceIfCharged'
    BY DEF CreditedOnceIfCharged, TypeOK
  <2> QED
    BY <2>1, <2>2, <2>3, <2>6, <2>7, <2>8
<1> QED
  BY <1>2, <1>3

LEMMA LoadTargetIInv ==
  ASSUME IInv, NEW r \in Requests, LoadTarget(r)
  PROVE  IInv'
<1> USE GatewayAssumption, BackedSame DEF IInv, LoadTarget, dbVars
<1> DEFINE t == paysFor[ref[r]]
<1>1. ref[r] \in Sessions /\ t \in Targets
  BY DEF Routed, Opened
<1>2. CASE StillOwed(t)
  <2> USE <1>1, <1>2 DEF Goto
  <2>1. TypeOK'
    BY DEF TypeOK, Places
  <2>2. Opened'
    BY DEF Opened
  <2>3. Routed' /\ Claimed' /\ OneClaimant'
    BY DEF Routed, Claimed, OneClaimant, TypeOK, Refs
  <2>4. Marked'
    BY DEF Marked, PaidAt, IsOrder, TypeOK
  <2>5. CreditedOnceIfCharged'
    BY DEF CreditedOnceIfCharged
  <2> QED
    BY <2>1, <2>2, <2>3, <2>4, <2>5
<1>3. CASE ~StillOwed(t)
  <2> USE <1>3, FinishRequests
  <2>1. TypeOK'
    BY DEF TypeOK
  <2>2. Opened'
    BY DEF Opened
  <2>3. Routed' /\ Claimed' /\ OneClaimant'
    BY DEF Routed, Claimed, OneClaimant
  <2>4. Marked'
    BY DEF Marked, PaidAt, IsOrder
  <2>5. CreditedOnceIfCharged'
    BY DEF CreditedOnceIfCharged
  <2> QED
    BY <2>1, <2>2, <2>3, <2>4, <2>5
<1> QED
  BY <1>2, <1>3

\* An entry is never lost from the ledger of a contract or an engagement, and
\* the target written to has one afterwards.
LEMMA EnterPays ==
  ASSUME TypeOK, NEW t \in Targets, NEW x \in Refs, Enter(t, x)
  PROVE  /\ ledger' \in [Targets -> [Refs -> Nat]]
         /\ PaidAt(t)'
         /\ \A u \in Targets : PaidAt(u) => PaidAt(u)'
<1> DEFINE new == IF IsOrder(t) THEN [y \in Refs |-> IF y = x THEN 1 ELSE 0]
                                ELSE [ledger[t] EXCEPT ![x] = ledger[t][x] + 1]
<1>1. ledger \in [Targets -> [Refs -> Nat]] /\ ledger[t] \in [Refs -> Nat]
  BY DEF TypeOK
<1>2. ledger' = [ledger EXCEPT ![t] = new]
  BY DEF Enter
<1>3. new \in [Refs -> Nat] /\ new[x] > 0
  <2>1. CASE IsOrder(t)
    BY <2>1
  <2>2. CASE ~IsOrder(t)
    <3>1. new = [ledger[t] EXCEPT ![x] = ledger[t][x] + 1] /\ ledger[t][x] \in Nat
      BY <1>1, <2>2
    <3> QED
      BY <1>1, <3>1
  <2> QED
    BY <2>1, <2>2
<1> HIDE DEF new
<1>4. ledger' \in [Targets -> [Refs -> Nat]] /\ ledger'[t] = new
  BY <1>1, <1>2, <1>3
<1>5. \A u \in Targets : u # t => ledger'[u] = ledger[u]
  BY <1>1, <1>2
<1> QED
  BY <1>3, <1>4, <1>5 DEF PaidAt

LEMMA WriteCreditIInv ==
  ASSUME IInv, NEW r \in Requests, WriteCredit(r)
  PROVE  IInv'
<1> USE GatewayAssumption, BackedSame DEF IInv
<1> DEFINE t == target[r]
           x == ref[r]
<1>1. x \in Refs /\ t \in Targets /\ at[r] = "writing"
  BY DEF Routed, WriteCredit
<1>2. /\ ledger' \in [Targets -> [Refs -> Nat]]
      /\ \E y \in Refs : ledger'[t][y] > 0
      /\ \A u \in Targets : PaidAt(u) => \E y \in Refs : ledger'[u][y] > 0
  BY <1>1, EnterPays DEF WriteCredit, PaidAt
<1>3. /\ written' \in [Sessions -> Nat]
      /\ \A s \in Sessions : s # x => written'[s] = written[s]
      /\ x \in Sessions => written'[x] = 1
  BY <1>1 DEF WriteCredit, TypeOK, Refs, Claimed
<1>4. /\ at' \in [Requests -> Places]
      /\ ref' \in [Requests -> Refs \cup {None}]
      /\ voucher' \in [Requests -> Sessions \cup {None}]
      /\ target' \in [Requests -> Targets \cup {None}]
      /\ loaded' \in [Requests -> PaymentSessionStatus \cup {None}]
      /\ \A q \in Requests : q # r =>
           /\ at'[q] = at[q] /\ ref'[q] = ref[q]
           /\ voucher'[q] = voucher[q] /\ target'[q] = target[q]
      /\ \/ at'[r] = "idle"
         \/ /\ at'[r] = "marking" /\ Purpose[t] = "MILESTONE_ESCROW"
            /\ ref'[r] = x /\ target'[r] = t
  <2>1. CASE Finish(r)
    BY <2>1, FinishRequests
  <2>2. CASE Purpose[t] = "MILESTONE_ESCROW" /\ Goto(r, "marking")
             /\ UNCHANGED <<targetStatus, ref, voucher, target, loaded>>
    BY <2>2 DEF Goto, TypeOK, Places
  <2> QED
    BY <2>1, <2>2 DEF WriteCredit
<1>5. \/ UNCHANGED targetStatus
      \/ /\ targetStatus' = [targetStatus EXCEPT ![t] = "FUNDED"]
         /\ Purpose[t] # "MARKET_ORDER"
  BY DEF WriteCredit
<1>6. UNCHANGED <<sessionStatus, paysFor, appliedAt, charge, lost, misdirected>>
  BY DEF WriteCredit
<1> HIDE DEF t, x
<1>7. TypeOK'
  BY <1>1, <1>2, <1>3, <1>4, <1>5, <1>6 DEF TypeOK
<1>8. Opened'
  BY <1>6 DEF Opened
<1>9. Routed'
  BY <1>1, <1>4, <1>6 DEF Routed
<1>10. Claimed' /\ OneClaimant'
  <2>1. \A q \in Requests : q # r /\ at[q] \in {"crediting", "writing"}
                            /\ ref[q] \in Sessions => ref[q] # x
    BY <1>1 DEF OneClaimant, x
  <2> QED
    BY <1>3, <1>4, <1>6, <2>1 DEF Claimed, OneClaimant
<1>11. Marked'
  <2>1. \A q \in Requests : at'[q] = "marking" =>
          /\ Purpose[target'[q]] = "MILESTONE_ESCROW"
          /\ \E y \in Refs : ledger'[target'[q]][y] > 0
    <3> SUFFICES ASSUME NEW q \in Requests, at'[q] = "marking"
                 PROVE  /\ Purpose[target'[q]] = "MILESTONE_ESCROW"
                        /\ \E y \in Refs : ledger'[target'[q]][y] > 0
      OBVIOUS
    <3>1. CASE q = r
      BY <1>2, <1>4, <3>1
    <3>2. CASE q # r
      BY <1>2, <1>4, <3>2 DEF Marked, Routed
    <3> QED
      BY <3>1, <3>2
  <2>2. \A u \in Targets : targetStatus'[u] = "FUNDED" =>
          ~IsOrder(u) /\ \E y \in Refs : ledger'[u][y] > 0
    BY <1>1, <1>2, <1>5 DEF Marked, IsOrder, TypeOK
  <2> QED
    BY <2>1, <2>2 DEF Marked, PaidAt, IsOrder
<1>12. CreditedOnceIfCharged'
  <2>1. x \in Sessions => x \in Backed /\ appliedAt[x]
    BY <1>1 DEF Claimed, x
  <2> QED
    BY <1>3, <1>6, <2>1 DEF CreditedOnceIfCharged
<1> QED
  BY <1>7, <1>8, <1>9, <1>10, <1>11, <1>12

LEMMA MarkFundedIInv ==
  ASSUME IInv, NEW r \in Requests, MarkFunded(r)
  PROVE  IInv'
<1> USE GatewayAssumption, FinishRequests, BackedSame DEF IInv, MarkFunded
<1>1. /\ target[r] \in Targets
      /\ Purpose[target[r]] = "MILESTONE_ESCROW"
      /\ PaidAt(target[r])
  BY DEF Routed, Marked
<1>2. TypeOK'
  BY DEF TypeOK
<1>3. Opened'
  BY DEF Opened
<1>4. Routed' /\ Claimed' /\ OneClaimant'
  BY DEF Routed, Claimed, OneClaimant
<1>5. Marked'
  <2>1. UNCHANGED ledger
    OBVIOUS
  <2>2. \A q \in Requests : at'[q] = "marking" => q # r
    BY DEF IInv
  <2>3. \A u \in Targets : targetStatus'[u] = "FUNDED" =>
          targetStatus[u] = "FUNDED" \/ u = target[r]
    BY <1>1 DEF TypeOK
  <2> QED
    BY <1>1, <2>1, <2>2, <2>3 DEF Marked, PaidAt, IsOrder
<1>6. CreditedOnceIfCharged'
  BY DEF CreditedOnceIfCharged
<1> QED
  BY <1>2, <1>3, <1>4, <1>5, <1>6

LEMMA SaveCancelledIInv ==
  ASSUME IInv, NEW r \in Requests, SaveCancelled(r)
  PROVE  IInv'
<1> USE GatewayAssumption, FinishRequests, BackedSame DEF IInv, SaveCancelled
<1>1. target[r] \in Targets
  BY DEF Routed
<1>2. TypeOK'
  BY <1>1 DEF TypeOK
<1>3. Opened'
  BY DEF Opened
<1>4. Routed' /\ Claimed' /\ OneClaimant'
  BY DEF Routed, Claimed, OneClaimant
<1>5. Marked'
  <2>1. UNCHANGED ledger
    OBVIOUS
  <2>2. \A q \in Requests : at'[q] = "marking" => q # r
    BY DEF IInv
  <2>3. \A u \in Targets : targetStatus'[u] = "FUNDED" =>
          targetStatus[u] = "FUNDED"
    BY <1>1 DEF TypeOK
  <2> QED
    BY <1>1, <2>1, <2>2, <2>3 DEF Marked, PaidAt, IsOrder
<1>6. CreditedOnceIfCharged'
  BY DEF CreditedOnceIfCharged
<1> QED
  BY <1>2, <1>3, <1>4, <1>5, <1>6

LEMMA DieIInv ==
  ASSUME IInv, NEW r \in Requests, Die(r)
  PROVE  IInv'
<1> USE FinishRequests, BackedSame DEF IInv, Die, dbVars
<1>1. TypeOK'
  <2>1. LeavesUndone(r) \in {"nothing", "claim", "entry"}
    BY DEF LeavesUndone
  <2>2. lost' \in [Sessions -> {"nothing", "claim", "entry"}]
    BY <2>1 DEF TypeOK
  <2> QED
    BY <2>2 DEF TypeOK
<1>2. Opened'
  BY DEF Opened
<1>3. Routed' /\ Claimed' /\ OneClaimant'
  BY DEF Routed, Claimed, OneClaimant
<1>4. Marked'
  BY DEF Marked, PaidAt, IsOrder
<1>5. CreditedOnceIfCharged'
  BY DEF CreditedOnceIfCharged
<1> QED
  BY <1>1, <1>2, <1>3, <1>4, <1>5

LEMMA AnswerIInv ==
  ASSUME IInv, NEW r \in Requests, AnswerMismatch(r)
  PROVE  IInv'
<1> USE FinishRequests, BackedSame DEF IInv, AnswerMismatch, dbVars
<1>1. TypeOK'
  BY DEF TypeOK
<1>2. Opened'
  BY DEF Opened
<1>3. Routed' /\ Claimed' /\ OneClaimant'
  BY DEF Routed, Claimed, OneClaimant
<1>4. Marked'
  BY DEF Marked, PaidAt, IsOrder
<1>5. CreditedOnceIfCharged'
  BY DEF CreditedOnceIfCharged
<1> QED
  BY <1>1, <1>2, <1>3, <1>4, <1>5

LEMMA ContinueIInv ==
  ASSUME IInv, NEW r \in Requests, Continue(r)
  PROVE  IInv'
<1>1. CASE SaveFailed(r)
  BY <1>1, SaveAndFinishIInv DEF SaveFailed, IInv, Routed, PaymentSessionStatus
<1>2. CASE SavePaid(r)
  BY <1>2, SavePaidIInv
<1>3. CASE Claim(r)
  BY <1>3, ClaimIInv
<1>4. CASE LoadTarget(r)
  BY <1>4, LoadTargetIInv
<1>5. CASE WriteCredit(r)
  BY <1>5, WriteCreditIInv
<1>6. CASE MarkFunded(r)
  BY <1>6, MarkFundedIInv
<1>7. CASE SaveEnded(r)
  BY <1>7, SaveAndFinishIInv DEF SaveEnded, IInv, Routed, PaymentSessionStatus
<1>8. CASE SaveCancelled(r)
  BY <1>8, SaveCancelledIInv
<1>9. CASE AnswerMismatch(r)
  BY <1>9, AnswerIInv
<1> QED
  BY <1>1, <1>2, <1>3, <1>4, <1>5, <1>6, <1>7, <1>8, <1>9 DEF Continue

LEMMA NextIInv == IInv /\ [Next]_vars => IInv'
<1> SUFFICES ASSUME IInv, [Next]_vars
             PROVE  IInv'
  OBVIOUS
<1>1. ASSUME NEW s \in Sessions, NEW t \in Targets, StartCheckout(s, t)
      PROVE  IInv'
  BY <1>1, CheckoutIInv
<1>2. ASSUME NEW s \in Sessions, Charge(s)
      PROVE  IInv'
  BY <1>2, ChargeIInv
<1>3. ASSUME NEW r \in Requests, NEW s \in Sessions, NEW v \in Sessions,
             CallbackSuccess(r, s, v) \/ HandleIpn(r, s, v)
      PROVE  IInv'
  BY <1>3, ConfirmIInv DEF CallbackSuccess, HandleIpn
<1>4. ASSUME NEW r \in Requests, NEW s \in Sessions, CallbackEnded(r, s)
      PROVE  IInv'
  BY <1>4, GatewayAssumption, BeginIInv DEF CallbackEnded, PaymentSessionStatus, Refs
<1>5. ASSUME NEW r \in Requests, NEW t \in Targets, PayManually(r, t)
      PROVE  IInv'
  <2>1. LoadForManual(r, t)
    BY <1>5 DEF PayManually, PayConceptFee, FundDesignEscrow,
                FundStructuralEscrow, FundMilestone
  <2> QED
    BY <2>1, BeginIInv DEF LoadForManual, Refs
<1>6. ASSUME NEW r \in Requests, NEW t \in Targets, Cancel(r, t)
      PROVE  IInv'
  <2>1. LoadForCancel(r, t)
    BY <1>6 DEF Cancel, CancelContract, CancelEngagement, CancelOrder
  <2> QED
    BY <2>1, BeginIInv DEF LoadForCancel
<1>7. ASSUME NEW r \in Requests, Continue(r) \/ Die(r)
      PROVE  IInv'
  BY <1>7, ContinueIInv, DieIInv
<1>8. CASE UNCHANGED vars
  BY <1>8, BackedSame DEF IInv, TypeOK, Opened, Routed, Claimed, OneClaimant, Marked, PaidAt,
              CreditedOnceIfCharged, vars, dbVars, requestVars
<1> QED
  BY <1>1, <1>2, <1>3, <1>4, <1>5, <1>6, <1>7, <1>8 DEF Next

-----------------------------------------------------------------------------

LEMMA Invariance == Spec => []IInv
BY InitIInv, NextIInv, PTL DEF Spec

\* Every variable keeps its type, whatever requests arrive or die.
THEOREM TypeCorrect == Spec => []TypeOK
<1>1. IInv => TypeOK
  BY DEF IInv
<1> QED
  BY Invariance, <1>1, PTL

\* settle credits a session at most once, and only when the gateway took the
\* full sum: for any number of callbacks, IPNs, sessions and dying requests.
THEOREM CreditOnce == Spec => []CreditedOnceIfCharged
<1>1. IInv => CreditedOnceIfCharged
  BY DEF IInv
<1> QED
  BY Invariance, <1>1, PTL

\* The FUNDED status never precedes the money: settle and the manual forms
\* enter the payment first, in one save or in two.
THEOREM MoneyBeforeFunded == Spec => []FundedHasMoney
<1>1. IInv => FundedHasMoney
  BY DEF IInv, Marked, FundedHasMoney
<1> QED
  BY Invariance, <1>1, PTL

-----------------------------------------------------------------------------
(* Nothing is left behind but by a request that died *)

\* What a session put in a ledger is counted, and only sessions that are backed are claimed.
Recorded ==
  \A s \in Sessions :
    /\ \A t \in Targets : ledger[t][s] > 0 => written[s] > 0
    /\ appliedAt[s] => s \in Backed
    /\ lost[s] = "entry" => appliedAt[s]

\* The target of session s was paid or cancelled by someone else.
Elsewhere(s) ==
  \/ targetStatus[paysFor[s]] = "CANCELLED"
  \/ \E x \in Refs \ {s} : ledger[paysFor[s]][x] > 0

\* Whoever saved PAID is still to claim, and whoever claimed is still to write, or died.
Owed ==
  \A s \in Sessions :
    /\ sessionStatus[s] = "PAID" /\ ~appliedAt[s] /\ lost[s] # "claim" =>
         \E r \in Requests : at[r] = "settling" /\ ref[r] = s
    /\ appliedAt[s] /\ written[s] = 0 /\ lost[s] # "entry" =>
         Elsewhere(s) \/ \E r \in Requests : at[r] \in {"crediting", "writing"} /\ ref[r] = s

SInv == IInv /\ Recorded /\ Owed

\* A request that owes nothing comes, or goes.
LEMMA OwesNothing ==
  ASSUME SInv, NEW r \in Requests, at[r] \notin {"settling", "crediting", "writing"},
         \A q \in Requests \ {r} : at'[q] = at[q] /\ ref'[q] = ref[q],
         UNCHANGED <<paysFor, appliedAt, targetStatus, ledger, charge, history>>,
         \A s \in Sessions : sessionStatus'[s] = "PAID" => sessionStatus[s] = "PAID"
  PROVE  Recorded' /\ Owed'
BY BackedSame DEF SInv, Recorded, Owed, Elsewhere

LEMMA BeginKeeps ==
  ASSUME SInv, NEW r \in Requests, NEW place, NEW x, NEW v, NEW t, NEW st,
         Begin(r, place, x, v, t, st),
         UNCHANGED <<dbVars, charge, history>>
  PROVE  Recorded' /\ Owed'
<1>1. /\ at[r] \notin {"settling", "crediting", "writing"}
      /\ \A q \in Requests \ {r} : at'[q] = at[q] /\ ref'[q] = ref[q]
  BY DEF Begin, Goto, SInv, IInv, TypeOK
<1> QED
  BY <1>1, OwesNothing DEF dbVars

LEMMA SaveKeeps ==
  ASSUME SInv, NEW r \in Requests, at[r] \in {"validating", "mismatched", "notified", "ending"},
         NEW st \in PaymentSessionStatus,
         st # "PAID", SaveStatus(r, st), Finish(r),
         UNCHANGED <<paysFor, appliedAt, targetStatus, ledger, charge, history>>
  PROVE  Recorded' /\ Owed'
<1>1. \A s \in Sessions : sessionStatus'[s] = "PAID" => sessionStatus[s] = "PAID"
  BY DEF SaveStatus, SInv, IInv, TypeOK, Routed
<1>2. \A q \in Requests \ {r} : at'[q] = at[q] /\ ref'[q] = ref[q]
  BY FinishRequests DEF SInv, IInv
<1> QED
  BY <1>1, <1>2, OwesNothing

LEMMA CheckoutKeeps ==
  ASSUME SInv, NEW s \in Sessions, NEW t \in Targets, StartCheckout(s, t)
  PROVE  Recorded' /\ Owed'
<1> USE GatewayAssumption DEF SInv, IInv
<1>1. /\ UNCHANGED <<appliedAt, targetStatus, ledger, at, ref, history>>
      /\ \A z \in Sessions \ {s} : /\ sessionStatus'[z] = sessionStatus[z]
                                   /\ charge'[z] = charge[z] /\ paysFor'[z] = paysFor[z]
      /\ sessionStatus'[s] # "PAID"
      /\ sessionStatus[s] = None
  BY DEF StartCheckout, requestVars, TypeOK
<1>2. charge[s] = "none" /\ paysFor[s] \notin Targets
  BY <1>1 DEF Opened
<1>3. ~appliedAt[s]
  BY <1>1, BackedOpen DEF Recorded
<1>4. Backed \subseteq Backed'
  BY <1>1, <1>2, BackedStays
<1> QED
  BY <1>1, <1>3, <1>4 DEF Recorded, Owed, Elsewhere

LEMMA ChargeKeeps ==
  ASSUME SInv, NEW s \in Sessions, Charge(s)
  PROVE  Recorded' /\ Owed'
<1>1. UNCHANGED <<sessionStatus, paysFor, appliedAt, targetStatus, ledger, at, ref, history>>
  BY DEF Charge, dbVars, requestVars
<1>2. \A z \in Sessions : charge[z] \in {"taken", "short"} => charge'[z] = charge[z]
  BY DEF Charge, SInv, IInv, TypeOK
<1>3. Backed \subseteq Backed'
  BY <1>1, <1>2, BackedStays
<1> QED
  BY <1>1, <1>3 DEF SInv, Recorded, Owed, Elsewhere

LEMMA SavePaidKeeps ==
  ASSUME SInv, NEW r \in Requests, SavePaid(r)
  PROVE  Recorded' /\ Owed'
<1> USE DEF SInv, IInv
<1>1. /\ at'[r] = "settling" /\ ref' = ref /\ \A q \in Requests \ {r} : at'[q] = at[q]
      /\ at[r] \in {"validating", "notified"} /\ ref[r] \in Sessions
  BY DEF SavePaid, Accepts, Goto, TypeOK, Routed
<1>2. \A s \in Sessions \ {ref[r]} : sessionStatus'[s] = sessionStatus[s]
  BY <1>1 DEF SavePaid, SaveStatus, TypeOK
<1>3. Backed \subseteq Backed'
  BY BackedStays DEF SavePaid
<1> QED
  BY <1>1, <1>2, <1>3 DEF SavePaid, Recorded, Owed, Elsewhere

LEMMA ClaimKeeps ==
  ASSUME SInv, NEW r \in Requests, Claim(r)
  PROVE  Recorded' /\ Owed'
<1> USE BackedSame DEF SInv, IInv
<1>1. /\ at[r] = "settling" /\ ref[r] \in Sessions /\ ref[r] \in Backed
      /\ \A q \in Requests \ {r} : at'[q] = at[q] /\ ref'[q] = ref[q]
      /\ UNCHANGED <<sessionStatus, paysFor, targetStatus, ledger, charge, written, misdirected>>
  BY FinishRequests DEF Claim, Goto, Routed, Claimed, TypeOK
<1>2. CASE appliedAt[ref[r]]
  BY <1>1, <1>2 DEF Claim, Recorded, Owed, Elsewhere
<1>3. CASE ~appliedAt[ref[r]]
  <2>1. /\ at'[r] = "crediting" /\ ref'[r] = ref[r] /\ appliedAt'[ref[r]]
        /\ \A s \in Sessions \ {ref[r]} : appliedAt'[s] = appliedAt[s] /\ lost'[s] = lost[s]
    BY <1>1, <1>3 DEF Claim, Goto, TypeOK
  <2> QED
    BY <1>1, <2>1 DEF Recorded, Owed, Elsewhere
<1> QED
  BY <1>2, <1>3

\* Money in a ledger to which session s added nothing is someone else's.
LEMMA PaidElsewhere ==
  ASSUME SInv, NEW s \in Sessions, written[s] = 0, NEW t \in Targets, PaidAt(t)
  PROVE  \E x \in Refs \ {s} : ledger[t][x] > 0
BY DEF SInv, Recorded, PaidAt

LEMMA LoadTargetKeeps ==
  ASSUME SInv, NEW r \in Requests, LoadTarget(r)
  PROVE  Recorded' /\ Owed'
<1> USE BackedSame DEF SInv, IInv
<1> DEFINE s == ref[r]
           t == paysFor[s]
<1>1. /\ at[r] = "crediting" /\ s \in Sessions /\ t \in Targets /\ written[s] = 0
      /\ \A q \in Requests \ {r} : at'[q] = at[q] /\ ref'[q] = ref[q]
      /\ UNCHANGED <<dbVars, charge, history>>
  BY FinishRequests DEF LoadTarget, Goto, Routed, Claimed, Opened, TypeOK
<1>2. CASE StillOwed(t)
  <2>1. at'[r] = "writing" /\ ref'[r] = s
    BY <1>1, <1>2 DEF LoadTarget, Goto, TypeOK
  <2> QED
    BY <1>1, <2>1 DEF dbVars, Recorded, Owed, Elsewhere
<1>3. CASE ~StillOwed(t)
  <2>1. targetStatus[t] = "CANCELLED" \/ PaidAt(t)
    BY <1>1, <1>3 DEF StillOwed, Marked, TypeOK
  <2>2. Elsewhere(s)
    BY <1>1, <2>1, PaidElsewhere DEF Elsewhere
  <2> QED
    BY <1>1, <2>2 DEF dbVars, Recorded, Owed, Elsewhere
<1> QED
  BY <1>2, <1>3

LEMMA WriteCreditKeeps ==
  ASSUME SInv, NEW r \in Requests, WriteCredit(r)
  PROVE  Recorded' /\ Owed'
<1> USE GatewayAssumption, BackedSame DEF SInv, IInv
<1> DEFINE t == target[r]
           x == ref[r]
<1>1. x \in Refs /\ t \in Targets /\ at[r] = "writing"
  BY DEF Routed, WriteCredit
<1>2. /\ x \in Sessions => written'[x] = 1
      /\ \A s \in Sessions : s # x => written'[s] = written[s]
  BY <1>1 DEF WriteCredit, TypeOK, Refs, Claimed
<1>3. /\ \A q \in Requests \ {r} : at'[q] = at[q] /\ ref'[q] = ref[q]
      /\ UNCHANGED <<sessionStatus, paysFor, appliedAt, charge, lost, misdirected>>
      /\ \A u \in Targets : targetStatus'[u] = targetStatus[u] \/ u = t
  BY <1>1, FinishRequests DEF WriteCredit, Goto, TypeOK
<1>4. /\ ledger'[t][x] > 0
      /\ \A y \in Refs \ {x} : ledger'[t][y] > 0 => ledger[t][y] > 0
      /\ \A u \in Targets \ {t} : ledger'[u] = ledger[u]
  <2> DEFINE new == IF IsOrder(t) THEN [y \in Refs |-> IF y = x THEN 1 ELSE 0]
                                  ELSE [ledger[t] EXCEPT ![x] = ledger[t][x] + 1]
  <2>1. ledger' = [ledger EXCEPT ![t] = new]
    BY DEF WriteCredit, Enter
  <2>2. ledger[t] \in [Refs -> Nat] /\ ledger[t][x] \in Nat /\ t \in DOMAIN ledger
    BY <1>1 DEF TypeOK
  <2>3. new[x] > 0 /\ \A y \in Refs \ {x} : new[y] > 0 => ledger[t][y] > 0
    <3>1. CASE IsOrder(t)
      BY <1>1, <3>1
    <3>2. CASE ~IsOrder(t)
      BY <1>1, <2>2, <3>2
    <3> QED
      BY <3>1, <3>2
  <2> HIDE DEF new
  <2> QED
    BY <1>1, <2>1, <2>2, <2>3 DEF TypeOK
<1> HIDE DEF t, x
<1>5. Recorded'
  <2>1. ASSUME NEW s \in Sessions, NEW u \in Targets, ledger'[u][s] > 0 PROVE written'[s] > 0
    <3>1. CASE s = x
      BY <1>2, <3>1
    <3>2. CASE s # x
      BY <1>2, <1>4, <2>1, <3>2 DEF Recorded, Refs
    <3> QED
      BY <3>1, <3>2
  <2> QED
    BY <1>3, <2>1 DEF Recorded
<1>6. ASSUME NEW s \in Sessions, appliedAt'[s], written'[s] = 0, lost'[s] # "entry"
      PROVE  Elsewhere(s)' \/ \E q \in Requests : at'[q] \in {"crediting", "writing"} /\ ref'[q] = s
  <2>1. s # x /\ written[s] = 0 /\ appliedAt[s] /\ lost[s] # "entry" /\ paysFor[s] \in Targets
    BY <1>2, <1>3, <1>6, BackedOpen DEF Recorded
  <2>2. CASE \E q \in Requests : at[q] \in {"crediting", "writing"} /\ ref[q] = s
    BY <1>3, <2>1, <2>2 DEF x
  <2>3. CASE Elsewhere(s) /\ paysFor[s] = t
    BY <1>1, <1>3, <1>4, <2>1, <2>3 DEF Elsewhere
  <2>4. CASE Elsewhere(s) /\ paysFor[s] # t
    BY <1>3, <1>4, <2>1, <2>4 DEF Elsewhere
  <2> QED
    BY <2>1, <2>2, <2>3, <2>4 DEF Owed
<1>7. ASSUME NEW s \in Sessions, sessionStatus'[s] = "PAID", ~appliedAt'[s], lost'[s] # "claim"
      PROVE  \E q \in Requests : at'[q] = "settling" /\ ref'[q] = s
  BY <1>1, <1>3, <1>7 DEF Owed
<1> QED
  BY <1>5, <1>6, <1>7 DEF Owed

LEMMA MarkFundedKeeps ==
  ASSUME SInv, NEW r \in Requests, MarkFunded(r)
  PROVE  Recorded' /\ Owed'
<1> USE BackedSame DEF SInv, IInv
<1>1. /\ at[r] = "marking" /\ target[r] \in Targets /\ PaidAt(target[r])
      /\ \A q \in Requests \ {r} : at'[q] = at[q] /\ ref'[q] = ref[q]
      /\ UNCHANGED <<sessionStatus, paysFor, appliedAt, ledger, charge, history>>
      /\ \A u \in Targets \ {target[r]} : targetStatus'[u] = targetStatus[u]
  BY FinishRequests DEF MarkFunded, Routed, Marked, TypeOK
<1>2. ASSUME NEW s \in Sessions, appliedAt[s], written[s] = 0, Elsewhere(s)
      PROVE  Elsewhere(s)'
  <2>1. paysFor[s] \in Targets
    BY <1>2, BackedOpen DEF Recorded
  <2> QED
    BY <1>1, <1>2, <2>1, PaidElsewhere DEF Elsewhere
<1>3. Recorded'
  BY <1>1 DEF Recorded
<1> QED
  BY <1>1, <1>2, <1>3 DEF Owed

LEMMA SaveCancelledKeeps ==
  ASSUME SInv, NEW r \in Requests, SaveCancelled(r)
  PROVE  Recorded' /\ Owed'
<1> USE BackedSame DEF SInv, IInv
<1>1. /\ at[r] = "cancelling" /\ target[r] \in Targets
      /\ \A q \in Requests \ {r} : at'[q] = at[q] /\ ref'[q] = ref[q]
      /\ UNCHANGED <<sessionStatus, paysFor, appliedAt, ledger, charge, history>>
      /\ \A u \in Targets : targetStatus'[u] \in {targetStatus[u], "CANCELLED"}
  BY FinishRequests DEF SaveCancelled, Routed, TypeOK
<1>2. \A s \in Sessions : appliedAt[s] => paysFor[s] \in Targets
  BY BackedOpen DEF Recorded
<1> QED
  BY <1>1, <1>2 DEF Recorded, Owed, Elsewhere

LEMMA DieKeeps ==
  ASSUME SInv, NEW r \in Requests, Die(r)
  PROVE  Recorded' /\ Owed'
<1> USE BackedSame DEF SInv, IInv
<1>1. /\ \A q \in Requests \ {r} : at'[q] = at[q] /\ ref'[q] = ref[q]
      /\ UNCHANGED <<sessionStatus, paysFor, appliedAt, targetStatus, ledger, charge, written, misdirected>>
  BY FinishRequests DEF Die, dbVars
<1>2. ASSUME NEW s \in Sessions
      PROVE  \/ lost'[s] = lost[s] /\ ~(at[r] \in {"crediting", "writing"} /\ ref[r] = s)
                /\ (at[r] = "settling" /\ ref[r] = s => appliedAt[s])
             \/ lost'[s] = "claim" /\ ~appliedAt[s]
             \/ lost'[s] = "entry" /\ appliedAt[s]
  BY DEF Die, LeavesUndone, Claimed
<1>3. Recorded'
  BY <1>1, <1>2 DEF Recorded
<1> QED
  BY <1>1, <1>2, <1>3 DEF Recorded, Owed, Elsewhere

LEMMA NextSInv == SInv /\ [Next]_vars => SInv'
<1> SUFFICES ASSUME SInv, [Next]_vars
             PROVE  Recorded' /\ Owed'
  BY NextIInv DEF SInv
<1>1. ASSUME NEW s \in Sessions, NEW t \in Targets, StartCheckout(s, t)
      PROVE  Recorded' /\ Owed'
  BY <1>1, CheckoutKeeps
<1>2. ASSUME NEW s \in Sessions, Charge(s)
      PROVE  Recorded' /\ Owed'
  BY <1>2, ChargeKeeps
<1>3. ASSUME NEW r \in Requests, NEW s \in Sessions, NEW v \in Sessions,
             CallbackSuccess(r, s, v) \/ HandleIpn(r, s, v) \/ CallbackEnded(r, s)
      PROVE  Recorded' /\ Owed'
  BY <1>3, BeginKeeps DEF CallbackSuccess, HandleIpn, Confirm, CallbackEnded
<1>4. ASSUME NEW r \in Requests, NEW t \in Targets, PayManually(r, t) \/ Cancel(r, t)
      PROVE  Recorded' /\ Owed'
  BY <1>4, BeginKeeps DEF PayManually, PayConceptFee, FundDesignEscrow, FundStructuralEscrow,
     FundMilestone, LoadForManual, Cancel, CancelContract, CancelEngagement, CancelOrder,
     LoadForCancel
<1>5. ASSUME NEW r \in Requests, Continue(r)
      PROVE  Recorded' /\ Owed'
  <2>1. CASE SaveFailed(r)
    BY <2>1, SaveKeeps DEF SaveFailed, PaymentSessionStatus
  <2>2. CASE SaveEnded(r)
    BY <2>2, SaveKeeps DEF SaveEnded, PaymentSessionStatus
  <2>3. CASE AnswerMismatch(r)
    BY <2>3, FinishRequests, OwesNothing DEF AnswerMismatch, dbVars, SInv, IInv
  <2> QED
    BY <1>5, <2>1, <2>2, <2>3, SavePaidKeeps, ClaimKeeps, LoadTargetKeeps, WriteCreditKeeps,
       MarkFundedKeeps, SaveCancelledKeeps DEF Continue
<1>6. CASE UNCHANGED vars
  BY <1>6, BackedSame DEF vars, dbVars, requestVars, SInv, Recorded, Owed, Elsewhere
<1>7. ASSUME NEW r \in Requests, Die(r)
      PROVE  Recorded' /\ Owed'
  BY <1>7, DieKeeps
<1> QED
  BY <1>1, <1>2, <1>3, <1>4, <1>5, <1>6, <1>7 DEF Next

LEMMA InitSInv == Init => SInv
<1> SUFFICES ASSUME Init PROVE Recorded /\ Owed
  BY InitIInv DEF SInv
<1>1. /\ \A s \in Sessions : ~appliedAt[s] /\ sessionStatus[s] = None /\ lost[s] = "nothing"
      /\ \A t \in Targets : ledger[t] = [x \in Refs |-> 0]
  BY DEF Init
<1>2. ASSUME NEW s \in Sessions, NEW t \in Targets PROVE ledger[t][s] = 0
  BY <1>1 DEF Refs
<1>3. None # "PAID"
  BY GatewayAssumption DEF PaymentSessionStatus
<1>4. Recorded
  <2>1. ASSUME NEW s \in Sessions, NEW t \in Targets PROVE ~(ledger[t][s] > 0)
    BY <1>2
  <2> QED
    BY <1>1, <2>1 DEF Recorded
<1> QED
  BY <1>1, <1>3, <1>4 DEF Owed

LEMMA Accounted == Spec => []SInv
BY InitSInv, NextSInv, PTL DEF Spec

\* A session on record as PAID that nobody works for any more has been claimed, unless a
\* request died before its claim: a success callback or an IPN that saved PAID goes on to
\* settle, whatever callbacks, payments and cancellations race it.
THEOREM PaidIsSettled == Spec => []PaidMeansSettled
<1>1. SInv => PaidMeansSettled
  BY DEF SInv, Owed, PaidMeansSettled, Busy, Places
<1> QED
  BY <1>1, Accounted, PTL

\* The money of a settled session is in its target's ledger, unless someone else paid or
\* cancelled that target first (settle), or the request died between its claim and the entry.
THEOREM MoneyArrives == Spec => []NoMoneyStranded
<1>1. SInv => NoMoneyStranded
  BY DEF SInv, Owed, Elsewhere, NoMoneyStranded, Busy, Places
<1> QED
  BY <1>1, Accounted, PTL

-----------------------------------------------------------------------------
(* PaymentGateway implements GatewayPromise *)

\* Charge is the abstract Take; an IPN's PAID on another session's val_id is the abstract
\* Misdirect; WriteCredit for a session is the abstract Credit; the rest is invisible.
LEMMA StepRefines ==
  IInv /\ [Next]_vars =>
    [Promise!Next]_<<[s \in Sessions |-> Took(s)], written, misdirected>>
<1> DEFINE took == [s \in Sessions |-> Took(s)]
<1> SUFFICES ASSUME IInv, [Next]_vars
             PROVE  Promise!Next \/ UNCHANGED <<took, written, misdirected>>
  OBVIOUS
<1>1. ASSUME UNCHANGED <<charge, written, misdirected>>
      PROVE  UNCHANGED <<took, written, misdirected>>
  BY <1>1 DEF Took
<1>2. ASSUME NEW s \in Sessions, NEW t \in Targets, StartCheckout(s, t)
      PROVE  UNCHANGED <<took, written, misdirected>>
  <2>1. charge[s] = "none"
    BY <1>2 DEF StartCheckout, IInv, Opened
  <2>2. \A z \in Sessions : Took(z)' = Took(z)
    BY <1>2, <2>1 DEF StartCheckout, IInv, TypeOK, Took
  <2> QED
    BY <1>2, <2>2 DEF StartCheckout
<1>3. ASSUME NEW s \in Sessions, Charge(s)
      PROVE  Promise!Next
  <2>1. PICK outcome \in {"taken", "short"} : charge' = [charge EXCEPT ![s] = outcome]
    BY <1>3 DEF Charge
  <2>2. took[s] = "nothing" /\ UNCHANGED <<written, misdirected>>
    BY <1>3 DEF Charge, Took
  <2>3. took' = [took EXCEPT ![s] = IF outcome = "taken" THEN "all" ELSE "part"]
    <3>1. charge'[s] = outcome /\ \A z \in Sessions \ {s} : charge'[z] = charge[z]
      BY <2>1 DEF IInv, TypeOK
    <3>2. /\ Took(s)' = IF outcome = "taken" THEN "all" ELSE "part"
          /\ \A z \in Sessions \ {s} : Took(z)' = Took(z)
      BY <3>1 DEF Took
    <3> QED
      BY <3>2
  <2>4. Promise!Take(s)
    BY <2>2, <2>3 DEF Promise!Take
  <2> QED
    BY <2>4 DEF Promise!Next
<1>4. ASSUME NEW r \in Requests, WriteCredit(r)
      PROVE  Promise!Next \/ UNCHANGED <<took, written, misdirected>>
  <2>1. UNCHANGED <<charge, misdirected>> /\ ref[r] \in Refs
    BY <1>4 DEF WriteCredit, IInv, Routed
  <2>2. CASE ref[r] = Manual
    BY <1>4, <2>1, <2>2, <1>1 DEF WriteCredit
  <2>3. CASE ref[r] # Manual
    <3>1. /\ ref[r] \in Sessions
          /\ written' = [written EXCEPT ![ref[r]] = written[ref[r]] + 1]
      BY <1>4, <2>1, <2>3 DEF WriteCredit, Refs
    <3>2. ref[r] \in Backed /\ written[ref[r]] = 0
      BY <1>4, <3>1 DEF IInv, Claimed, WriteCredit
    <3>3. written' = [written EXCEPT ![ref[r]] = 1]
      BY <3>1, <3>2
    <3>4. took[ref[r]] = "all" \/ ref[r] \in misdirected
      BY <3>1, <3>2 DEF Backed, Took
    <3>5. UNCHANGED took
      BY <2>1 DEF Took
    <3>6. Promise!Credit(ref[r])
      BY <2>1, <3>2, <3>3, <3>4, <3>5 DEF Promise!Credit
    <3> QED
      BY <3>1, <3>6 DEF Promise!Next
  <2> QED
    BY <2>2, <2>3
<1>5. ASSUME NEW r \in Requests, SavePaid(r)
      PROVE  Promise!Next \/ UNCHANGED <<took, written, misdirected>>
  <2>1. /\ UNCHANGED <<charge, written>>
        /\ ref[r] \in Sessions /\ voucher[r] \in Sessions /\ Covers(voucher[r], ref[r])
        /\ at[r] = "notified" <=> voucher[r] # ref[r]
    BY <1>5 DEF SavePaid, Accepts, IInv, Routed
  <2>2. CASE voucher[r] = ref[r]
    BY <1>1, <1>5, <2>1, <2>2 DEF SavePaid
  <2>3. CASE voucher[r] # ref[r]
    <3>1. misdirected' = misdirected \cup {ref[r]} /\ UNCHANGED took
      BY <1>5, <2>1, <2>3 DEF SavePaid, Took
    <3>2. took[voucher[r]] # "nothing" /\ voucher[r] \in Sessions \ {ref[r]}
      BY <2>1, <2>3 DEF Covers, Took
    <3>3. Promise!Misdirect(ref[r])
      BY <2>1, <3>1, <3>2 DEF Promise!Misdirect
    <3> QED
      BY <2>1, <3>3 DEF Promise!Next
  <2> QED
    BY <2>2, <2>3
<1>6. ASSUME NEW r \in Requests, Continue(r) \/ Die(r), ~WriteCredit(r), ~SavePaid(r)
      PROVE  UNCHANGED <<charge, written, misdirected>>
  BY <1>6 DEF Continue, Die, SaveFailed, AnswerMismatch, Claim, LoadTarget, MarkFunded,
              SaveEnded, SaveCancelled
<1>7. ASSUME NEW r \in Requests, NEW s \in Sessions, NEW v \in Sessions,
             CallbackSuccess(r, s, v) \/ HandleIpn(r, s, v) \/ CallbackEnded(r, s)
      PROVE  UNCHANGED <<charge, written, misdirected>>
  BY <1>7 DEF CallbackSuccess, HandleIpn, Confirm, CallbackEnded
<1>8. ASSUME NEW r \in Requests, NEW t \in Targets, PayManually(r, t) \/ Cancel(r, t)
      PROVE  UNCHANGED <<charge, written, misdirected>>
  BY <1>8 DEF PayManually, PayConceptFee, FundDesignEscrow, FundStructuralEscrow,
              FundMilestone, LoadForManual, Cancel, CancelContract, CancelEngagement,
              CancelOrder, LoadForCancel
<1>9. CASE UNCHANGED vars
  BY <1>1, <1>9 DEF vars
<1> QED
  BY <1>1, <1>2, <1>3, <1>4, <1>5, <1>6, <1>7, <1>8, <1>9 DEF Next

\* What the gateway code does with a payment is what GatewayPromise allows.
THEOREM Refinement == Spec => KeepsPromise
<1>1. Init => Promise!Init
  BY DEF Init, Promise!Init, Took
<1> QED
  BY <1>1, StepRefines, Invariance, PTL DEF Spec, KeepsPromise, Promise!Spec
=============================================================================
