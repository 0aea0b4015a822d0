----------------------------- MODULE Variations -----------------------------
(***************************************************************************)
(* Variations to a live build contract: the contractor proposes one, the   *)
(* owner approves or rejects it, the contractor may withdraw it; approving *)
(* moves the contract sum and, when the work costs money, appends a        *)
(* milestone to the schedule (controllers/changeorders.controller.ts,      *)
(* models/ChangeOrder.ts).                                                 *)
(*                                                                         *)
(* The original scope is one milestone, released as BuildEscrow says.      *)
(* Approving loads order and contract, then looks for the last milestone,  *)
(* inserts the next, saves the contract, saves the order: a step each.     *)
(***************************************************************************)
EXTENDS Integers, SequencesExt, Nothing

CONSTANTS
  Orders,        \* the change orders
  VarRequests,   \* the requests that can be under way together
  Extras,        \* what added work may cost, in some unit
  Omissions,     \* what removed work may save
  MaxStages      \* bound: milestones of the contract

Scope == "scope"                    \* the milestone of the original work

Deltas == Extras \cup {-n : n \in Omissions}
OrderStatus == {"PROPOSED", "APPROVED", "REJECTED", "WITHDRAWN"}
ChangeOrder == [status : OrderStatus, delta : Deltas]

ASSUME VariationsAssumption ==
  /\ Extras \subseteq Nat /\ Omissions \subseteq Nat /\ MaxStages \in Nat
  /\ None \notin Orders \cup ChangeOrder /\ Scope \notin Orders

BaseSum == 2

VARIABLES
  order,       \* ChangeOrder: status, delta
  sum,         \* BuildContract.contractSumBdt
  live,        \* whether BuildContract.status is ACTIVE
  schedule,    \* the milestones in order, each the work it pays for
  paid,        \* which of them are RELEASED
  decision,    \* each request: how far, on what, the contract sum it loaded, the place found
  \* --- history, read by no action
  botched      \* orders whose approval met another decision of theirs, another
               \* approval, or the end of its process

variationVars == <<order, sum, live, schedule, paid, decision, botched>>

VariationsTypeOK ==
  /\ order \in [Orders -> ChangeOrder \cup {None}]
  /\ sum \in Nat
  /\ live \in BOOLEAN
  /\ schedule \in Seq(Orders \cup {Scope})
  /\ paid \subseteq DOMAIN schedule
  /\ decision \in [VarRequests ->
       [stage : {"idle", "seeking", "appending", "charging", "recording", "rejecting", "withdrawing"},
        on : Orders \cup {None}, sum : Int, place : Nat]]
  /\ botched \subseteq Orders

NoDecision == [stage |-> "idle", on |-> None, sum |-> 0, place |-> 0]

VariationsInit ==
  /\ order = [o \in Orders |-> None]
  /\ sum = BaseSum
  /\ live = TRUE
  /\ schedule = <<Scope>>
  /\ paid = {}
  /\ decision = [r \in VarRequests |-> NoDecision]
  /\ botched = {}

DecisionMoves(r, stage) == decision' = [decision EXCEPT ![r] = [decision[r] EXCEPT !.stage = stage]]
DecisionEnds(r) == decision' = [decision EXCEPT ![r] = NoDecision]
Record(o, status) == order' = [order EXCEPT ![o] = [order[o] EXCEPT !.status = status]]

Approving == {"seeking", "appending", "charging", "recording"}
\* The orders a request beginning on o upsets: its own, when another decision of it is
\* under way; both, when two approvals are.
Upset(r, o, approves) ==
  LET others == {q \in VarRequests \ {r} : decision[q].stage # "idle"}
      rivals == {q \in others : decision[q].stage \in Approving} IN
  (IF \E q \in others : decision[q].on = o THEN {o} ELSE {})
    \cup (IF approves /\ rivals # {} THEN {o} \cup {decision[q].on : q \in rivals} ELSE {})

\* POST /api/build/:id/change-orders
ProposeChangeOrder(o, delta) ==
  /\ order[o] = None
  /\ live /\ sum + delta >= 0
  /\ order' = [order EXCEPT ![o] = [status |-> "PROPOSED", delta |-> delta]]
  /\ UNCHANGED <<sum, live, schedule, paid, decision, botched>>

Proposed(o) == order[o] # None /\ order[o].status = "PROPOSED"

DecisionBegins(r, o, stage) ==
  /\ decision[r].stage = "idle"
  /\ decision' = [decision EXCEPT ![r] =
       [stage |-> stage, on |-> o, sum |-> IF stage = "seeking" THEN sum ELSE 0, place |-> 0]]
  /\ botched' = botched \cup Upset(r, o, stage = "seeking")
  /\ UNCHANGED <<order, sum, live, schedule, paid>>

\* (mutant) An order that is decided can be approved again.
ApproveAgain(r, o) ==
  /\ order[o] # None
  /\ DecisionBegins(r, o, "seeking")

\* POST /api/build/change-orders/:id/decide, /withdraw
ApproveOrder(r, o) == Proposed(o) /\ DecisionBegins(r, o, "seeking")
RejectOrder(r, o) == Proposed(o) /\ DecisionBegins(r, o, "rejecting")
WithdrawOrder(r, o) == Proposed(o) /\ DecisionBegins(r, o, "withdrawing")

SaveRefusedOrder(r) ==
  /\ decision[r].stage \in {"rejecting", "withdrawing"}
  /\ Record(decision[r].on, IF decision[r].stage = "rejecting" THEN "REJECTED" ELSE "WITHDRAWN")
  /\ DecisionEnds(r)
  /\ UNCHANGED <<sum, live, schedule, paid, botched>>

\* Only work that costs money has a tranche.
SeekPlace(r) ==
  /\ decision[r].stage = "seeking"
  /\ IF order[decision[r].on].delta > 0
     THEN decision' = [decision EXCEPT ![r] =
            [decision[r] EXCEPT !.stage = "appending", !.place = Len(schedule) + 1]]
     ELSE DecisionMoves(r, "charging")
  /\ UNCHANGED <<order, sum, live, schedule, paid, botched>>

\* The place is unique in the contract: a second one is refused, and the request fails.
AppendMilestone(r) ==
  /\ decision[r].stage = "appending" /\ Len(schedule) < MaxStages
  /\ IF decision[r].place = Len(schedule) + 1
     THEN schedule' = Append(schedule, decision[r].on) /\ DecisionMoves(r, "charging")
     ELSE DecisionEnds(r) /\ UNCHANGED schedule
  /\ UNCHANGED <<order, sum, live, paid, botched>>

\* (mutant) The sum may fall below zero.
ChargeUnchecked(r) ==
  /\ decision[r].stage = "charging"
  /\ sum' = decision[r].sum + order[decision[r].on].delta
  /\ DecisionMoves(r, "recording")
  /\ UNCHANGED <<order, live, schedule, paid, botched>>

\* The sum loaded plus the delta; the schema refuses one below zero.
ChargeContract(r) ==
  LET next == decision[r].sum + order[decision[r].on].delta IN
  /\ decision[r].stage = "charging"
  /\ IF next >= 0 THEN sum' = next /\ DecisionMoves(r, "recording")
     ELSE DecisionEnds(r) /\ UNCHANGED sum
  /\ UNCHANGED <<order, live, schedule, paid, botched>>

RecordApproval(r) ==
  /\ decision[r].stage = "recording"
  /\ Record(decision[r].on, "APPROVED")
  /\ DecisionEnds(r)
  /\ UNCHANGED <<sum, live, schedule, paid, botched>>

\* A stage is funded, inspected and released; the last one ends the contract.
ReleaseTranche(i) ==
  /\ i \in DOMAIN schedule \ paid
  /\ paid' = paid \cup {i}
  /\ live' = (live /\ paid' # DOMAIN schedule)
  /\ UNCHANGED <<order, sum, schedule, decision, botched>>

DecisionDies(r) ==
  /\ decision[r].stage # "idle"
  /\ DecisionEnds(r)
  /\ botched' = IF decision[r].stage \in {"charging", "recording"}
                THEN botched \cup {decision[r].on} ELSE botched
  /\ UNCHANGED <<order, sum, live, schedule, paid>>

VariationsNext ==
  \/ \E o \in Orders, delta \in Deltas : ProposeChangeOrder(o, delta)
  \/ \E r \in VarRequests, o \in Orders :
       ApproveOrder(r, o) \/ RejectOrder(r, o) \/ WithdrawOrder(r, o)
  \/ \E r \in VarRequests : SaveRefusedOrder(r) \/ SeekPlace(r) \/ AppendMilestone(r)
       \/ ChargeContract(r) \/ RecordApproval(r) \/ DecisionDies(r)
  \/ \E i \in DOMAIN schedule : ReleaseTranche(i)

VariationsSpec == VariationsInit /\ [][VariationsNext]_variationVars

-----------------------------------------------------------------------------
(* Properties *)

ApprovedOrders == {o \in Orders : order[o] # None /\ order[o].status = "APPROVED"}

\* What they come to.
Granted == SumFunctionOnSet([o \in ApprovedOrders |-> order[o].delta], ApprovedOrders)

\* The contract sum is the original one plus every approved variation and nothing else,
\* and each approved variation that costs money is on the schedule exactly once, one
\* that was turned down never.  Excepted are orders whose approval met another
\* decision, another approval, or the end of its process.
SumFollowsVariations ==
  (botched = {} /\ \A r \in VarRequests : decision[r].stage \notin Approving) =>
    /\ sum = BaseSum + Granted
    /\ \A o \in Orders : Cardinality({i \in DOMAIN schedule : schedule[i] = o})
         = IF o \in ApprovedOrders /\ order[o].delta > 0 THEN 1 ELSE 0

=============================================================================
