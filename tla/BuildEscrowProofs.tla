-------------------------- MODULE BuildEscrowProofs --------------------------
(***************************************************************************)
(* Proofs about BuildEscrow, for any stages, disputes and requests: type   *)
(* correctness, that a stage whose dispute is live is not released, that   *)
(* the ledger adds up and pays out what was paid in, that a released stage *)
(* stays so, that a contract is complete when all is paid, that the tags   *)
(* match; and that a dispute moves money at most once.                     *)
(***************************************************************************)
EXTENDS BuildEscrow, FiniteSetTheorems, TLAPS

\* The tag of the contract is one variable wherever it does not change.
USE DEF tagVars

-----------------------------------------------------------------------------
(* The inductive invariants *)

\* The places of a request that works on a dispute already filed.
Handling == {"reviewing", "withdrawing", "weighing", "moving", "stamping", "resolving"}

\* A request under way holds its copies, and its dispute when it works on one.
InFlight ==
  \A r \in Requests : at[r] # "idle" =>
    /\ on[r] \in Stages
    /\ copy[r] \in Copy
    /\ at[r] \in Handling \cup {"filing"} => about[r] \in Disputes

TInv == TypeOK /\ InFlight

\* One request files a dispute, and nobody else knows of it before it is filed.
Filing ==
  \A r \in Requests : at[r] = "filing" =>
    /\ dispute[about[r]] = None
    /\ \A q \in Requests : about[q] = about[r] => q = r

\* The other requests work on a dispute that was filed, and on its stage.
Working ==
  \A r \in Requests : at[r] \in Handling =>
    dispute[about[r]] # None /\ dispute[about[r]].target = on[r]

\* What stood when a request loaded its stage, and still does, is live.
Standing == \A r \in Requests : standing[r] \subseteq LiveOn(on[r])

\* A request past the freeze found nothing standing.
Cleared == \A r \in Requests : at[r] = "releasing" => standing[r] = {}

SInv == TInv /\ Filing /\ Working /\ Standing /\ Cleared

\* A dispute whose money no decision has moved, or one whose request died, or one that
\* two supervisors worked on at once.
Free(d) ==
  moves[d] = 0 \/ dispute[d].target \in interrupted \/ d \in contested

\* A request that has weighed a dispute, and must still close it.
Behind(d) == \E r \in Requests : at[r] \in {"stamping", "resolving"} /\ about[r] = d

Fresh == \A d \in Disputes : dispute[d] = None => moves[d] = 0

\* Whoever may yet move a dispute's money finds it unmoved, or another is behind.
Ahead ==
  \A r \in Requests : at[r] \in {"reviewing", "weighing", "moving"} =>
    Free(about[r]) \/ Behind(about[r])

\* A dispute whose money has moved is closed, or about to be.
Once ==
  \A d \in Disputes : dispute[d] # None =>
    Free(d) \/ (moves[d] = 1 /\ (IsLive(d) => Behind(d)))

DInv == SInv /\ Fresh /\ Ahead /\ Once

-----------------------------------------------------------------------------
(* Type correctness *)

LEMMA InitSInv == Init => SInv
<1> SUFFICES ASSUME Init PROVE SInv
  OBVIOUS
<1> USE BuildAssumption DEF Init
<1>1. TypeOK
  BY DEF TypeOK, Contract, Stage, BuildContractStatus, MilestoneStatus, Places, NoMoney, Spellings
<1>2. InFlight /\ Filing /\ Working /\ Standing /\ Cleared
  BY DEF InFlight, Filing, Working, Standing, Cleared, Handling
<1> QED
  BY <1>1, <1>2 DEF SInv, TInv

\* A request loads the contract and a stage.
LEMMA LoadTInv ==
  ASSUME TInv, NEW r \in Requests, NEW place \in Places \ {"idle"}, NEW m \in Stages,
         NEW d \in Disputes \cup {None}, place \in Handling \cup {"filing"} => d \in Disputes,
         Load(r, place, m, d)
  PROVE  TInv'
<1> USE DEF TInv, TypeOK, Load, contractVars, stageVars, moneyVars
<1>1. copy'[r] \in Copy
  BY DEF Copy
<1>2. /\ at' \in [Requests -> Places]
      /\ on' \in [Requests -> Stages \cup {None}]
      /\ about' \in [Requests -> Disputes \cup {None}]
      /\ copy' \in [Requests -> Copy \cup {None}]
      /\ standing' \in [Requests -> SUBSET Disputes]
  BY <1>1 DEF LiveOn
<1>3. TypeOK'
  BY <1>2
<1>4. InFlight'
  BY <1>1 DEF InFlight
<1> QED
  BY <1>3, <1>4

\* What the requests hold, apart from the rest of the state.
Held ==
  /\ at \in [Requests -> Places]
  /\ on \in [Requests -> Stages \cup {None}]
  /\ about \in [Requests -> Disputes \cup {None}]
  /\ copy \in [Requests -> Copy \cup {None}]
  /\ plan \in [Requests -> [refund : Nat, release : Nat]]
  /\ standing \in [Requests -> SUBSET Disputes]
  /\ InFlight

LEMMA FinishHeld ==
  ASSUME TInv, NEW r \in Requests, Finish(r)
  PROVE  Held'
  BY DEF TInv, TypeOK, Held, InFlight, Finish, NoMoney, Places

LEMMA GotoHeld ==
  ASSUME TInv, NEW r \in Requests, at[r] # "idle", NEW place \in Places, Goto(r, place),
         place \in Handling \cup {"filing"} => at[r] \in Handling
  PROVE  Held'
  BY DEF TInv, TypeOK, Held, InFlight, Goto

LEMMA CloseHeld ==
  ASSUME TInv, NEW r \in Requests, NEW st, CloseOrReview(r, st)
  PROVE  Held'
  BY DEF TInv, TypeOK, Held, InFlight, CloseOrReview, NoMoney, Places

\* The types of what history remembers of saves that met.
Met == overtaken \in BOOLEAN /\ rivals \subseteq Stages /\ crossed \in BOOLEAN

LEMMA SaveContractType ==
  ASSUME TInv, NEW r \in Requests, at[r] # "idle", NEW new \in Contract,
         new.entries = copy[r].contract.entries + 1, SaveContract(r, new)
  PROVE  /\ contract' \in Contract /\ contractTag' \in Contract /\ Met'
         /\ spelt' \in Spellings /\ wired' \in BOOLEAN
<1>1. copy[r].contract \in Contract /\ contract \in Contract
  BY DEF TInv, TypeOK, InFlight, Copy
<1>2. contract.entries + (new.entries - copy[r].contract.entries) \in Nat
  BY <1>1 DEF Contract
<1> QED
  BY <1>1, <1>2 DEF SaveContract, Sign, Spelling, Spellings, Written, Contract, TInv, TypeOK, Met

LEMMA SaveStageType ==
  ASSUME TInv, NEW r \in Requests, at[r] # "idle", NEW new \in Stage, SaveStage(r, new)
  PROVE  /\ stage' \in [Stages -> Stage] /\ stageTag' \in [Stages -> Stage \cup {None}]
         /\ Met'
<1>1. on[r] \in Stages /\ stage[on[r]] \in Stage /\ copy[r].stage \in Stage
  BY DEF TInv, TypeOK, InFlight, Copy
<1>2. [status |-> Written(copy[r].stage.status, new.status, stage[on[r]].status),
       paid   |-> Written(copy[r].stage.paid, new.paid, stage[on[r]].paid)] \in Stage
  BY <1>1 DEF Written, Stage
<1> QED
  BY <1>1, <1>2 DEF SaveStage, TInv, TypeOK, Met

LEMMA SaveStageStatusType ==
  ASSUME TInv, NEW r \in Requests, at[r] # "idle", NEW st \in MilestoneStatus,
         SaveStageStatus(r, st)
  PROVE  /\ stage' \in [Stages -> Stage] /\ stageTag' \in [Stages -> Stage \cup {None}]
         /\ Met'
<1>1. [copy[r].stage EXCEPT !.status = st] \in Stage
  BY DEF TInv, TypeOK, InFlight, Copy, Stage
<1> QED
  BY <1>1, SaveStageType DEF SaveStageStatus

\* The rest of the state.
LEMMA StartTInv ==
  ASSUME TInv, NEW r \in Requests, Start(r)
  PROVE  TInv'
<1>1. ASSUME NEW m \in Stages,
             \/ FundMilestone(r, m) \/ UpdateMilestone(r, m) \/ ClaimMilestone(r, m)
             \/ InspectMilestone(r, m) \/ ReleaseMilestone(r, m)
      PROVE  TInv'
  <2>1. PICK place \in {"depositing", "editing", "claiming", "inspecting", "asking"} :
          Load(r, place, m, None)
    BY <1>1 DEF FundMilestone, UpdateMilestone, ClaimMilestone, InspectMilestone,
                ReleaseMilestone
  <2>2. place \in Places \ {"idle"} /\ place \notin Handling \cup {"filing"}
    BY DEF Places, Handling
  <2> QED
    BY <2>1, <2>2, LoadTInv
<1>2. ASSUME NEW d \in Disputes, NEW m \in Stages, RaiseDispute(r, d, m)
      PROVE  TInv'
  BY <1>2, LoadTInv DEF RaiseDispute, Places
<1>3. ASSUME NEW d \in Disputes,
             ReviewDispute(r, d) \/ WithdrawDispute(r, d) \/ ResolveDispute(r, d)
      PROVE  TInv'
  <2>1. dispute[d].target \in Stages
    BY <1>3 DEF ReviewDispute, WithdrawDispute, ResolveDispute, IsLive, TInv, TypeOK, Dispute
  <2>2. PICK place \in {"reviewing", "withdrawing", "weighing"} :
          Load(r, place, dispute[d].target, d)
    BY <1>3 DEF ReviewDispute, WithdrawDispute, ResolveDispute
  <2>3. place \in Places \ {"idle"}
    BY DEF Places
  <2> QED
    BY <2>1, <2>2, <2>3, LoadTInv
<1> QED
  BY <1>1, <1>2, <1>3 DEF Start

LEMMA BuildStepTInv ==
  ASSUME TInv, NEW r \in Requests,
         \/ SaveDeposit(r) \/ MarkFunded(r) \/ SaveEdit(r) \/ SaveClaim(r)
         \/ SaveInspection(r) \/ AskDispute(r) \/ SaveReleased(r)
         \/ CountOutstanding(r) \/ CompleteProject(r) \/ PayRelease(r)
  PROVE  TInv'
<1>n. Amount \in Nat /\ Commission \in 0 .. Amount /\ Net \in Nat
  BY BuildAssumption DEF Net
<1> USE DEF TInv, Keep, KeepBeside, contractVars, stageVars, moneyVars, Met
<1>0. ASSUME at[r] # "idle"
      PROVE  on[r] \in Stages /\ copy[r].contract \in Contract /\ copy[r].stage \in Stage
  BY <1>0 DEF InFlight, Copy
<1>1. CASE SaveDeposit(r)
  <2>1. Held'
    BY <1>1, GotoHeld DEF SaveDeposit, Places, Handling
  <2>2. /\ contract' \in Contract /\ contractTag' \in Contract /\ Met'
        /\ spelt' \in Spellings /\ wired' \in BOOLEAN
    <3>1. [copy[r].contract EXCEPT !.entries = copy[r].contract.entries + 1] \in Contract
      BY <1>0, <1>1 DEF SaveDeposit, Contract
    <3> QED
      BY <1>0, <1>1, <3>1, SaveContractType DEF SaveDeposit, Contract
  <2>3. paidIn' \in [Stages -> Nat]
    BY <1>n, <1>0, <1>1 DEF SaveDeposit, TypeOK
  <2> QED
    BY <1>1, <2>1, <2>2, <2>3 DEF SaveDeposit, Held, TypeOK
<1>2. CASE MarkFunded(r)
  <2>1. stage' \in [Stages -> Stage] /\ stageTag' \in [Stages -> Stage \cup {None}] /\ Met'
    BY <1>2, SaveStageStatusType DEF MarkFunded, MilestoneStatus
  <2> QED
    BY <1>2, <2>1, FinishHeld DEF MarkFunded, Held, TypeOK
<1>3. CASE SaveEdit(r)
  <2>1. stage' \in [Stages -> Stage] /\ stageTag' \in [Stages -> Stage \cup {None}] /\ Met'
    BY <1>3, <1>0, SaveStageType DEF SaveEdit
  <2> QED
    BY <1>3, <2>1, FinishHeld DEF SaveEdit, Held, TypeOK
<1>4. CASE SaveClaim(r)
  <2>1. stage' \in [Stages -> Stage] /\ stageTag' \in [Stages -> Stage \cup {None}] /\ Met'
    BY <1>4, SaveStageStatusType DEF SaveClaim, MilestoneStatus
  <2> QED
    BY <1>4, <2>1, FinishHeld DEF SaveClaim, Held, TypeOK
<1>5. CASE SaveInspection(r)
  <2>1. stage' \in [Stages -> Stage] /\ stageTag' \in [Stages -> Stage \cup {None}] /\ Met'
    BY <1>5, SaveStageStatusType DEF SaveInspection, MilestoneStatus
  <2> QED
    BY <1>5, <2>1, FinishHeld DEF SaveInspection, Held, TypeOK
<1>6. CASE AskDispute(r)
  <2>1. Held'
    BY <1>6, FinishHeld, GotoHeld DEF AskDispute, Places, Handling
  <2> QED
    BY <1>6, <2>1 DEF AskDispute, Held, TypeOK
<1>7. CASE SaveReleased(r)
  <2>1. Held'
    BY <1>7, GotoHeld DEF SaveReleased, Places, Handling
  <2>2. stage' \in [Stages -> Stage] /\ stageTag' \in [Stages -> Stage \cup {None}] /\ Met'
    BY <1>7, <1>n, SaveStageType DEF SaveReleased, Stage, MilestoneStatus
  <2> QED
    BY <1>7, <2>1, <2>2 DEF SaveReleased, Held, TypeOK
<1>8. CASE CountOutstanding(r)
  <2>1. Held'
    BY <1>8, GotoHeld DEF CountOutstanding, Places, Handling
  <2> QED
    BY <1>8, <2>1 DEF CountOutstanding, Held, TypeOK
<1>9. CASE CompleteProject(r)
  <2>1. Held'
    BY <1>9, GotoHeld DEF CompleteProject, Places, Handling
  <2> QED
    BY <1>9, <2>1 DEF CompleteProject, Held, TypeOK
<1>10. CASE PayRelease(r)
  <2>1. Held'
    BY <1>10, FinishHeld DEF PayRelease
  <2> DEFINE new ==
        [entries |-> copy[r].contract.entries + 1,
         released |-> copy[r].contract.released + Net,
         commission |-> copy[r].contract.commission + Commission,
         status |-> IF at[r] = "payingLast" THEN "COMPLETED" ELSE copy[r].contract.status]
  <2>2. at[r] # "idle" /\ SaveContract(r, new)
    BY <1>10 DEF PayRelease
  <2>3. new \in Contract /\ new.entries = copy[r].contract.entries + 1
    BY <1>n, <1>0, <2>2 DEF Contract, BuildContractStatus
  <2>4. /\ contract' \in Contract /\ contractTag' \in Contract /\ Met'
        /\ spelt' \in Spellings /\ wired' \in BOOLEAN
    <3> HIDE DEF new
    <3> QED
      BY <2>2, <2>3, SaveContractType
  <2>5. paidOut' \in [Stages -> Nat] /\ ledgerOut' \in Nat
    BY <1>n, <1>0, <1>10 DEF PayRelease, TypeOK
  <2> QED
    BY <1>10, <2>1, <2>4, <2>5 DEF PayRelease, Held, TypeOK
<1> QED
  BY <1>1, <1>2, <1>3, <1>4, <1>5, <1>6, <1>7, <1>8, <1>9, <1>10

LEMMA EntriesType ==
  ASSUME NEW p \in [refund : Nat, release : Nat]
  PROVE  Entries(p) \in Nat
<1>1. DOMAIN p = {"refund"} \cup {"release"}
  OBVIOUS
<1>2. IsFiniteSet(DOMAIN p)
  <2>1. IsFiniteSet({"refund"}) /\ IsFiniteSet({"release"})
    BY FS_Singleton
  <2>2. IsFiniteSet({"refund"} \cup {"release"})
    BY <2>1, FS_Union
  <2> QED
    BY <1>1, <2>2
<1>3. {k \in DOMAIN p : p[k] > 0} \subseteq DOMAIN p
  OBVIOUS
<1> QED
  BY <1>2, <1>3, FS_Subset, FS_CardinalityType DEF Entries

LEMMA DisputeStepTInv ==
  ASSUME SInv, NEW r \in Requests,
         \/ FileDispute(r) \/ SaveReview(r) \/ SaveWithdrawal(r) \/ Weigh(r)
         \/ MoveMoney(r) \/ StampReleased(r) \/ SaveResolution(r) \/ Die(r)
  PROVE  TInv'
<1>n. Amount \in Nat
  BY BuildAssumption
<1> USE DEF SInv, TInv, Keep, KeepBeside, contractVars, stageVars, moneyVars
<1>0. ASSUME at[r] # "idle"
      PROVE  on[r] \in Stages /\ (at[r] \in Handling \cup {"filing"} => about[r] \in Disputes)
  BY <1>0 DEF InFlight
<1>1. CASE FileDispute(r)
  <2>1. [target |-> on[r], raisedBy |-> Role[r], status |-> "OPEN"] \in Dispute
    BY <1>0, <1>1, BuildAssumption DEF FileDispute, Dispute, DisputeStatus
  <2>2. dispute' \in [Disputes -> Dispute \cup {None}]
    BY <1>1, <2>1 DEF FileDispute, TypeOK
  <2> QED
    BY <1>1, <2>2, FinishHeld DEF FileDispute, Held, TypeOK
<1>2. ASSUME NEW st \in DisputeStatus, at[r] \in Handling, CloseOrReview(r, st),
             UNCHANGED <<contractVars, stageVars, moneyVars, arbitrated, interrupted, overtaken,
                         rivals, crossed>>,
             contested' \subseteq Disputes
      PROVE  TInv'
  <2>1. dispute[about[r]] \in Dispute
    BY <1>2, <1>0 DEF Working, TypeOK, Handling
  <2>2. [dispute[about[r]] EXCEPT !.status = st] \in Dispute
    BY <2>1 DEF Dispute
  <2>3. dispute' \in [Disputes -> Dispute \cup {None}]
    BY <1>2, <2>2 DEF CloseOrReview, TypeOK
  <2> QED
    BY <1>2, <2>3, CloseHeld DEF Held, TypeOK
<1>c. at[r] \in Handling => Contested(r) \subseteq Disputes
  BY <1>0 DEF Contested, TypeOK, Handling
<1>3. CASE SaveReview(r) \/ SaveWithdrawal(r) \/ SaveResolution(r)
  <2>1. contested' \subseteq Disputes
    BY <1>3, <1>c DEF SaveReview, SaveWithdrawal, SaveResolution, TypeOK, Handling
  <2> QED
    BY <1>3, <1>2, <2>1 DEF SaveReview, SaveWithdrawal, SaveResolution, DisputeStatus, Handling
<1>4. CASE Weigh(r)
  <2>1. on[r] \in Stages /\ copy[r] \in Copy /\ stage[on[r]] \in Stage
    BY <1>4 DEF Weigh, InFlight, TypeOK
  <2>2. [copy[r] EXCEPT !.stage = stage[on[r]]] \in Copy
    BY <2>1 DEF Copy
  <2>3. HeldAmount(on[r]) \in Nat
    BY <1>n DEF HeldAmount
  <2>4. \A back \in Refunds(HeldAmount(on[r])) :
          [refund |-> back, release |-> HeldAmount(on[r]) - back]
            \in [refund : Nat, release : Nat]
    BY <2>3 DEF Refunds
  <2>5. plan' \in [Requests -> [refund : Nat, release : Nat]]
    BY <1>4, <2>4 DEF Weigh, TypeOK
  <2>6. copy' \in [Requests -> Copy \cup {None}] /\ copy'[r] \in Copy
    BY <1>4, <2>2 DEF Weigh, TypeOK
  <2>7. at' \in [Requests -> Places]
    BY <1>4 DEF Weigh, TypeOK, Places
  <2>8. TypeOK'
    BY <1>4, <2>5, <2>6, <2>7 DEF Weigh, TypeOK
  <2>9. InFlight'
    BY <1>4, <2>6 DEF Weigh, InFlight, Handling, TypeOK
  <2> QED
    BY <2>8, <2>9
<1>5. CASE MoveMoney(r)
  <2>1. Held'
    BY <1>5, GotoHeld DEF MoveMoney, Places, Handling
  <2>2. plan[r] \in [refund : Nat, release : Nat] /\ Entries(plan[r]) \in Nat
    BY EntriesType DEF TypeOK
  <2>3. contract' \in Contract
    <3>1. contract \in Contract
      BY DEF TypeOK
    <3>2. /\ contract.entries + Entries(plan[r]) \in Nat
          /\ contract.released + plan[r].release \in Nat
      BY <2>2, <3>1 DEF Contract
    <3>3. contract' = [contract EXCEPT !.entries = contract.entries + Entries(plan[r]),
                                       !.released = contract.released + plan[r].release]
      BY <1>5 DEF MoveMoney
    <3> QED
      BY <3>1, <3>2, <3>3 DEF Contract
  <2>l. ledgerOut' \in Nat
    BY <1>5, <2>2 DEF MoveMoney, TypeOK
  <2>4. paidOut' \in [Stages -> Nat]
    <3>1. /\ paidOut \in [Stages -> Nat]
          /\ paidOut' = [paidOut EXCEPT ![on[r]] = paidOut[on[r]] + plan[r].refund
                                                                  + plan[r].release]
      BY <1>5 DEF MoveMoney, TypeOK
    <3> QED
      BY <1>5, <1>0, <2>2, <3>1 DEF MoveMoney
  <2>5. moves' \in [Disputes -> Nat]
    <3>1. /\ moves \in [Disputes -> Nat]
          /\ moves' = [moves EXCEPT ![about[r]] = moves[about[r]] + 1]
      BY <1>5 DEF MoveMoney, TypeOK
    <3>2. about[r] \in Disputes
      BY <1>5, <1>0 DEF MoveMoney, Handling
    <3> QED
      BY <3>1, <3>2
  <2>6. arbitrated' \subseteq Stages /\ contested' \subseteq Disputes
    BY <1>5, <1>0, <1>c DEF MoveMoney, TypeOK, Handling
  <2> QED
    BY <1>5, <2>1, <2>3, <2>l, <2>4, <2>5, <2>6 DEF MoveMoney, Held, TypeOK
<1>6. CASE StampReleased(r)
  <2>1. Held'
    BY <1>6, GotoHeld DEF StampReleased, Places, Handling
  <2>2. [status |-> "RELEASED", paid |-> plan[r].release] \in Stage
    BY DEF TypeOK, Stage, MilestoneStatus
  <2>3. stage' \in [Stages -> Stage] /\ stageTag' \in [Stages -> Stage \cup {None}] /\ Met'
    BY <1>6, <2>2, SaveStageType DEF StampReleased
  <2> QED
    BY <1>6, <2>1, <2>3 DEF StampReleased, Held, TypeOK, Met
<1>7. CASE Die(r)
  <2>1. Held'
    BY <1>7, FinishHeld DEF Die
  <2>2. interrupted' \subseteq Stages
    BY <1>7, <1>0 DEF Die, TypeOK
  <2> QED
    BY <1>7, <2>1, <2>2 DEF Die, Held, TypeOK
<1> QED
  BY <1>1, <1>3, <1>4, <1>5, <1>6, <1>7

-----------------------------------------------------------------------------
(* Which disputes a request may rely on *)

\* A request that loads a dispute to work on it finds it filed; one that files it
\* finds nobody else doing so.
LEMMA LoadSInv ==
  ASSUME SInv, NEW r \in Requests, NEW place, place \notin {"releasing"}, NEW m \in Stages,
         NEW d \in Disputes \cup {None},
         place \in Handling => dispute[d] # None /\ dispute[d].target = m,
         place = "filing" => dispute[d] = None /\ \A q \in Requests : about[q] # d,
         place \in Handling \cup {"filing"} \/ d = None,
         Load(r, place, m, d)
  PROVE  (Filing /\ Working /\ Standing /\ Cleared)'
<1> USE DEF SInv, TInv, TypeOK, Load
<1>0. "filing" \notin Handling
  BY DEF Handling
<1>1. Filing'
  BY <1>0, BuildAssumption DEF Filing, InFlight
<1>2. Working'
  BY DEF Working
<1>3. Standing'
  BY DEF Standing, LiveOn, IsLive
<1>4. Cleared'
  BY DEF Cleared
<1> QED
  BY <1>1, <1>2, <1>3, <1>4

\* A request that only moves on keeps its dispute.
LEMMA MoveSInv ==
  ASSUME SInv, NEW r \in Requests, NEW place, place # "filing",
         place \in Handling => at[r] \in Handling,
         place = "releasing" => LiveOn(on[r]) = {},
         at' = [at EXCEPT ![r] = place], UNCHANGED <<on, about, standing, dispute>>
  PROVE  (Filing /\ Working /\ Standing /\ Cleared)'
<1> USE DEF SInv, TInv, TypeOK
<1>1. Filing'
  BY DEF Filing
<1>2. Working'
  BY DEF Working
<1>3. Standing'
  BY DEF Standing, LiveOn, IsLive
<1>4. Cleared'
  BY DEF Cleared, Standing
<1> QED
  BY <1>1, <1>2, <1>3, <1>4

LEMMA FinishSInv ==
  ASSUME SInv, NEW r \in Requests, Finish(r), UNCHANGED dispute
  PROVE  (Filing /\ Working /\ Standing /\ Cleared)'
<1> USE DEF SInv, TInv, TypeOK, Finish
<1>1. Filing'
  BY BuildAssumption DEF Filing, InFlight
<1>2. Working'
  BY DEF Working, Handling
<1>3. Standing'
  BY DEF Standing, LiveOn, IsLive
<1>4. Cleared'
  BY DEF Cleared
<1> QED
  BY <1>1, <1>2, <1>3, <1>4

LEMMA FileSInv ==
  ASSUME SInv, NEW r \in Requests, FileDispute(r)
  PROVE  (Filing /\ Working /\ Standing /\ Cleared)'
<1> USE DEF SInv, TInv, TypeOK, FileDispute, Finish
<1>0. about[r] \in Disputes /\ dispute[about[r]] = None
  BY DEF InFlight, Filing
<1>1. Filing'
  BY <1>0, BuildAssumption DEF Filing, InFlight
<1>2. Working'
  BY <1>0 DEF Working, Handling
<1>3. Standing'
  BY <1>0 DEF Standing, LiveOn, IsLive
<1>4. Cleared'
  BY DEF Cleared
<1> QED
  BY <1>1, <1>2, <1>3, <1>4

LEMMA CloseSInv ==
  ASSUME SInv, NEW r \in Requests, NEW st \in DisputeStatus, at[r] \in Handling,
         CloseOrReview(r, st)
  PROVE  (Filing /\ Working /\ Standing /\ Cleared)'
<1> USE DEF SInv, TInv, TypeOK, CloseOrReview
<1>0. about[r] \in Disputes /\ dispute[about[r]] \in Dispute
  BY DEF InFlight, Working, Handling
<1>d. /\ dispute'[about[r]] = [dispute[about[r]] EXCEPT !.status = st]
      /\ \A d \in Disputes \ {about[r]} : dispute'[d] = dispute[d]
  BY <1>0
<1>s. /\ dispute'[about[r]] \in Dispute /\ dispute'[about[r]] # None
      /\ dispute'[about[r]].target = dispute[about[r]].target
      /\ dispute'[about[r]].status = st
  BY <1>0, <1>d, BuildAssumption DEF Dispute
<1>1. Filing'
  BY <1>0, <1>d, BuildAssumption DEF Filing, InFlight
<1>2. Working'
  <2> SUFFICES ASSUME NEW q \in Requests, at'[q] \in Handling
               PROVE  dispute'[about'[q]] # None /\ dispute'[about'[q]].target = on'[q]
    BY DEF Working
  <2>1. q # r /\ at[q] \in Handling /\ about'[q] = about[q] /\ on'[q] = on[q]
    BY DEF Handling
  <2>2. about[q] \in Disputes
    BY <2>1 DEF InFlight, Handling
  <2> QED
    BY <2>1, <2>2, <1>d, <1>s DEF Working
<1>3. Standing'
  <2> SUFFICES ASSUME NEW q \in Requests, NEW d \in standing'[q]
               PROVE  d \in LiveOn(on[q])' /\ q # r
    BY DEF Standing, LiveOn
  <2>1. q # r /\ d \in standing[q] /\ d \in LiveOn(on[q]) /\ on'[q] = on[q]
    BY DEF Standing
  <2>2. d = about[r] => st \in {"OPEN", "UNDER_REVIEW"}
    BY <2>1
  <2> QED
    BY <2>1, <2>2, <1>d, <1>s DEF LiveOn, IsLive
<1>4. Cleared'
  BY DEF Cleared
<1> QED
  BY <1>1, <1>2, <1>3, <1>4

\* What a handler of the build does with the disputes: nothing, but ask once.
LEMMA BuildStepShape ==
  ASSUME SInv, NEW r \in Requests,
         \/ SaveDeposit(r) \/ MarkFunded(r) \/ SaveEdit(r) \/ SaveClaim(r)
         \/ SaveInspection(r) \/ AskDispute(r) \/ SaveReleased(r)
         \/ CountOutstanding(r) \/ CompleteProject(r) \/ PayRelease(r)
  PROVE  /\ UNCHANGED <<dispute, moves, interrupted, contested>>
         /\ at[r] \notin Handling
         /\ \/ Finish(r)
            \/ \E place \in Places \ (Handling \cup {"filing"}) :
                 /\ Goto(r, place)
                 /\ place = "releasing" => LiveOn(on[r]) = {}
<1> USE DEF Keep, KeepBeside, moneyVars, Handling, Places
<1>1. CASE SaveDeposit(r) \/ SaveReleased(r) \/ CountOutstanding(r) \/ CompleteProject(r)
  BY <1>1 DEF SaveDeposit, SaveReleased, CountOutstanding, CompleteProject
<1>2. CASE MarkFunded(r) \/ SaveEdit(r) \/ SaveClaim(r) \/ SaveInspection(r) \/ PayRelease(r)
  BY <1>2 DEF MarkFunded, SaveEdit, SaveClaim, SaveInspection, PayRelease
<1>3. CASE AskDispute(r)
  BY <1>3 DEF AskDispute, HasLiveDispute
<1> QED
  BY <1>1, <1>2, <1>3

LEMMA StartSInv ==
  ASSUME SInv, NEW r \in Requests, Start(r)
  PROVE  SInv'
<1>0. TInv'
  BY StartTInv DEF SInv
<1>1. ASSUME NEW m \in Stages,
             \/ FundMilestone(r, m) \/ UpdateMilestone(r, m) \/ ClaimMilestone(r, m)
             \/ InspectMilestone(r, m) \/ ReleaseMilestone(r, m)
      PROVE  (Filing /\ Working /\ Standing /\ Cleared)'
  <2>1. PICK place \in {"depositing", "editing", "claiming", "inspecting", "asking"} :
          Load(r, place, m, None)
    BY <1>1 DEF FundMilestone, UpdateMilestone, ClaimMilestone, InspectMilestone,
                ReleaseMilestone
  <2>2. place \notin Handling \cup {"filing", "releasing"}
    BY DEF Handling
  <2> QED
    BY <2>1, <2>2, LoadSInv
<1>2. ASSUME NEW d \in Disputes, NEW m \in Stages, RaiseDispute(r, d, m)
      PROVE  (Filing /\ Working /\ Standing /\ Cleared)'
  BY <1>2, LoadSInv DEF RaiseDispute, Handling
<1>3. ASSUME NEW d \in Disputes,
             ReviewDispute(r, d) \/ WithdrawDispute(r, d) \/ ResolveDispute(r, d)
      PROVE  (Filing /\ Working /\ Standing /\ Cleared)'
  <2>1. dispute[d] # None
    BY <1>3 DEF ReviewDispute, WithdrawDispute, ResolveDispute, IsLive
  <2>2. dispute[d].target \in Stages
    BY <2>1 DEF SInv, TInv, TypeOK, Dispute
  <2>3. PICK place \in {"reviewing", "withdrawing", "weighing"} :
          Load(r, place, dispute[d].target, d)
    BY <1>3 DEF ReviewDispute, WithdrawDispute, ResolveDispute
  <2>4. place \in Handling /\ place \notin {"filing", "releasing"}
    BY DEF Handling
  <2> QED
    BY <2>1, <2>2, <2>3, <2>4, LoadSInv
<1> QED
  BY <1>0, <1>1, <1>2, <1>3 DEF Start, SInv

LEMMA StepSInv ==
  ASSUME SInv, NEW r \in Requests, Continue(r) \/ Die(r)
  PROVE  SInv'
<1>1. CASE \/ SaveDeposit(r) \/ MarkFunded(r) \/ SaveEdit(r) \/ SaveClaim(r)
           \/ SaveInspection(r) \/ AskDispute(r) \/ SaveReleased(r)
           \/ CountOutstanding(r) \/ CompleteProject(r) \/ PayRelease(r)
  <2>1. TInv'
    BY <1>1, BuildStepTInv DEF SInv
  <2>2. CASE Finish(r)
    BY <1>1, <2>1, <2>2, BuildStepShape, FinishSInv DEF SInv
  <2>3. ASSUME NEW place \in Places \ (Handling \cup {"filing"}), Goto(r, place),
               place = "releasing" => LiveOn(on[r]) = {}
        PROVE  SInv'
    <3>1. UNCHANGED dispute
      BY <1>1, BuildStepShape
    <3> QED
      BY <2>1, <2>3, <3>1, MoveSInv DEF Goto, SInv
  <2> QED
    BY <1>1, <2>2, <2>3, BuildStepShape
<1>2. CASE \/ FileDispute(r) \/ SaveReview(r) \/ SaveWithdrawal(r) \/ Weigh(r)
           \/ MoveMoney(r) \/ StampReleased(r) \/ SaveResolution(r) \/ Die(r)
  <2>0. TInv'
    BY <1>2, DisputeStepTInv
  <2>1. CASE FileDispute(r)
    BY <2>0, <2>1, FileSInv DEF SInv
  <2>2. CASE SaveReview(r) \/ SaveWithdrawal(r) \/ SaveResolution(r)
    <3>1. PICK st \in DisputeStatus : CloseOrReview(r, st)
      BY <2>2 DEF SaveReview, SaveWithdrawal, SaveResolution, DisputeStatus
    <3>2. at[r] \in Handling
      BY <2>2 DEF SaveReview, SaveWithdrawal, SaveResolution, Handling
    <3> QED
      BY <2>0, <3>1, <3>2, CloseSInv DEF SInv
  <2>3. CASE Weigh(r) \/ MoveMoney(r) \/ StampReleased(r)
    <3>1. PICK place \in {"moving", "stamping", "resolving"} :
            at' = [at EXCEPT ![r] = place]
      BY <2>3 DEF Weigh, MoveMoney, StampReleased, Goto
    <3>2. at[r] \in Handling /\ UNCHANGED <<on, about, standing, dispute>>
      BY <2>3 DEF Weigh, MoveMoney, StampReleased, Goto, Handling, Keep, KeepBeside
    <3> QED
      BY <2>0, <3>1, <3>2, MoveSInv DEF SInv
  <2>4. CASE Die(r)
    BY <2>0, <2>4, FinishSInv DEF Die, SInv
  <2> QED
    BY <1>2, <2>1, <2>2, <2>3, <2>4
<1> QED
  BY <1>1, <1>2 DEF Continue

LEMMA NextSInv == SInv /\ [Next]_vars => SInv'
<1>1. SInv /\ Next => SInv'
  BY StartSInv, StepSInv DEF Next
<1>2. SInv /\ UNCHANGED vars => SInv'
  BY DEF vars, contractVars, stageVars, requestVars, moneyVars, SInv, TInv, TypeOK, InFlight,
         Filing, Working, Standing, Cleared, LiveOn, IsLive
<1> QED
  BY <1>1, <1>2

\* Every variable has its type in every state the handlers can reach.
THEOREM TypeCorrect == Spec => []TypeOK
<1>1. SInv => TypeOK
  BY DEF SInv, TInv
<1> QED
  BY InitSInv, NextSInv, <1>1, PTL DEF Spec

\* releaseMilestone never pays a stage whose dispute was live when it loaded it
\* and ever since, whatever else the requests do.
THEOREM FrozenHolds == Spec => FrozenWhileDisputed
<1>1. SInv /\ [Next]_vars =>
        [\A r \in Requests :
           at[r] = "releasing" /\ at'[r] = "counting" => standing[r] = {}]_vars
  BY DEF SInv, Cleared
<1> QED
  BY InitSInv, NextSInv, <1>1, PTL DEF Spec, FrozenWhileDisputed

-----------------------------------------------------------------------------
(* One decision moves a dispute's money once *)

LEMMA InitDInv == Init => DInv
<1>1. ASSUME Init PROVE Fresh /\ Ahead /\ Once
  BY <1>1 DEF Init, Fresh, Ahead, Once
<1> QED
  BY <1>1, InitSInv DEF DInv

\* What is kept for every dispute is kept for every request on its way to one.
LEMMA KeptAhead ==
  ASSUME SInv, Ahead, NEW r \in Requests,
         \A q \in Requests \ {r} : at'[q] = at[q] /\ about'[q] = about[q],
         \A d \in Disputes :
           (\E q \in Requests \ {r} : at[q] \in Deciding /\ about[q] = d)
             => (Free(d) \/ Behind(d) => (Free(d) \/ Behind(d))'),
         at'[r] \in {"reviewing", "weighing", "moving"} =>
           (Free(about[r]) \/ Behind(about[r]))'
  PROVE  Ahead'
<1> SUFFICES ASSUME NEW q \in Requests, at'[q] \in {"reviewing", "weighing", "moving"}
             PROVE  (Free(about[q]) \/ Behind(about[q]))'
  BY DEF Ahead
<1>1. CASE q = r
  BY <1>1
<1>2. CASE q # r
  <2>1. at[q] = at'[q] /\ about[q] = about'[q]
    BY <1>2
  <2>2. PICK d \in Disputes : d = about[q] /\ d = about'[q]
    BY <2>1 DEF SInv, TInv, InFlight, Handling
  <2>3. (Free(d) \/ Behind(d)) /\ at[q] \in Deciding
    BY <2>1, <2>2 DEF Ahead, Deciding
  <2>4. (Free(d) \/ Behind(d))'
    BY <1>2, <2>2, <2>3
  <2> QED
    BY <2>2, <2>4 DEF Free, Behind
<1> QED
  BY <1>1, <1>2

\* A live dispute taken up by a supervisor is free, or another is behind it.
LEMMA LoadDInv ==
  ASSUME DInv, NEW r \in Requests, NEW place, NEW m,
         NEW d \in Disputes \cup {None},
         place \in {"reviewing", "weighing"} => d \in Disputes /\ IsLive(d),
         place \notin {"moving", "stamping", "resolving"},
         Load(r, place, m, d)
  PROVE  (Fresh /\ Ahead /\ Once)'
<1>1. /\ at[r] = "idle" /\ at'[r] = place /\ about'[r] = d
      /\ \A q \in Requests \ {r} : at'[q] = at[q] /\ about'[q] = about[q]
      /\ UNCHANGED <<dispute, moves, interrupted, contested>>
  BY DEF Load, moneyVars, DInv, SInv, TInv, TypeOK
<1>2. Fresh'
  BY <1>1 DEF DInv, Fresh
<1>3. ASSUME NEW e \in Disputes PROVE (Free(e)' <=> Free(e)) /\ (Behind(e) => Behind(e)')
  BY <1>1 DEF Behind, Free
<1>4. place \in {"reviewing", "weighing"} => (Free(about[r]) \/ Behind(about[r]))'
  <2> SUFFICES ASSUME place \in {"reviewing", "weighing"}
               PROVE  (Free(about[r]) \/ Behind(about[r]))'
    OBVIOUS
  <2>1. d \in Disputes /\ (Free(d) \/ Behind(d))
    BY DEF DInv, Once, IsLive
  <2>2. (Free(d) \/ Behind(d))'
    BY <1>3, <2>1
  <2> QED
    BY <1>1, <2>2 DEF Free, Behind
<1>5. Ahead'
  BY <1>1, <1>3, <1>4, KeptAhead DEF DInv
<1>6. Once'
  BY <1>1, <1>3 DEF DInv, Once, IsLive
<1> QED
  BY <1>2, <1>5, <1>6

\* A request that is not deciding, and goes on not deciding, has no part in it.
LEMMA AsideDInv ==
  ASSUME DInv, NEW r \in Requests, at[r] \notin Deciding, at'[r] \notin Deciding,
         \A q \in Requests \ {r} : at'[q] = at[q] /\ about'[q] = about[q],
         UNCHANGED <<dispute, moves, interrupted, contested>>
  PROVE  (Fresh /\ Ahead /\ Once)'
<1>1. Fresh'
  BY DEF DInv, Fresh
<1>2. ASSUME NEW d \in Disputes PROVE (Free(d)' <=> Free(d)) /\ (Behind(d) => Behind(d)')
  BY DEF Behind, Free, Deciding
<1>3. Ahead'
  BY <1>2, KeptAhead DEF DInv, Deciding
<1>4. Once'
  BY <1>2 DEF DInv, Once, IsLive
<1> QED
  BY <1>1, <1>3, <1>4

LEMMA FileDInv ==
  ASSUME DInv, NEW r \in Requests, FileDispute(r)
  PROVE  (Fresh /\ Ahead /\ Once)'
<1>0. about[r] \in Disputes /\ dispute[about[r]] = None /\ moves[about[r]] = 0
  BY DEF FileDispute, DInv, SInv, TInv, InFlight, Filing, Fresh
<1>1. /\ \A d \in Disputes \ {about[r]} : dispute'[d] = dispute[d]
      /\ at[r] = "filing" /\ at'[r] = "idle"
      /\ \A q \in Requests \ {r} : at'[q] = at[q] /\ about'[q] = about[q]
      /\ UNCHANGED <<moves, interrupted, contested>>
  BY DEF FileDispute, Finish, Keep, moneyVars, DInv, SInv, TInv, TypeOK
<1>2. Fresh'
  BY <1>0, <1>1 DEF DInv, Fresh
<1>3. ASSUME NEW d \in Disputes
      PROVE  (Free(d) => Free(d)') /\ (Behind(d) => Behind(d)')
  BY <1>0, <1>1 DEF Behind, Free
<1>4. Ahead'
  BY <1>1, <1>3, KeptAhead DEF DInv
<1>5. Once'
  <2> SUFFICES ASSUME NEW d \in Disputes, dispute'[d] # None
               PROVE  Free(d)' \/ (moves'[d] = 1 /\ (IsLive(d)' => Behind(d)'))
    BY DEF Once
  <2>1. CASE d = about[r]
    BY <1>0, <1>1, <2>1 DEF Free
  <2>2. CASE d # about[r]
    BY <1>1, <1>3, <2>2 DEF DInv, Once, IsLive
  <2> QED
    BY <2>1, <2>2
<1> QED
  BY <1>2, <1>4, <1>5

\* A closed dispute needs nobody behind it, unless another still works on it; one put
\* under review is as it was.
LEMMA CloseDInv ==
  ASSUME DInv, NEW r \in Requests, NEW st \in DisputeStatus, at[r] \in Handling,
         CloseOrReview(r, st), UNCHANGED <<moves, interrupted>>,
         at[r] \in {"reviewing", "withdrawing", "resolving"},
         st \in {"OPEN", "UNDER_REVIEW"} => at[r] = "reviewing",
         contested' = IF at[r] = "resolving" THEN Contested(r) ELSE contested
  PROVE  (Fresh /\ Ahead /\ Once)'
<1>0. about[r] \in Disputes /\ dispute[about[r]] \in Dispute
  BY DEF DInv, SInv, TInv, TypeOK, InFlight, Working, Handling
<1>d. /\ \A d \in Disputes \ {about[r]} : dispute'[d] = dispute[d]
      /\ dispute'[about[r]].target = dispute[about[r]].target
      /\ dispute'[about[r]].status = st
      /\ dispute[about[r]] # None /\ dispute'[about[r]] # None
  <2>1. dispute'[about[r]] = [dispute[about[r]] EXCEPT !.status = st]
    BY <1>0 DEF CloseOrReview, DInv, SInv, TInv, TypeOK
  <2>2. dispute'[about[r]] \in Dispute /\ dispute[about[r]] # None
    BY <1>0, <2>1, BuildAssumption DEF Dispute
  <2> QED
    BY <1>0, <2>1, <2>2, BuildAssumption DEF Dispute, CloseOrReview, DInv, SInv, TInv, TypeOK
<1>a. /\ at'[r] = "idle"
      /\ \A q \in Requests \ {r} : at'[q] = at[q] /\ about'[q] = about[q]
  BY DEF CloseOrReview, DInv, SInv, TInv, TypeOK
<1>c. contested \subseteq contested'
  BY DEF Contested
<1>2. Fresh'
  BY <1>d DEF DInv, Fresh
<1>f. ASSUME NEW d \in Disputes, Free(d) PROVE Free(d)'
  BY <1>f, <1>d, <1>c DEF Free
<1>b. ASSUME NEW d \in Disputes, Behind(d), at[r] # "resolving" \/ d # about[r]
      PROVE  Behind(d)'
  BY <1>b, <1>a DEF Behind
<1>3. Ahead'
  <2>1. ASSUME NEW d \in Disputes, NEW q \in Requests \ {r}, at[q] \in Deciding,
               about[q] = d, Free(d) \/ Behind(d)
        PROVE  (Free(d) \/ Behind(d))'
    <3>1. CASE at[r] = "resolving" /\ d = about[r]
      <4>1. d \in contested'
        BY <2>1, <3>1 DEF Contested, MeetsOnDispute
      <4> QED
        BY <4>1 DEF Free
    <3>2. CASE at[r] # "resolving" \/ d # about[r]
      BY <2>1, <3>2, <1>f, <1>b
    <3> QED
      BY <3>1, <3>2
  <2> QED
    BY <2>1, <1>a, KeptAhead DEF DInv
<1>4. Once'
  <2> SUFFICES ASSUME NEW d \in Disputes, dispute'[d] # None, ~Free(d)'
               PROVE  moves'[d] = 1 /\ (IsLive(d)' => Behind(d)')
    BY DEF Once
  <2>1. dispute[d] # None /\ ~Free(d)
    BY <1>d, <1>f
  <2>2. moves[d] = 1 /\ (IsLive(d) => Behind(d))
    BY <2>1 DEF DInv, Once
  <2>3. CASE d = about[r]
    <3>1. st \in {"OPEN", "UNDER_REVIEW"} => Behind(d)'
      <4> SUFFICES ASSUME at[r] = "reviewing" PROVE Behind(d)'
        OBVIOUS
      <4>1. Behind(d)
        BY <2>1, <2>3 DEF DInv, Ahead
      <4> QED
        BY <4>1, <1>b
    <3> QED
      BY <2>2, <2>3, <3>1, <1>d DEF IsLive
  <2>4. CASE d # about[r]
    <3>1. IsLive(d)' = IsLive(d)
      BY <2>4, <1>d DEF IsLive
    <3> QED
      BY <2>2, <2>4, <3>1, <1>b
  <2> QED
    BY <2>3, <2>4
<1> QED
  BY <1>2, <1>3, <1>4

\* A decision that meets no other moves money that nobody has moved, and nobody else
\* is on the way to.
LEMMA MoneyDInv ==
  ASSUME DInv, NEW r \in Requests, MoveMoney(r)
  PROVE  (Fresh /\ Ahead /\ Once)'
<1>0. /\ at[r] = "moving" /\ about[r] \in Disputes /\ dispute[about[r]] # None
      /\ Free(about[r]) \/ Behind(about[r])
  BY DEF MoveMoney, DInv, SInv, TInv, InFlight, Working, Handling, Ahead
<1>m. /\ moves'[about[r]] = moves[about[r]] + 1
      /\ \A d \in Disputes \ {about[r]} : moves'[d] = moves[d]
      /\ moves \in [Disputes -> Nat]
  <2>1. moves' = [moves EXCEPT ![about[r]] = moves[about[r]] + 1] /\ moves \in [Disputes -> Nat]
    BY DEF MoveMoney, DInv, SInv, TInv, TypeOK
  <2> QED
    BY <1>0, <2>1
<1>a. /\ at'[r] \in {"stamping", "resolving"} /\ about' = about
      /\ \A q \in Requests \ {r} : at'[q] = at[q]
      /\ contested' = Contested(r) /\ UNCHANGED <<dispute, interrupted>>
  BY DEF MoveMoney, Goto, DInv, SInv, TInv, TypeOK
<1>b. Behind(about[r])' /\ \A d \in Disputes : Behind(d) => Behind(d)'
  BY <1>0, <1>a DEF Behind
<1>c. contested \subseteq contested'
  BY <1>a DEF Contested
<1>2. Fresh'
  BY <1>0, <1>m, <1>a DEF DInv, Fresh
<1>f. ASSUME NEW d \in Disputes, d # about[r] PROVE Free(d) => Free(d)'
  BY <1>f, <1>m, <1>a, <1>c DEF Free
<1>3. Ahead'
  <2>1. ASSUME NEW d \in Disputes, Free(d) \/ Behind(d)
        PROVE  (Free(d) \/ Behind(d))'
    <3>1. CASE d = about[r]
      <4>1. PICK e \in Disputes : e = about[r] /\ e = about'[r]
        BY <1>0, <1>a
      <4>2. Behind(e)'
        BY <4>1, <1>b DEF Behind
      <4> QED
        BY <3>1, <4>1, <4>2
    <3>2. CASE d # about[r]
      BY <2>1, <3>2, <1>b, <1>f
    <3> QED
      BY <3>1, <3>2
  <2> QED
    BY <2>1, <1>a, KeptAhead DEF DInv
<1>4. Once'
  <2> SUFFICES ASSUME NEW d \in Disputes, dispute'[d] # None, ~Free(d)'
               PROVE  moves'[d] = 1 /\ (IsLive(d)' => Behind(d)')
    BY DEF Once
  <2>1. CASE d = about[r]
    <3>1. d \notin contested' /\ d \notin contested
      BY <1>c DEF Free
    <3>2. ~MeetsOnDispute(r)
      BY <3>1, <2>1, <1>a DEF Contested
    <3>3. ~Behind(d)
      BY <3>2, <2>1, <1>0 DEF MeetsOnDispute, Behind, Deciding
    <3>4. dispute[d].target \notin interrupted
      BY <1>a DEF Free
    <3>5. moves[d] = 0
      BY <1>0, <2>1, <3>1, <3>3, <3>4 DEF Free
    <3>6. PICK e \in Disputes : e = about[r] /\ e = about'[r]
      BY <1>0, <1>a
    <3>7. Behind(e)'
      BY <3>6, <1>b DEF Behind
    <3> QED
      BY <2>1, <3>5, <3>6, <3>7, <1>m
  <2>2. CASE d # about[r]
    <3>1. ~Free(d)
      BY <2>2, <1>f
    <3> QED
      BY <2>2, <1>m, <1>a, <1>b, <3>1 DEF DInv, Once, IsLive
  <2> QED
    BY <2>1, <2>2
<1> QED
  BY <1>2, <1>3, <1>4

\* A supervisor's request moves on: a dispute ahead is as it was, and one the
\* request is behind it stays behind.
LEMMA DecideDInv ==
  ASSUME DInv, NEW r \in Requests, Weigh(r) \/ StampReleased(r)
  PROVE  (Fresh /\ Ahead /\ Once)'
<1>a. /\ \A q \in Requests \ {r} : at'[q] = at[q]
      /\ at'[r] \in {"moving", "resolving"}
      /\ at'[r] = "moving" => at[r] = "weighing"
      /\ at[r] \in {"weighing", "stamping"}
      /\ UNCHANGED <<about, dispute, moves, interrupted, contested>>
  BY DEF DInv, SInv, TInv, TypeOK, Weigh, StampReleased, Goto, Keep, KeepBeside, moneyVars
<1>1. Fresh'
  BY <1>a DEF DInv, Fresh
<1>3. ASSUME NEW d \in Disputes PROVE (Free(d)' <=> Free(d)) /\ (Behind(d) => Behind(d)')
  BY <1>a DEF Behind, Free
<1>4. at'[r] = "moving" => (Free(about[r]) \/ Behind(about[r]))'
  <2> SUFFICES ASSUME at[r] = "weighing" PROVE (Free(about[r]) \/ Behind(about[r]))'
    BY <1>a
  <2>1. PICK d \in Disputes : d = about[r] /\ d = about'[r]
    BY <1>a DEF DInv, SInv, TInv, InFlight, Handling
  <2>2. (Free(d) \/ Behind(d))'
    BY <2>1, <1>3 DEF DInv, Ahead
  <2> QED
    BY <2>1, <2>2 DEF Free, Behind
<1>2. Ahead'
  BY <1>a, <1>3, <1>4, KeptAhead DEF DInv
<1>5. Once'
  BY <1>3, <1>a DEF DInv, Once, IsLive
<1> QED
  BY <1>1, <1>2, <1>5

\* A request that dies leaves its dispute on a stage it interrupted.
LEMMA DieDInv ==
  ASSUME DInv, NEW r \in Requests, Die(r)
  PROVE  (Fresh /\ Ahead /\ Once)'
<1>a. /\ at'[r] = "idle"
      /\ \A q \in Requests \ {r} : at'[q] = at[q] /\ about'[q] = about[q]
      /\ UNCHANGED <<dispute, moves, contested>>
      /\ interrupted' = interrupted \cup {on[r]}
  BY DEF DInv, SInv, TInv, TypeOK, Die, Finish, moneyVars
<1>1. Fresh'
  BY <1>a DEF DInv, Fresh
<1>2. ASSUME NEW d \in Disputes, Free(d) PROVE Free(d)'
  BY <1>2, <1>a DEF Free
<1>3. ASSUME NEW d \in Disputes, Behind(d) PROVE Behind(d)' \/ Free(d)'
  <2>1. PICK q \in Requests : at[q] \in {"stamping", "resolving"} /\ about[q] = d
    BY <1>3 DEF Behind
  <2>2. CASE q = r
    BY <2>1, <2>2, <1>a DEF DInv, SInv, Working, Handling, Free
  <2>3. CASE q # r
    BY <2>1, <2>3, <1>a DEF Behind
  <2> QED
    BY <2>2, <2>3
<1>4. Ahead'
  BY <1>a, <1>2, <1>3, KeptAhead DEF DInv
<1>5. Once'
  BY <1>a, <1>2, <1>3 DEF DInv, Once, IsLive
<1> QED
  BY <1>1, <1>4, <1>5

LEMMA StartDInv ==
  ASSUME DInv, NEW r \in Requests, Start(r)
  PROVE  DInv'
<1>0. SInv'
  BY StartSInv DEF DInv
<1>1. ASSUME NEW m \in Stages,
             \/ FundMilestone(r, m) \/ UpdateMilestone(r, m) \/ ClaimMilestone(r, m)
             \/ InspectMilestone(r, m) \/ ReleaseMilestone(r, m)
      PROVE  (Fresh /\ Ahead /\ Once)'
  <2>1. PICK place \in {"depositing", "editing", "claiming", "inspecting", "asking"} :
          Load(r, place, m, None)
    BY <1>1 DEF FundMilestone, UpdateMilestone, ClaimMilestone, InspectMilestone,
                ReleaseMilestone
  <2> QED
    BY <2>1, LoadDInv
<1>2. ASSUME NEW d \in Disputes, NEW m \in Stages, RaiseDispute(r, d, m)
      PROVE  (Fresh /\ Ahead /\ Once)'
  BY <1>2, LoadDInv DEF RaiseDispute
<1>3. ASSUME NEW d \in Disputes,
             ReviewDispute(r, d) \/ WithdrawDispute(r, d) \/ ResolveDispute(r, d)
      PROVE  (Fresh /\ Ahead /\ Once)'
  <2>1. PICK place \in {"reviewing", "withdrawing", "weighing"} :
          Load(r, place, dispute[d].target, d)
    BY <1>3 DEF ReviewDispute, WithdrawDispute, ResolveDispute
  <2>2. IsLive(d)
    BY <1>3 DEF ReviewDispute, WithdrawDispute, ResolveDispute, IsLive
  <2> QED
    BY <2>1, <2>2, LoadDInv
<1> QED
  BY <1>0, <1>1, <1>2, <1>3 DEF Start, DInv

LEMMA StepDInv ==
  ASSUME DInv, NEW r \in Requests, Continue(r) \/ Die(r)
  PROVE  DInv'
<1>0. SInv'
  BY StepSInv DEF DInv
<1>1. CASE \/ SaveDeposit(r) \/ MarkFunded(r) \/ SaveEdit(r) \/ SaveClaim(r)
           \/ SaveInspection(r) \/ AskDispute(r) \/ SaveReleased(r)
           \/ CountOutstanding(r) \/ CompleteProject(r) \/ PayRelease(r)
  <2>1. UNCHANGED <<dispute, moves, interrupted, contested>> /\ at[r] \notin Deciding
    BY <1>1, BuildStepShape DEF DInv, Deciding, Handling
  <2>2. /\ at'[r] \notin Deciding
        /\ \A q \in Requests \ {r} : at'[q] = at[q] /\ about'[q] = about[q]
    BY <1>1, BuildStepShape DEF DInv, SInv, TInv, TypeOK, Finish, Goto, Deciding, Handling
  <2> QED
    BY <1>0, <2>1, <2>2, AsideDInv DEF DInv
<1>2. CASE FileDispute(r)
  BY <1>0, <1>2, FileDInv DEF DInv
<1>3. CASE SaveReview(r) \/ SaveWithdrawal(r) \/ SaveResolution(r)
  <2>1. PICK st \in DisputeStatus :
          CloseOrReview(r, st) /\ (st \in {"OPEN", "UNDER_REVIEW"} => at[r] = "reviewing")
    BY <1>3 DEF SaveReview, SaveWithdrawal, SaveResolution, DisputeStatus
  <2>2. /\ at[r] \in Handling /\ UNCHANGED <<moves, interrupted>>
        /\ at[r] \in {"reviewing", "withdrawing", "resolving"}
        /\ contested' = IF at[r] = "resolving" THEN Contested(r) ELSE contested
    BY <1>3 DEF SaveReview, SaveWithdrawal, SaveResolution, Handling, Keep, moneyVars
  <2> QED
    BY <1>0, <2>1, <2>2, CloseDInv DEF DInv
<1>4. CASE Weigh(r) \/ StampReleased(r)
  BY <1>0, <1>4, DecideDInv DEF DInv
<1>5. CASE MoveMoney(r)
  BY <1>0, <1>5, MoneyDInv DEF DInv
<1>6. CASE Die(r)
  BY <1>0, <1>6, DieDInv DEF DInv
<1> QED
  BY <1>1, <1>2, <1>3, <1>4, <1>5, <1>6 DEF Continue

\* No dispute moves money twice, unless the request that decides it dies between moving
\* the money and closing it, or another supervisor was at work on it at one of the two.
THEOREM DecidedOnceHolds == Spec => []DecidedOnce
<1>1. DInv /\ [Next]_vars => DInv'
  <2>1. DInv /\ Next => DInv'
    BY StartDInv, StepDInv DEF Next
  <2>2. DInv /\ UNCHANGED vars => DInv'
    <3>1. SInv /\ UNCHANGED vars => SInv'
      BY NextSInv
    <3> QED
      BY <3>1 DEF vars, moneyVars, requestVars, DInv, Fresh, Ahead, Once, Free,
                  Behind, IsLive
  <2> QED
    BY <2>1, <2>2
<1>2. DInv => DecidedOnce
  BY DEF DInv, Once, Free, DecidedOnce
<1> QED
  BY InitDInv, <1>1, <1>2, PTL DEF Spec

-----------------------------------------------------------------------------
(* Each stage is backed by the deposits made for it *)

\* The requests at one of these places, for this stage.
At(places, m) == {r \in Requests : at[r] \in places /\ on[r] = m}

\* A decision that stamps a stage has moved its money.
StampsDecided == \A r \in Requests : at[r] = "stamping" => on[r] \in arbitrated

\* The status of the stage a request loaded.
LoadedStatus ==
  \A r \in Requests :
    /\ at[r] \in {"depositing", "marking", "editing"} => copy[r].stage.status = "PENDING"
    /\ at[r] = "claiming" => copy[r].stage.status = "FUNDED"
    /\ at[r] = "inspecting" => copy[r].stage.status = "AWAITING_INSPECTION"
    /\ at[r] \in Releasing => copy[r].stage.status = "INSPECTION_PASSED"

\* The money a condition stands for, and that of a deposit for each request of a set.
Worth(condition) == IF condition THEN Amount ELSE 0
Value(requests) == Amount * Cardinality(requests)

\* The writes of a status that are still to come and would change the stage: a deposit
\* marked, each, and what was loaded before the status became another, which only one of
\* those who loaded it may save before they are rivals.
Due(m) ==
  LET st == stage[m].status IN
    Value(At({"marking"}, m))
    + Worth(At({"claiming"}, m) # {} /\ st # "FUNDED")
    + Worth(At({"inspecting"}, m) # {} /\ st # "AWAITING_INSPECTION")
    + Worth(At(Releasing, m) # {} /\ st # "INSPECTION_PASSED")

Underway == {"FUNDED", "AWAITING_INSPECTION", "INSPECTION_PASSED"}

\* A deposit stands behind the stage's progress and behind each such write.
Earned(m) == Due(m) + Worth(stage[m].status # "PENDING") <= paidIn[m]

\* What was paid out, what may yet be, and what is being paid now were paid in.
Covered(m) ==
  paidOut[m] + Due(m) + Worth(stage[m].status \in Underway)
    + Value(At(Counting, m)) <= paidIn[m]

Backed == \A m \in Stages \ (arbitrated \cup rivals) : Earned(m) /\ Covered(m)

\* Who releases holds the total as it stands.
TotalCurrent ==
  arbitrated = {} /\ ~crossed =>
    /\ contract.released = ledgerOut
    /\ \A r \in Requests : at[r] \in Releasing \cup Counting =>
         copy[r].contract.released = contract.released

BInv == SInv /\ StampsDecided /\ LoadedStatus /\ Backed /\ TotalCurrent

LEMMA ValueNat ==
  ASSUME NEW S \in SUBSET Requests
  PROVE  Value(S) \in Nat
<1>1. Cardinality(S) \in Nat /\ Amount \in Nat
  BY BuildAssumption, FS_Subset, FS_CardinalityType
<1>2. \A n \in Nat : Amount * n \in Nat
  BY <1>1
<1> QED
  BY <1>1, <1>2 DEF Value

\* One request more is worth one deposit more.
LEMMA ValueMore ==
  ASSUME NEW S \in SUBSET Requests, NEW r \in Requests, r \notin S
  PROVE  Value(S \cup {r}) = Value(S) + Amount
<1>1. IsFiniteSet(S) /\ Amount \in Nat
  BY BuildAssumption, FS_Subset
<1>2. Cardinality(S) \in Nat /\ Cardinality(S \cup {r}) = Cardinality(S) + 1
  BY <1>1, FS_CardinalityType, FS_AddElement
<1>3. \A n \in Nat : Amount * (n + 1) = Amount * n + Amount
  BY <1>1
<1> QED
  BY <1>2, <1>3 DEF Value

\* A request that stays where it was, or elsewhere, changes no set of requests;
LEMMA AtStays ==
  ASSUME NEW r \in Requests, NEW places, NEW m,
         \A q \in Requests \ {r} : at'[q] = at[q] /\ on'[q] = on[q],
         (at'[r] \in places /\ on'[r] = m) <=> (at[r] \in places /\ on[r] = m)
  PROVE  At(places, m)' = At(places, m)
BY DEF At

\* one that comes adds a deposit's worth,
LEMMA AtComes ==
  ASSUME NEW r \in Requests, NEW places, NEW m,
         \A q \in Requests \ {r} : at'[q] = at[q] /\ on'[q] = on[q],
         at'[r] \in places, on'[r] = m, ~(at[r] \in places /\ on[r] = m)
  PROVE  Value(At(places, m)') = Value(At(places, m)) + Amount
<1>1. At(places, m)' = At(places, m) \cup {r} /\ r \notin At(places, m)
  BY DEF At
<1>2. At(places, m) \in SUBSET Requests
  BY DEF At
<1> QED
  BY <1>1, <1>2, ValueMore

\* and one that leaves takes it away.
LEMMA AtLeaves ==
  ASSUME NEW r \in Requests, NEW places, NEW m,
         \A q \in Requests \ {r} : at'[q] = at[q] /\ on'[q] = on[q],
         ~(at'[r] \in places /\ on'[r] = m), at[r] \in places, on[r] = m
  PROVE  Value(At(places, m)) = Value(At(places, m)') + Amount
<1>1. At(places, m) = At(places, m)' \cup {r} /\ r \notin At(places, m)'
  BY DEF At
<1>2. At(places, m)' \in SUBSET Requests
  BY DEF At
<1> QED
  BY <1>1, <1>2, ValueMore

\* Where only r moves, and not there, nobody comes and nothing is added.
LEMMA AtLess ==
  ASSUME NEW r \in Requests, NEW places, NEW m,
         \A q \in Requests \ {r} : at'[q] = at[q] /\ on'[q] = on[q],
         at'[r] \in places /\ on'[r] = m => at[r] \in places /\ on[r] = m
  PROVE  /\ At(places, m)' \subseteq At(places, m)
         /\ Value(At(places, m)') <= Value(At(places, m))
<1>1. At(places, m)' \subseteq At(places, m)
  BY DEF At
<1>2. /\ Value(At(places, m)) \in Nat /\ Value(At(places, m)') \in Nat
      /\ Amount \in Nat
  <2>1. At(places, m) \in SUBSET Requests /\ At(places, m)' \in SUBSET Requests
    BY DEF At
  <2> QED
    BY <2>1, ValueNat, BuildAssumption
<1>3. \/ Value(At(places, m)') = Value(At(places, m))
      \/ Value(At(places, m)) = Value(At(places, m)') + Amount
  BY AtStays, AtLeaves
<1> QED
  BY <1>1, <1>2, <1>3

\* What the arithmetic of a stage is about.
LEMMA StageNumbers ==
  ASSUME TInv, NEW m \in Stages
  PROVE  /\ Amount \in Nat /\ paidIn[m] \in Nat /\ paidOut[m] \in Nat
         /\ stage[m].status \in MilestoneStatus
         /\ Value(At({"marking"}, m)) \in Nat /\ Value(At({"marking"}, m)') \in Nat
         /\ Value(At(Counting, m)) \in Nat /\ Value(At(Counting, m)') \in Nat
<1>1. \A places : At(places, m) \in SUBSET Requests /\ At(places, m)' \in SUBSET Requests
  BY DEF At
<1> QED
  BY <1>1, ValueNat, BuildAssumption DEF TInv, TypeOK, Stage

\* A request that takes up a stage only as it is, or leaves it alone, owes it nothing.
LEMMA LessBacked ==
  ASSUME TInv, NEW r \in Requests, NEW m \in Stages, Earned(m), Covered(m),
         \A q \in Requests \ {r} : at'[q] = at[q] /\ on'[q] = on[q],
         stage'[m].status = stage[m].status,
         paidIn'[m] = paidIn[m], paidOut'[m] = paidOut[m],
         at'[r] \in {"marking"} /\ on'[r] = m => at[r] \in {"marking"} /\ on[r] = m,
         (at'[r] \in {"claiming"} /\ on'[r] = m => at[r] \in {"claiming"} /\ on[r] = m)
           \/ stage[m].status = "FUNDED",
         (at'[r] \in {"inspecting"} /\ on'[r] = m => at[r] \in {"inspecting"} /\ on[r] = m)
           \/ stage[m].status = "AWAITING_INSPECTION",
         (at'[r] \in Releasing /\ on'[r] = m => at[r] \in Releasing /\ on[r] = m)
           \/ stage[m].status = "INSPECTION_PASSED",
         at'[r] \in Counting /\ on'[r] = m => at[r] \in Counting /\ on[r] = m
  PROVE  Earned(m)' /\ Covered(m)'
<1>1. /\ Value(At({"marking"}, m)') <= Value(At({"marking"}, m))
      /\ Value(At(Counting, m)') <= Value(At(Counting, m))
  BY AtLess
<1>2. At({"claiming"}, m)' # {} /\ stage[m].status # "FUNDED" => At({"claiming"}, m) # {}
  BY AtLess
<1>3. At({"inspecting"}, m)' # {} /\ stage[m].status # "AWAITING_INSPECTION"
        => At({"inspecting"}, m) # {}
  BY AtLess
<1>4. At(Releasing, m)' # {} /\ stage[m].status # "INSPECTION_PASSED"
        => At(Releasing, m) # {}
  BY AtLess
<1> QED
  BY <1>1, <1>2, <1>3, <1>4, StageNumbers DEF Earned, Covered, Due, Worth

\* A deposit entered is a deposit more, and a mark to come.
LEMMA DepositBacked ==
  ASSUME BInv, NEW r \in Requests, SaveDeposit(r), NEW m \in Stages, Earned(m), Covered(m),
         on[r] = m
  PROVE  Earned(m)' /\ Covered(m)'
<1>1. /\ \A q \in Requests \ {r} : at'[q] = at[q] /\ on'[q] = on[q]
      /\ at[r] = "depositing" /\ at'[r] = "marking" /\ on'[r] = m
      /\ stage' = stage /\ paidOut' = paidOut
      /\ paidIn'[m] = paidIn[m] + Amount
  BY DEF SaveDeposit, Goto, KeepBeside, stageVars, BInv, SInv, TInv, TypeOK
<1>2. Value(At({"marking"}, m)') = Value(At({"marking"}, m)) + Amount
  BY <1>1, AtComes
<1>3. /\ At({"claiming"}, m)' = At({"claiming"}, m)
      /\ At({"inspecting"}, m)' = At({"inspecting"}, m)
      /\ At(Releasing, m)' = At(Releasing, m)
      /\ At(Counting, m)' = At(Counting, m)
  BY <1>1, AtStays DEF Releasing, Counting
<1>4. TInv
  BY DEF BInv, SInv
<1> QED
  BY <1>1, <1>2, <1>3, <1>4, StageNumbers DEF Earned, Covered, Due, Worth

\* What a save leaves of the stage's status, and that it touches no other stage.
LEMMA StatusSaved ==
  ASSUME TInv, NEW r \in Requests, at[r] # "idle", NEW new \in Stage, SaveStage(r, new)
  PROVE  /\ new.status # copy[r].stage.status => stage'[on[r]].status = new.status
         /\ new.status = copy[r].stage.status => stage'[on[r]].status = stage[on[r]].status
         /\ \A m \in Stages \ {on[r]} : stage'[m] = stage[m]
BY DEF SaveStage, Written, TInv, TypeOK, InFlight

LEMMA StatusMarked ==
  ASSUME TInv, NEW r \in Requests, at[r] # "idle", NEW st \in MilestoneStatus,
         SaveStageStatus(r, st)
  PROVE  /\ st # copy[r].stage.status => stage'[on[r]].status = st
         /\ st = copy[r].stage.status => stage'[on[r]].status = stage[on[r]].status
         /\ \A m \in Stages \ {on[r]} : stage'[m] = stage[m]
<1>1. copy[r].stage \in Stage
  BY DEF TInv, InFlight, Copy
<1>2. PICK new \in Stage : new.status = st /\ SaveStage(r, new)
  BY <1>1 DEF Stage, SaveStageStatus
<1> QED
  BY <1>2, StatusSaved

\* A stage that a save leaves without rivals had nobody else in the same round.
LEMMA RoundAlone ==
  ASSUME TInv, NEW r \in Requests, NEW m \in Stages, on[r] = m, m \notin rivals',
         NEW new, SaveStage(r, new), NEW places \in Rounds, at[r] \in places
  PROVE  m \notin rivals /\ At(places, m) = {r}
<1>1. ~MeetsInRound(r) /\ m \notin rivals
  BY DEF SaveStage
<1>2. \A q \in Requests \ {r} : on[q] = m => at[q] \notin places
  BY <1>1 DEF MeetsInRound
<1> QED
  BY <1>1, <1>2 DEF At

\* A handler that answers after marking a stage: what others had loaded of it may
\* become a debt, but not more than the request's own.
LEMMA MarkBacked ==
  ASSUME BInv, NEW r \in Requests, NEW st \in MilestoneStatus,
         SaveStageStatus(r, st), Finish(r), UNCHANGED moneyVars,
         \/ at[r] = "marking" /\ st = "FUNDED"
         \/ at[r] = "claiming" /\ st = "AWAITING_INSPECTION"
         \/ at[r] = "inspecting" /\ st \in {"INSPECTION_PASSED", "FUNDED"},
         NEW m \in Stages, Earned(m), Covered(m), m \notin rivals', on[r] = m
  PROVE  Earned(m)' /\ Covered(m)'
<1>0. TInv
  BY DEF BInv, SInv
<1>1. /\ \A q \in Requests \ {r} : at'[q] = at[q] /\ on'[q] = on[q]
      /\ at'[r] = "idle"
      /\ paidIn' = paidIn /\ paidOut' = paidOut
  BY DEF Finish, moneyVars, BInv, SInv, TInv, TypeOK
<1>s. stage'[m].status = st
  <2>1. st # copy[r].stage.status
    BY DEF BInv, LoadedStatus
  <2> QED
    BY <1>0, <2>1, StatusMarked
<1>c. /\ At(Counting, m)' = At(Counting, m)
      /\ At(Releasing, m)' = At(Releasing, m)
  BY <1>1, AtStays DEF Counting, Releasing
<1>2. ASSUME at[r] = "marking", st = "FUNDED"
      PROVE  Earned(m)' /\ Covered(m)'
  <2>1. /\ At({"claiming"}, m)' = At({"claiming"}, m)
        /\ At({"inspecting"}, m)' = At({"inspecting"}, m)
    BY <1>1, <1>2, AtStays
  <2>2. Value(At({"marking"}, m)) = Value(At({"marking"}, m)') + Amount
    BY <1>1, <1>2, AtLeaves
  <2> QED
    BY <1>2, <1>0, <1>1, <1>s, <1>c, <2>1, <2>2, StageNumbers
    DEF Earned, Covered, Due, Worth, Underway, MilestoneStatus
<1>3. ASSUME at[r] = "claiming", st = "AWAITING_INSPECTION"
      PROVE  Earned(m)' /\ Covered(m)'
  <2>1. /\ At({"marking"}, m)' = At({"marking"}, m)
        /\ At({"inspecting"}, m)' = At({"inspecting"}, m)
    BY <1>1, <1>3, AtStays
  <2>2. At({"claiming"}, m) = {r}
    BY <1>0, <1>3, RoundAlone DEF SaveStageStatus, Rounds
  <2>3. At({"claiming"}, m)' = {}
    BY <1>1, <2>2 DEF At
  <2> QED
    BY <1>3, <1>0, <1>1, <1>s, <1>c, <2>1, <2>2, <2>3, StageNumbers
    DEF Earned, Covered, Due, Worth, Underway, MilestoneStatus
<1>4. ASSUME at[r] = "inspecting", st \in {"INSPECTION_PASSED", "FUNDED"}
      PROVE  Earned(m)' /\ Covered(m)'
  <2>1. /\ At({"marking"}, m)' = At({"marking"}, m)
        /\ At({"claiming"}, m)' = At({"claiming"}, m)
    BY <1>1, <1>4, AtStays
  <2>2. At({"inspecting"}, m) = {r}
    BY <1>0, <1>4, RoundAlone DEF SaveStageStatus, Rounds
  <2>3. At({"inspecting"}, m)' = {}
    BY <1>1, <2>2 DEF At
  <2> QED
    BY <1>4, <1>0, <1>1, <1>s, <1>c, <2>1, <2>2, <2>3, StageNumbers
    DEF Earned, Covered, Due, Worth, Underway, MilestoneStatus
<1> QED
  BY <1>2, <1>3, <1>4

\* A release turns what the stage holds, or a debt, into a payment.
LEMMA ReleaseBacked ==
  ASSUME BInv, NEW r \in Requests, SaveReleased(r),
         NEW m \in Stages, Earned(m), Covered(m), m \notin rivals', on[r] = m
  PROVE  Earned(m)' /\ Covered(m)'
<1>0. TInv /\ at[r] = "releasing"
  BY DEF SaveReleased, BInv, SInv
<1>1. /\ \A q \in Requests \ {r} : at'[q] = at[q] /\ on'[q] = on[q]
      /\ at'[r] = "counting" /\ on'[r] = m
      /\ paidIn' = paidIn /\ paidOut' = paidOut
  BY DEF SaveReleased, Goto, KeepBeside, moneyVars, BInv, SInv, TInv, TypeOK
<1>s. stage'[m].status = "RELEASED"
  <2>1. [status |-> "RELEASED", paid |-> Net] \in Stage
    BY BuildAssumption DEF Stage, MilestoneStatus, Net
  <2>2. copy[r].stage.status = "INSPECTION_PASSED"
    BY <1>0 DEF BInv, LoadedStatus, Releasing
  <2> QED
    BY <1>0, <2>1, <2>2, StatusSaved DEF SaveReleased
<1>2. /\ At({"marking"}, m)' = At({"marking"}, m)
      /\ At({"claiming"}, m)' = At({"claiming"}, m)
      /\ At({"inspecting"}, m)' = At({"inspecting"}, m)
  BY <1>0, <1>1, AtStays
<1>3. At(Releasing, m) = {r}
  BY <1>0, RoundAlone DEF SaveReleased, Rounds, Releasing
<1>4. At(Releasing, m)' = {}
  BY <1>1, <1>3 DEF At, Releasing
<1>5. Value(At(Counting, m)') = Value(At(Counting, m)) + Amount
  <2>1. at'[r] \in Counting /\ at[r] \notin Counting
    BY <1>0, <1>1 DEF Counting
  <2> QED
    BY <1>1, <2>1, AtComes
<1> QED
  BY <1>0, <1>1, <1>s, <1>2, <1>3, <1>4, <1>5, StageNumbers
  DEF Earned, Covered, Due, Worth, Underway, MilestoneStatus

\* The contract's save pays no more than the release set aside.
LEMMA PaymentBacked ==
  ASSUME BInv, NEW r \in Requests, PayRelease(r),
         NEW m \in Stages, Earned(m), Covered(m), on[r] = m
  PROVE  Earned(m)' /\ Covered(m)'
<1>0. TInv /\ at[r] \in {"paying", "payingLast"} /\ Net \in 0 .. Amount
  BY BuildAssumption DEF PayRelease, BInv, SInv, Net
<1>1. /\ \A q \in Requests \ {r} : at'[q] = at[q] /\ on'[q] = on[q]
      /\ at'[r] = "idle"
      /\ stage' = stage /\ paidIn' = paidIn
      /\ paidOut'[m] = paidOut[m] + Net
  BY DEF PayRelease, Finish, KeepBeside, stageVars, BInv, SInv, TInv, TypeOK
<1>2. /\ At({"marking"}, m)' = At({"marking"}, m)
      /\ At({"claiming"}, m)' = At({"claiming"}, m)
      /\ At({"inspecting"}, m)' = At({"inspecting"}, m)
      /\ At(Releasing, m)' = At(Releasing, m)
  BY <1>0, <1>1, AtStays DEF Releasing
<1>3. Value(At(Counting, m)) = Value(At(Counting, m)') + Amount
  <2>1. at[r] \in Counting /\ at'[r] \notin Counting
    BY <1>0, <1>1 DEF Counting
  <2> QED
    BY <1>1, <2>1, AtLeaves
<1> QED
  BY <1>0, <1>1, <1>2, <1>3, StageNumbers DEF Earned, Covered, Due, Worth

\* Who takes up a stage, and in which status.
Takes(r, place, m) ==
  LET st == stage[m].status IN
  \/ place = "depositing" /\ Role[r] \in {"owner", "gateway"} /\ st = "PENDING"
  \/ place = "editing" /\ Role[r] = "owner" /\ st = "PENDING"
  \/ place = "claiming" /\ Role[r] = "contractor" /\ st = "FUNDED"
  \/ place = "inspecting" /\ Role[r] = "engineer" /\ st = "AWAITING_INSPECTION"
  \/ place = "asking" /\ Role[r] = "owner" /\ st = "INSPECTION_PASSED"
  \/ place \in {"filing", "reviewing", "withdrawing"}
  \/ place = "weighing" /\ Role[r] = "supervisor"

LEMMA StartTakes ==
  ASSUME TInv, NEW r \in Requests, Start(r)
  PROVE  \E place \in Places, m \in Stages, d \in Disputes \cup {None} :
           Takes(r, place, m) /\ Load(r, place, m, d)
<1>1. ASSUME NEW m \in Stages,
             \/ FundMilestone(r, m) \/ UpdateMilestone(r, m) \/ ClaimMilestone(r, m)
             \/ InspectMilestone(r, m) \/ ReleaseMilestone(r, m)
      PROVE  \E place \in Places : Takes(r, place, m) /\ Load(r, place, m, None)
  BY <1>1 DEF FundMilestone, UpdateMilestone, ClaimMilestone, InspectMilestone,
              ReleaseMilestone, Takes, Places
<1>2. ASSUME NEW d \in Disputes, NEW m \in Stages, RaiseDispute(r, d, m)
      PROVE  \E place \in Places : Takes(r, place, m) /\ Load(r, place, m, d)
  BY <1>2 DEF RaiseDispute, Takes, Places
<1>3. ASSUME NEW d \in Disputes,
             ReviewDispute(r, d) \/ WithdrawDispute(r, d) \/ ResolveDispute(r, d)
      PROVE  \E place \in Places, m \in Stages : Takes(r, place, m) /\ Load(r, place, m, d)
  <2>1. dispute[d].target \in Stages
    BY <1>3 DEF ReviewDispute, WithdrawDispute, ResolveDispute, IsLive, TInv, TypeOK, Dispute
  <2>2. \E place \in Places :
          Takes(r, place, dispute[d].target) /\ Load(r, place, dispute[d].target, d)
    BY <1>3 DEF ReviewDispute, WithdrawDispute, ResolveDispute, Takes, Places
  <2> QED
    BY <2>1, <2>2
<1> QED
  BY <1>1, <1>2, <1>3 DEF Start

LEMMA LoadBInv ==
  ASSUME BInv, TInv', NEW r \in Requests, NEW place \in Places, NEW m \in Stages,
         NEW d, Takes(r, place, m), Load(r, place, m, d)
  PROVE  (StampsDecided /\ LoadedStatus /\ Backed /\ TotalCurrent)'
<1> USE DEF BInv, SInv, TInv, TypeOK
<1>1. /\ \A q \in Requests \ {r} : at'[q] = at[q] /\ on'[q] = on[q] /\ copy'[q] = copy[q]
      /\ at[r] = "idle" /\ at'[r] = place /\ on'[r] = m
      /\ copy'[r].contract = contract /\ copy'[r].stage = stage[m]
      /\ UNCHANGED <<contract, ledgerOut, stage, paidIn, paidOut, arbitrated, rivals, crossed>>
  BY DEF Load, contractVars, stageVars, moneyVars
<1>2. StampsDecided'
  BY <1>1 DEF StampsDecided, Takes
<1>3. LoadedStatus'
  BY <1>1 DEF LoadedStatus, Takes, Releasing
<1>4. ASSUME NEW n \in Stages \ (arbitrated \cup rivals)
      PROVE  Earned(n)' /\ Covered(n)'
  <2>1. Earned(n) /\ Covered(n)
    BY DEF Backed
  <2>2. /\ place # "marking" /\ place \notin Counting
        /\ place = "claiming" => stage[m].status = "FUNDED"
        /\ place = "inspecting" => stage[m].status = "AWAITING_INSPECTION"
        /\ place \in Releasing => stage[m].status = "INSPECTION_PASSED"
    BY DEF Takes, Releasing, Counting
  <2> QED
    BY <1>1, <2>1, <2>2, LessBacked
<1>5. Backed'
  BY <1>1, <1>4 DEF Backed
<1>6. TotalCurrent'
  BY <1>1 DEF TotalCurrent
<1> QED
  BY <1>2, <1>3, <1>5, <1>6

\* The handlers that neither enter money nor mark a stage nobody decided on: they keep
\* their debts, or drop them.
Indifferent(r) ==
  \/ SaveEdit(r) \/ AskDispute(r) \/ CountOutstanding(r) \/ CompleteProject(r)
  \/ FileDispute(r) \/ SaveReview(r) \/ SaveWithdrawal(r)
  \/ Weigh(r) \/ MoveMoney(r) \/ StampReleased(r) \/ SaveResolution(r) \/ Die(r)

\* Where the step of a handler leads.
Leads(r) ==
  \/ at'[r] \in {"idle", "moving", "stamping", "resolving"}
  \/ on'[r] = on[r] /\ at[r] = "asking" /\ at'[r] = "releasing"
  \/ on'[r] = on[r] /\ at[r] \in Counting /\ at'[r] \in Counting

LEMMA IndifferentLeads ==
  ASSUME SInv, NEW r \in Requests, Indifferent(r)
  PROVE  /\ \A q \in Requests \ {r} : at'[q] = at[q] /\ on'[q] = on[q] /\ copy'[q] = copy[q]
         /\ at[r] # "idle" /\ paidIn' = paidIn
         /\ Leads(r)
         /\ at'[r] \in {"releasing"} \cup Counting => copy'[r] = copy[r]
<1> USE DEF SInv, TInv, TypeOK, Leads, Keep, KeepBeside, moneyVars, Counting
<1>1. CASE SaveEdit(r)
  BY <1>1 DEF SaveEdit, Finish
<1>2. CASE AskDispute(r)
  BY <1>2 DEF AskDispute, Finish, Goto
<1>3. CASE CountOutstanding(r)
  BY <1>3 DEF CountOutstanding, Goto
<1>4. CASE CompleteProject(r)
  BY <1>4 DEF CompleteProject, Goto
<1>5. CASE FileDispute(r)
  BY <1>5 DEF FileDispute, Finish
<1>6. CASE SaveReview(r) \/ SaveWithdrawal(r) \/ SaveResolution(r)
  BY <1>6 DEF SaveReview, SaveWithdrawal, SaveResolution, CloseOrReview
<1>7. CASE Weigh(r)
  BY <1>7 DEF Weigh
<1>8. CASE MoveMoney(r) \/ StampReleased(r)
  BY <1>8 DEF MoveMoney, StampReleased, Goto
<1>9. CASE Die(r)
  BY <1>9 DEF Die, Finish
<1> QED
  BY <1>1, <1>2, <1>3, <1>4, <1>5, <1>6, <1>7, <1>8, <1>9 DEF Indifferent

\* They leave the stages nobody decided on, and what was paid for them, as they are.
LEMMA IndifferentLeaves ==
  ASSUME BInv, NEW r \in Requests, Indifferent(r)
  PROVE  /\ \A m \in Stages \ arbitrated' :
              stage'[m].status = stage[m].status /\ paidOut'[m] = paidOut[m]
         /\ arbitrated \subseteq arbitrated'
         /\ arbitrated' = {} =>
              /\ ledgerOut' = ledgerOut /\ contract' = contract
<1> USE DEF BInv, SInv, TInv, TypeOK
<1>1. CASE SaveEdit(r)
  <2>1. copy[r].stage \in Stage /\ SaveStage(r, copy[r].stage)
    BY <1>1 DEF SaveEdit, InFlight, Copy
  <2>2. \A m \in Stages : stage'[m].status = stage[m].status
    BY <1>1, <2>1, StatusSaved DEF SaveEdit
  <2> QED
    BY <1>1, <2>2 DEF SaveEdit, KeepBeside, contractVars, moneyVars
<1>2. CASE AskDispute(r) \/ CountOutstanding(r) \/ CompleteProject(r)
  BY <1>2 DEF AskDispute, CountOutstanding, CompleteProject, Keep, contractVars, stageVars,
              moneyVars
<1>3. CASE \/ FileDispute(r) \/ SaveReview(r) \/ SaveWithdrawal(r) \/ SaveResolution(r)
           \/ Weigh(r) \/ Die(r)
  BY <1>3 DEF FileDispute, SaveReview, SaveWithdrawal, SaveResolution, Weigh, Die, Keep,
              contractVars, stageVars, moneyVars
<1>4. CASE MoveMoney(r)
  BY <1>4 DEF MoveMoney, stageVars, InFlight
<1>5. CASE StampReleased(r)
  <2>1. on[r] \in arbitrated /\ arbitrated' = arbitrated /\ paidOut' = paidOut
    BY <1>5 DEF StampReleased, StampsDecided, KeepBeside, moneyVars
  <2>2. \A m \in Stages \ {on[r]} : stage'[m] = stage[m]
    BY <1>5, <2>1 DEF StampReleased, SaveStage
  <2> QED
    BY <1>5, <2>1, <2>2 DEF StampReleased, KeepBeside, contractVars, moneyVars
<1> QED
  BY <1>1, <1>2, <1>3, <1>4, <1>5 DEF Indifferent

\* What history remembers of the meetings of requests, it never forgets.
LEMMA HistoryGrows ==
  ASSUME TypeOK, NEW r \in Requests, Start(r) \/ Continue(r) \/ Die(r)
  PROVE  rivals \subseteq rivals' /\ (crossed => crossed')
<1>1. ASSUME NEW new, SaveContract(r, new) \/ SaveStage(r, new)
      PROVE  rivals \subseteq rivals' /\ (crossed => crossed')
  BY <1>1 DEF SaveContract, SaveStage, TypeOK
<1>2. CASE Start(r)
  <2>1. PICK place, m, d : Load(r, place, m, d)
    BY <1>2 DEF Start, FundMilestone, UpdateMilestone, ClaimMilestone, InspectMilestone,
                ReleaseMilestone, RaiseDispute, ReviewDispute, WithdrawDispute, ResolveDispute
  <2> QED
    BY <2>1 DEF Load, TypeOK
<1>3. CASE SaveDeposit(r) \/ PayRelease(r)
  BY <1>1, <1>3 DEF SaveDeposit, PayRelease
<1>4. CASE MarkFunded(r) \/ SaveEdit(r) \/ SaveClaim(r) \/ SaveInspection(r)
           \/ SaveReleased(r) \/ StampReleased(r)
  BY <1>1, <1>4 DEF MarkFunded, SaveEdit, SaveClaim, SaveInspection, SaveReleased,
                    StampReleased, SaveStageStatus
<1>5. CASE AskDispute(r) \/ CountOutstanding(r) \/ CompleteProject(r) \/ FileDispute(r)
           \/ SaveReview(r) \/ SaveWithdrawal(r) \/ Weigh(r) \/ SaveResolution(r)
  BY <1>5 DEF AskDispute, CountOutstanding, CompleteProject, FileDispute, SaveReview,
              SaveWithdrawal, Weigh, SaveResolution, Keep
<1>6. CASE MoveMoney(r) \/ Die(r)
  BY <1>6 DEF MoveMoney, Die
<1> QED
  BY <1>2, <1>3, <1>4, <1>5, <1>6 DEF Continue

LEMMA IndifferentBInv ==
  ASSUME BInv, TInv', NEW r \in Requests, Indifferent(r)
  PROVE  (StampsDecided /\ LoadedStatus /\ Backed /\ TotalCurrent)'
<1> USE DEF BInv, SInv, TInv, TypeOK
<1>1. /\ \A q \in Requests \ {r} : at'[q] = at[q] /\ on'[q] = on[q] /\ copy'[q] = copy[q]
      /\ at[r] # "idle" /\ paidIn' = paidIn
      /\ Leads(r)
      /\ at'[r] \in {"releasing"} \cup Counting => copy'[r] = copy[r]
  BY IndifferentLeads
<1>2. /\ \A m \in Stages \ arbitrated' :
           stage'[m].status = stage[m].status /\ paidOut'[m] = paidOut[m]
      /\ arbitrated \subseteq arbitrated'
      /\ arbitrated' = {} => ledgerOut' = ledgerOut /\ contract' = contract
  BY IndifferentLeaves
<1>g. rivals \subseteq rivals' /\ (crossed => crossed')
  BY HistoryGrows DEF Indifferent, Continue
<1>3. StampsDecided'
  <2>1. at'[r] = "stamping" => on'[r] \in arbitrated'
    <3>1. CASE Weigh(r)
      BY <3>1 DEF Weigh
    <3>2. CASE MoveMoney(r)
      BY <3>2 DEF MoveMoney, Goto
    <3>3. CASE StampReleased(r)
      BY <3>3 DEF StampReleased, Goto
    <3>4. CASE SaveEdit(r) \/ FileDispute(r) \/ Die(r)
      BY <3>4 DEF SaveEdit, FileDispute, Die, Finish
    <3>5. CASE SaveReview(r) \/ SaveWithdrawal(r) \/ SaveResolution(r)
      BY <3>5 DEF SaveReview, SaveWithdrawal, SaveResolution, CloseOrReview
    <3>6. CASE AskDispute(r) \/ CountOutstanding(r) \/ CompleteProject(r)
      BY <3>6 DEF AskDispute, CountOutstanding, CompleteProject, Finish, Goto
    <3> QED
      BY <3>1, <3>2, <3>3, <3>4, <3>5, <3>6 DEF Indifferent
  <2> QED
    BY <1>1, <1>2, <2>1 DEF StampsDecided
<1>4. LoadedStatus'
  BY <1>1 DEF LoadedStatus, Leads, Releasing, Counting
<1>5. Backed'
  <2> SUFFICES ASSUME NEW m \in Stages, m \notin arbitrated', m \notin rivals'
               PROVE  Earned(m)' /\ Covered(m)'
    BY DEF Backed
  <2>1. Earned(m) /\ Covered(m)
    BY <1>2, <1>g DEF Backed
  <2>2. /\ at'[r] \notin {"marking"} /\ at'[r] \notin {"claiming"} /\ at'[r] \notin {"inspecting"}
        /\ at'[r] \in Releasing /\ on'[r] = m => at[r] \in Releasing /\ on[r] = m
        /\ at'[r] \in Counting /\ on'[r] = m => at[r] \in Counting /\ on[r] = m
    BY <1>1 DEF Leads, Releasing, Counting
  <2>3. /\ stage'[m].status = stage[m].status /\ paidOut'[m] = paidOut[m]
        /\ paidIn'[m] = paidIn[m]
    BY <1>1, <1>2
  <2> QED
    BY <1>1, <2>1, <2>2, <2>3, LessBacked
<1>6. TotalCurrent'
  <2> SUFFICES ASSUME arbitrated' = {}, ~crossed'
               PROVE  /\ contract'.released = ledgerOut'
                      /\ \A q \in Requests : at'[q] \in Releasing \cup Counting =>
                           copy'[q].contract.released = contract'.released
    BY DEF TotalCurrent
  <2>1. arbitrated = {} /\ ~crossed /\ ledgerOut' = ledgerOut /\ contract' = contract
    BY <1>2, <1>g
  <2>2. at'[r] \in Releasing \cup Counting =>
          at[r] \in Releasing \cup Counting /\ copy'[r] = copy[r]
    BY <1>1 DEF Leads, Releasing, Counting
  <2> QED
    BY <1>1, <2>1, <2>2 DEF TotalCurrent
<1> QED
  BY <1>3, <1>4, <1>5, <1>6

\* A handler that saves leaves the stages it does not work on as they are backed.
LEMMA ElsewhereBacked ==
  ASSUME BInv, NEW r \in Requests, NEW m \in Stages, Earned(m), Covered(m), on[r] # m,
         on'[r] = on[r] \/ at'[r] = "idle",
         \A q \in Requests \ {r} : at'[q] = at[q] /\ on'[q] = on[q],
         stage'[m] = stage[m], paidIn'[m] = paidIn[m], paidOut'[m] = paidOut[m]
  PROVE  Earned(m)' /\ Covered(m)'
<1>2. /\ ~(at'[r] \in {"marking"} /\ on'[r] = m)
      /\ ~(at'[r] \in {"claiming"} /\ on'[r] = m)
      /\ ~(at'[r] \in {"inspecting"} /\ on'[r] = m)
      /\ ~(at'[r] \in Releasing /\ on'[r] = m)
      /\ ~(at'[r] \in Counting /\ on'[r] = m)
  BY DEF Releasing, Counting
<1> QED
  BY <1>2, LessBacked DEF BInv, SInv

\* The handlers that answer after marking a stage.
Marks(r) == MarkFunded(r) \/ SaveClaim(r) \/ SaveInspection(r)

LEMMA MarksBInv ==
  ASSUME BInv, TInv', NEW r \in Requests, Marks(r)
  PROVE  (StampsDecided /\ LoadedStatus /\ Backed /\ TotalCurrent)'
<1> USE DEF BInv, SInv, TInv, TypeOK
<1>1. PICK st \in MilestoneStatus :
        /\ SaveStageStatus(r, st)
        /\ \/ at[r] = "marking" /\ st = "FUNDED"
           \/ at[r] = "claiming" /\ st = "AWAITING_INSPECTION"
           \/ at[r] = "inspecting" /\ st \in {"INSPECTION_PASSED", "FUNDED"}
  BY DEF Marks, MarkFunded, SaveClaim, SaveInspection, MilestoneStatus
<1>2. Finish(r) /\ UNCHANGED <<contract, moneyVars, arbitrated>>
  BY DEF Marks, MarkFunded, SaveClaim, SaveInspection, KeepBeside, contractVars
<1>3. /\ \A q \in Requests \ {r} : at'[q] = at[q] /\ on'[q] = on[q] /\ copy'[q] = copy[q]
      /\ at'[r] = "idle"
  BY <1>2 DEF Finish
<1>g. rivals \subseteq rivals' /\ (crossed => crossed')
  BY HistoryGrows DEF Marks, Continue
<1>4. StampsDecided' /\ LoadedStatus'
  BY <1>2, <1>3 DEF StampsDecided, LoadedStatus, Releasing, Counting
<1>5. ASSUME NEW m \in Stages, m \notin arbitrated, m \notin rivals'
      PROVE  Earned(m)' /\ Covered(m)'
  <2>0. Earned(m) /\ Covered(m)
    BY <1>g, <1>5 DEF Backed
  <2>1. CASE on[r] = m
    BY <1>1, <1>2, <1>5, <2>0, <2>1, MarkBacked
  <2>2. CASE on[r] # m
    <3>1. stage'[m] = stage[m]
      BY <1>1, <2>2, StatusMarked
    <3>2. paidIn'[m] = paidIn[m] /\ paidOut'[m] = paidOut[m]
      BY <1>2 DEF moneyVars
    <3> QED
      BY <1>3, <2>0, <2>2, <3>1, <3>2, ElsewhereBacked
  <2> QED
    BY <2>1, <2>2
<1>6. Backed'
  BY <1>2, <1>5 DEF Backed
<1>7. TotalCurrent'
  BY <1>2, <1>3, <1>g DEF TotalCurrent, Releasing, Counting, moneyVars
<1> QED
  BY <1>4, <1>6, <1>7

LEMMA DepositBInv ==
  ASSUME BInv, TInv', NEW r \in Requests, SaveDeposit(r)
  PROVE  (StampsDecided /\ LoadedStatus /\ Backed /\ TotalCurrent)'
<1> USE DEF BInv, SInv, TInv, TypeOK
<1>1. /\ at[r] = "depositing" /\ at'[r] = "marking" /\ on'[r] = on[r] /\ copy' = copy
      /\ \A q \in Requests \ {r} : at'[q] = at[q] /\ on'[q] = on[q] /\ copy'[q] = copy[q]
      /\ UNCHANGED <<stage, paidOut, ledgerOut, arbitrated>>
      /\ \A m \in Stages \ {on[r]} : paidIn'[m] = paidIn[m]
  BY DEF SaveDeposit, Goto, KeepBeside, stageVars
<1>2. contract'.released = contract.released
  <2>1. copy[r].contract \in Contract
    BY <1>1 DEF InFlight, Copy
  <2> QED
    BY <2>1 DEF SaveDeposit, SaveContract, Written, Contract
<1>g. rivals' = rivals /\ (crossed => crossed')
  BY DEF SaveDeposit, SaveContract
<1>3. StampsDecided' /\ LoadedStatus'
  BY <1>1 DEF StampsDecided, LoadedStatus, Releasing, Counting
<1>4. ASSUME NEW m \in Stages, m \notin arbitrated \cup rivals
      PROVE  Earned(m)' /\ Covered(m)'
  <2>0. Earned(m) /\ Covered(m)
    BY <1>4 DEF Backed
  <2>1. CASE on[r] = m
    BY <2>0, <2>1, DepositBacked
  <2>2. CASE on[r] # m
    BY <1>1, <2>0, <2>2, ElsewhereBacked
  <2> QED
    BY <2>1, <2>2
<1>5. Backed'
  BY <1>1, <1>g, <1>4 DEF Backed
<1>6. TotalCurrent'
  BY <1>1, <1>2, <1>g DEF TotalCurrent, Releasing, Counting
<1> QED
  BY <1>3, <1>5, <1>6

LEMMA ReleaseBInv ==
  ASSUME BInv, TInv', NEW r \in Requests, SaveReleased(r)
  PROVE  (StampsDecided /\ LoadedStatus /\ Backed /\ TotalCurrent)'
<1> USE DEF BInv, SInv, TInv, TypeOK
<1>1. /\ at[r] = "releasing" /\ at'[r] = "counting" /\ on'[r] = on[r] /\ copy' = copy
      /\ \A q \in Requests \ {r} : at'[q] = at[q] /\ on'[q] = on[q] /\ copy'[q] = copy[q]
      /\ UNCHANGED <<contract, paidIn, paidOut, ledgerOut, arbitrated>>
      /\ \A m \in Stages \ {on[r]} : stage'[m] = stage[m]
  BY DEF SaveReleased, Goto, KeepBeside, contractVars, moneyVars, SaveStage
<1>g. rivals \subseteq rivals' /\ crossed' = crossed
  BY DEF SaveReleased, SaveStage
<1>2. StampsDecided' /\ LoadedStatus'
  BY <1>1 DEF StampsDecided, LoadedStatus, Releasing, Counting
<1>3. ASSUME NEW m \in Stages, m \notin arbitrated, m \notin rivals'
      PROVE  Earned(m)' /\ Covered(m)'
  <2>0. Earned(m) /\ Covered(m)
    BY <1>g, <1>3 DEF Backed
  <2>1. CASE on[r] = m
    BY <1>3, <2>0, <2>1, ReleaseBacked
  <2>2. CASE on[r] # m
    BY <1>1, <2>0, <2>2, ElsewhereBacked
  <2> QED
    BY <2>1, <2>2
<1>4. Backed'
  BY <1>1, <1>3 DEF Backed
<1>5. TotalCurrent'
  BY <1>1, <1>g DEF TotalCurrent, Releasing, Counting
<1> QED
  BY <1>2, <1>4, <1>5

LEMMA PaymentBInv ==
  ASSUME BInv, TInv', NEW r \in Requests, PayRelease(r)
  PROVE  (StampsDecided /\ LoadedStatus /\ Backed /\ TotalCurrent)'
<1> USE DEF BInv, SInv, TInv, TypeOK
<1>1. /\ at[r] \in {"paying", "payingLast"} /\ at'[r] = "idle"
      /\ \A q \in Requests \ {r} : at'[q] = at[q] /\ on'[q] = on[q] /\ copy'[q] = copy[q]
      /\ UNCHANGED <<stage, paidIn, arbitrated>>
      /\ \A m \in Stages \ {on[r]} : paidOut'[m] = paidOut[m]
      /\ ledgerOut' = ledgerOut + Net
  BY DEF PayRelease, Finish, KeepBeside, stageVars
<1>g. rivals' = rivals /\ (crossed' <=> crossed \/ MeetsOnTotal(r))
  BY DEF PayRelease, SaveContract
<1>2. StampsDecided' /\ LoadedStatus'
  <2>1. StampsDecided'
    BY <1>1 DEF StampsDecided
  <2>2. LoadedStatus'
    BY <1>1 DEF LoadedStatus, Releasing
  <2> QED
    BY <2>1, <2>2
<1>3. ASSUME NEW m \in Stages, m \notin arbitrated \cup rivals
      PROVE  Earned(m)' /\ Covered(m)'
  <2>0. Earned(m) /\ Covered(m)
    BY <1>3 DEF Backed
  <2>1. CASE on[r] = m
    BY <2>0, <2>1, PaymentBacked
  <2>2. CASE on[r] # m
    BY <1>1, <2>0, <2>2, ElsewhereBacked
  <2> QED
    BY <2>1, <2>2
<1>4. Backed'
  BY <1>1, <1>g, <1>3 DEF Backed
<1>5. ASSUME arbitrated = {}, ~crossed PROVE contract'.released = ledgerOut'
  <2>1. copy[r].contract.released = contract.released /\ contract.released = ledgerOut
    BY <1>1, <1>5 DEF TotalCurrent, Counting
  <2>2. contract'.released = Written(copy[r].contract.released,
                                     copy[r].contract.released + Net, contract.released)
    BY DEF PayRelease, SaveContract
  <2>3. Net \in Nat /\ contract.released \in Nat
    BY BuildAssumption DEF Net, Contract
  <2> QED
    BY <1>1, <2>1, <2>2, <2>3 DEF Written
<1>6. ~crossed' => \A q \in Requests : at'[q] \notin Releasing \cup Counting
  BY <1>1, <1>g DEF MeetsOnTotal, Releasing, Counting
<1>7. TotalCurrent'
  BY <1>1, <1>g, <1>5, <1>6 DEF TotalCurrent
<1> QED
  BY <1>2, <1>4, <1>7

LEMMA InitBInv == Init => BInv
<1> SUFFICES ASSUME Init PROVE BInv
  OBVIOUS
<1>1. StampsDecided /\ LoadedStatus /\ TotalCurrent
  BY DEF Init, StampsDecided, LoadedStatus, TotalCurrent, Releasing, Counting
<1>2. ASSUME NEW places, "idle" \notin places, NEW m PROVE At(places, m) = {}
  BY <1>2 DEF Init, At
<1>3. \A m \in Stages : Earned(m) /\ Covered(m)
  <2> SUFFICES ASSUME NEW m \in Stages PROVE Earned(m) /\ Covered(m)
    OBVIOUS
  <2>1. /\ At({"marking"}, m) = {} /\ At({"claiming"}, m) = {} /\ At({"inspecting"}, m) = {}
        /\ At(Releasing, m) = {} /\ At(Counting, m) = {}
    <3>1. "idle" \notin Releasing /\ "idle" \notin Counting
      BY DEF Releasing, Counting
    <3> QED
      BY <1>2, <3>1
  <2>2. stage[m].status = "PENDING" /\ paidIn[m] = 0 /\ paidOut[m] = 0
    BY DEF Init
  <2>3. Value({}) = 0
    BY BuildAssumption, FS_EmptySet DEF Value
  <2> QED
    BY <2>1, <2>2, <2>3 DEF Earned, Covered, Due, Worth, Underway
<1> QED
  BY <1>1, <1>3, InitSInv DEF BInv, Backed

LEMMA StepBInv ==
  ASSUME BInv, NEW r \in Requests, Start(r) \/ Continue(r) \/ Die(r)
  PROVE  BInv'
<1>0. SInv' /\ TInv'
  BY StartSInv, StepSInv DEF BInv, SInv
<1>1. CASE Start(r)
  BY <1>0, <1>1, StartTakes, LoadBInv DEF BInv, SInv
<1>2. CASE Indifferent(r)
  BY <1>0, <1>2, IndifferentBInv DEF BInv
<1>3. CASE Marks(r) \/ SaveDeposit(r) \/ SaveReleased(r) \/ PayRelease(r)
  BY <1>0, <1>3, MarksBInv, DepositBInv, ReleaseBInv, PaymentBInv DEF BInv
<1> QED
  BY <1>1, <1>2, <1>3 DEF Continue, Indifferent, Marks

LEMMA NextBInv == BInv /\ [Next]_vars => BInv'
<1>1. BInv /\ Next => BInv'
  BY StepBInv DEF Next
<1>2. BInv /\ UNCHANGED vars => BInv'
  <2> SUFFICES ASSUME BInv, UNCHANGED vars PROVE BInv'
    OBVIOUS
  <2>1. SInv'
    BY NextSInv DEF BInv
  <2>2. UNCHANGED <<contract, stage, at, on, copy, paidIn, paidOut, ledgerOut, arbitrated,
                    rivals, crossed>>
    BY DEF vars, contractVars, stageVars, requestVars, moneyVars
  <2>3. (StampsDecided /\ LoadedStatus /\ TotalCurrent)'
    BY <2>2 DEF BInv, StampsDecided, LoadedStatus, TotalCurrent
  <2>4. ASSUME NEW places, NEW m
        PROVE  At(places, m)' = At(places, m)
    BY <2>2 DEF At
  <2>5. Backed'
    BY <2>2, <2>4 DEF BInv, Backed, Earned, Covered, Due, Worth
  <2> QED
    BY <2>1, <2>3, <2>5 DEF BInv
<1> QED
  BY <1>1, <1>2

\* The contract's total is what its ledger's entries released, until two releases cross or
\* a supervisor moves money; and a stage pays out no more than was escrowed for it, unless
\* two requests did the same to it at once or a supervisor decided on it: however many
\* requests, and however their releases, deposits, edits and deaths interleave.
THEOREM LedgerHolds == Spec => []LedgerAddsUp
<1>1. BInv /\ [Next]_vars => BInv'
  BY NextBInv
<1>2. BInv => LedgerAddsUp
  <2> SUFFICES ASSUME BInv, NEW m \in Stages \ (arbitrated \cup rivals)
               PROVE  paidOut[m] <= paidIn[m]
    BY DEF BInv, TotalCurrent, LedgerAddsUp, TotalsMatch, PaidOutWithinDeposits
  <2>1. Covered(m) /\ TInv
    BY DEF BInv, SInv, Backed
  <2> QED
    BY <2>1, StageNumbers DEF Covered, Due, Worth
<1> QED
  BY InitBInv, <1>1, <1>2, PTL DEF Spec

-----------------------------------------------------------------------------
(* A released stage stays so, and a complete contract is paid out *)

\* Every stage is paid out, but for those escrowed twice, and those with rivals.
PaidOut == \A m \in Stages \ rivals : stage[m].status = "RELEASED" \/ paidIn[m] >= 2 * Amount

\* A contract that is complete, or about to be, is paid out.
Completing ==
  /\ arbitrated = {}
  /\ \/ contract.status = "COMPLETED"
     \/ \E r \in Requests : at[r] \in {"completing", "payingLast"}
  => PaidOut

Closing == {"counting", "completing", "payingLast"}

\* Once all is paid out, the project and the contract are complete, or the request
\* that will complete them is at work.
Finishing ==
  \/ contract.status = "COMPLETED" /\ project = "COMPLETED"
  \/ \E r \in Requests :
       at[r] \in Closing /\ (at[r] = "payingLast" => project = "COMPLETED")

AllReleased == \A m \in Stages : stage[m].status = "RELEASED"

LastPaid == arbitrated = {} /\ interrupted = {} /\ AllReleased => Finishing

\* A copy of a complete contract is no news.
StaysComplete ==
  \A r \in Requests :
    at[r] # "idle" /\ copy[r].contract.status = "COMPLETED" => contract.status = "COMPLETED"

CInv == BInv /\ Completing /\ LastPaid /\ StaysComplete

\* A handler takes a released stage back only if another deposit stands behind it.
LEMMA TakenBack ==
  ASSUME BInv, BInv', NEW r \in Requests, Start(r) \/ Continue(r) \/ Die(r),
         NEW m \in Stages, m \notin arbitrated' \cup rivals, stage[m].status = "RELEASED",
         stage'[m].status # "RELEASED"
  PROVE  paidIn[m] >= 2 * Amount
<1> USE DEF BInv, SInv, TInv, TypeOK
<1>1. Marks(r) /\ on[r] = m
  <2>1. CASE Start(r)
    <3>1. stage' = stage
      BY <2>1, StartTakes DEF Load, stageVars
    <3> QED
      BY <3>1
  <2>2. CASE Indifferent(r)
    BY <2>2, IndifferentLeaves
  <2>3. CASE SaveDeposit(r) \/ PayRelease(r)
    BY <2>3 DEF SaveDeposit, PayRelease, KeepBeside, stageVars
  <2>4. CASE SaveReleased(r)
    <3>1. [status |-> "RELEASED", paid |-> Net] \in Stage
      BY BuildAssumption DEF Stage, MilestoneStatus, Net
    <3>2. PICK new \in Stage : new.status = "RELEASED" /\ SaveStage(r, new)
      BY <2>4, <3>1 DEF SaveReleased
    <3>3. copy[r].stage.status = "INSPECTION_PASSED" /\ at[r] # "idle"
      BY <2>4 DEF SaveReleased, LoadedStatus, Releasing
    <3> QED
      BY <3>2, <3>3, StatusSaved
  <2>5. CASE Marks(r)
    <3>1. PICK st \in MilestoneStatus : SaveStageStatus(r, st) /\ at[r] # "idle"
      BY <2>5 DEF Marks, MarkFunded, SaveClaim, SaveInspection, MilestoneStatus
    <3> QED
      BY <2>5, <3>1, StatusMarked
  <2> QED
    BY <2>1, <2>2, <2>3, <2>4, <2>5 DEF Continue, Indifferent, Marks
<1>2. Earned(m) /\ m \notin arbitrated
  <2>1. arbitrated \subseteq arbitrated'
    BY <1>1 DEF Marks, MarkFunded, SaveClaim, SaveInspection, KeepBeside
  <2> QED
    BY <2>1 DEF Backed
<1>3. \/ At({"marking"}, m) # {} \/ At({"claiming"}, m) # {} \/ At({"inspecting"}, m) # {}
  BY <1>1 DEF Marks, MarkFunded, SaveClaim, SaveInspection, At
<1>4. At({"marking"}, m) # {} => Value(At({"marking"}, m)) >= Amount
  <2> SUFFICES ASSUME NEW q \in At({"marking"}, m)
               PROVE  Value(At({"marking"}, m)) >= Amount
    OBVIOUS
  <2>1. /\ At({"marking"}, m) \ {q} \in SUBSET Requests /\ q \in Requests
        /\ At({"marking"}, m) = (At({"marking"}, m) \ {q}) \cup {q}
    BY DEF At
  <2>2. Value(At({"marking"}, m)) = Value(At({"marking"}, m) \ {q}) + Amount
    BY <2>1, ValueMore
  <2>3. Value(At({"marking"}, m) \ {q}) \in Nat /\ Amount \in Nat
    BY <2>1, ValueNat, BuildAssumption
  <2> QED
    BY <2>2, <2>3
<1>5. TInv
  OBVIOUS
<1> QED
  BY <1>2, <1>3, <1>4, <1>5, StageNumbers DEF Earned, Due, Worth

\* What a step does to the contract, the deposits and the requests.
LEMMA StepEffects ==
  ASSUME BInv, BInv', StaysComplete, NEW r \in Requests, Start(r) \/ Continue(r) \/ Die(r)
  PROVE  /\ \A m \in Stages : paidIn'[m] >= paidIn[m]
         /\ contract'.status = "COMPLETED" =>
              contract.status = "COMPLETED" \/ at[r] = "payingLast"
         /\ contract.status = "COMPLETED" => contract'.status = "COMPLETED"
         /\ project = "COMPLETED" => project' = "COMPLETED"
         /\ \A q \in Requests \ {r} : at'[q] = at[q] /\ copy'[q] = copy[q]
         /\ arbitrated \subseteq arbitrated' /\ interrupted \subseteq interrupted'
         /\ at[r] # "idle" /\ at'[r] # "idle" => copy'[r].contract = copy[r].contract
         /\ at[r] = "idle" => copy'[r].contract = contract /\ contract' = contract
<1> USE DEF BInv, SInv, TInv, TypeOK, Keep, KeepBeside, contractVars, moneyVars
<1>n. Amount \in Nat
  BY BuildAssumption
<1>1. CASE Start(r)
  <2>1. PICK place \in Places, m \in Stages, d \in Disputes \cup {None} : Load(r, place, m, d)
    BY <1>1, StartTakes
  <2>2. copy'[r].contract = contract
    BY <2>1 DEF Load
  <2> QED
    BY <2>1, <2>2 DEF Load
<1>2. CASE SaveDeposit(r)
  <2>1. copy[r].contract \in Contract /\ on[r] \in Stages
    BY <1>2 DEF SaveDeposit, InFlight, Copy
  <2>2. contract'.status = contract.status
    BY <1>2, <2>1 DEF SaveDeposit, SaveContract, Written, Contract
  <2>3. \A m \in Stages : paidIn'[m] >= paidIn[m]
    BY <1>n, <1>2, <2>1 DEF SaveDeposit
  <2> QED
    BY <1>2, <2>2, <2>3 DEF SaveDeposit, Goto
<1>3. CASE PayRelease(r)
  <2>1. contract'.status = Written(copy[r].contract.status,
          IF at[r] = "payingLast" THEN "COMPLETED" ELSE copy[r].contract.status,
          contract.status)
    BY <1>3 DEF PayRelease, SaveContract
  <2>2. copy[r].contract.status = "COMPLETED" => contract.status = "COMPLETED"
    BY <1>3 DEF PayRelease, StaysComplete
  <2> QED
    BY <1>3, <2>1, <2>2 DEF PayRelease, Written, Finish
<1>4. CASE MoveMoney(r)
  <2>1. contract'.status = contract.status
    BY <1>4 DEF MoveMoney, Contract
  <2> QED
    BY <1>4, <2>1 DEF MoveMoney, Goto
<1>5. CASE CompleteProject(r)
  BY <1>5 DEF CompleteProject, Goto
<1>6. CASE Weigh(r)
  <2>1. copy[r] \in Copy /\ copy'[r] = [copy[r] EXCEPT !.stage = stage[on[r]]]
    BY <1>6 DEF Weigh, InFlight
  <2>2. copy'[r].contract = copy[r].contract
    BY <2>1 DEF Copy
  <2> QED
    BY <1>6, <2>2 DEF Weigh
<1>7. CASE Marks(r) \/ SaveEdit(r) \/ FileDispute(r) \/ Die(r)
  BY <1>7 DEF Marks, MarkFunded, SaveClaim, SaveInspection, SaveEdit, FileDispute, Die, Finish
<1>8. CASE SaveReview(r) \/ SaveWithdrawal(r) \/ SaveResolution(r)
  BY <1>8 DEF SaveReview, SaveWithdrawal, SaveResolution, CloseOrReview
<1>9. CASE AskDispute(r) \/ CountOutstanding(r) \/ SaveReleased(r) \/ StampReleased(r)
  BY <1>9 DEF AskDispute, CountOutstanding, SaveReleased, StampReleased, Goto, Finish
<1> QED
  BY <1>1, <1>2, <1>3, <1>4, <1>5, <1>6, <1>7, <1>8, <1>9 DEF Continue, Marks

\* Who comes to complete the contract has counted that nothing is outstanding.
LEMMA StepCounts ==
  ASSUME BInv, NEW r \in Requests, Start(r) \/ Continue(r) \/ Die(r),
         at'[r] \in {"completing", "payingLast"}
  PROVE  at[r] = "completing" \/ (AllReleased /\ stage' = stage)
<1> USE DEF BInv, SInv, TInv, TypeOK, Keep, KeepBeside, stageVars
<1>1. ~Start(r)
  <2>1. ASSUME NEW place \in Places, NEW m \in Stages, NEW d, Takes(r, place, m),
               Load(r, place, m, d)
        PROVE  FALSE
    BY <2>1 DEF Takes, Load
  <2> QED
    BY <2>1, StartTakes
<1>2. CountOutstanding(r) \/ CompleteProject(r)
  <2>1. ~Marks(r) /\ ~SaveEdit(r) /\ ~FileDispute(r) /\ ~Die(r) /\ ~PayRelease(r)
    BY DEF Marks, MarkFunded, SaveClaim, SaveInspection, SaveEdit, FileDispute, Die, Finish,
           PayRelease
  <2>2. ~SaveReview(r) /\ ~SaveWithdrawal(r) /\ ~SaveResolution(r)
    BY DEF SaveReview, SaveWithdrawal, SaveResolution, CloseOrReview
  <2>3. /\ ~AskDispute(r) /\ ~SaveReleased(r) /\ ~StampReleased(r) /\ ~SaveDeposit(r)
        /\ ~MoveMoney(r) /\ ~Weigh(r)
    BY DEF AskDispute, SaveReleased, StampReleased, Goto, Finish, SaveDeposit, MoveMoney, Weigh
  <2> QED
    BY <1>1, <2>1, <2>2, <2>3 DEF Continue, Marks
<1>3. CASE CountOutstanding(r)
  BY <1>3 DEF CountOutstanding, Goto, Outstanding, AllReleased
<1>4. CASE CompleteProject(r)
  BY <1>4 DEF CompleteProject
<1> QED
  BY <1>2, <1>3, <1>4

LEMMA StepCompleting ==
  ASSUME CInv, BInv', NEW r \in Requests, Start(r) \/ Continue(r) \/ Die(r)
  PROVE  Completing'
<1> USE DEF CInv, BInv, SInv, TInv, TypeOK
<1> SUFFICES ASSUME arbitrated' = {},
                    \/ contract'.status = "COMPLETED"
                    \/ \E q \in Requests : at'[q] \in {"completing", "payingLast"},
                    NEW m \in Stages, m \notin rivals'
             PROVE  stage'[m].status = "RELEASED" \/ paidIn'[m] >= 2 * Amount
  BY DEF Completing, PaidOut
<1>g. m \notin rivals
  BY HistoryGrows
<1>1. /\ paidIn'[m] >= paidIn[m]
      /\ contract'.status = "COMPLETED" => contract.status = "COMPLETED" \/ at[r] = "payingLast"
      /\ \A q \in Requests \ {r} : at'[q] = at[q]
      /\ arbitrated = {}
  BY StepEffects
<1>2. CASE PaidOut
  <2>1. stage[m].status = "RELEASED" \/ paidIn[m] >= 2 * Amount
    BY <1>2, <1>g DEF PaidOut
  <2>2. Amount \in Nat /\ paidIn[m] \in Nat /\ paidIn'[m] \in Nat
    BY BuildAssumption
  <2> QED
    BY <1>1, <1>g, <2>1, <2>2, TakenBack
<1>3. CASE ~PaidOut
  <2>1. /\ contract.status # "COMPLETED"
        /\ \A q \in Requests : at[q] \notin {"completing", "payingLast"}
    BY <1>1, <1>3 DEF Completing
  <2>2. at'[r] \in {"completing", "payingLast"}
    BY <1>1, <2>1
  <2>3. AllReleased /\ stage' = stage
    BY <2>1, <2>2, StepCounts
  <2> QED
    BY <2>3 DEF AllReleased
<1> QED
  BY <1>2, <1>3

\* What is complete, or about to be, remains so while r is at other work.
LEMMA FinishingKept ==
  ASSUME NEW r \in Requests, Finishing, at[r] \notin Closing,
         \A q \in Requests \ {r} : at'[q] = at[q],
         contract.status = "COMPLETED" => contract'.status = "COMPLETED",
         project = "COMPLETED" => project' = "COMPLETED"
  PROVE  Finishing'
BY DEF Finishing

LEMMA StepLastPaid ==
  ASSUME CInv, BInv', NEW r \in Requests, Start(r) \/ Continue(r) \/ Die(r)
  PROVE  LastPaid'
<1> USE DEF CInv, BInv, SInv, TInv, TypeOK
<1> SUFFICES ASSUME arbitrated' = {}, interrupted' = {}, AllReleased' PROVE Finishing'
  BY DEF LastPaid
<1>1. /\ \A q \in Requests \ {r} : at'[q] = at[q]
      /\ contract.status = "COMPLETED" => contract'.status = "COMPLETED"
      /\ project = "COMPLETED" => project' = "COMPLETED"
      /\ arbitrated = {} /\ interrupted = {}
  BY StepEffects
<1>2. ASSUME AllReleased, at[r] \notin Closing
      PROVE  Finishing'
  BY <1>1, <1>2, FinishingKept DEF LastPaid
<1>3. CASE Start(r)
  <2>1. at[r] = "idle" /\ stage' = stage
    BY <1>3, StartTakes DEF Load, stageVars
  <2> QED
    BY <1>2, <2>1 DEF AllReleased, Closing
<1>4. CASE SaveReleased(r)
  <2>1. at'[r] = "counting"
    BY <1>4 DEF SaveReleased, Goto
  <2> QED
    BY <2>1 DEF Finishing, Closing
<1>5. CASE CountOutstanding(r)
  <2>1. AllReleased
    BY <1>5 DEF CountOutstanding, Keep, stageVars, AllReleased
  <2>2. at'[r] = "completing"
    BY <1>5, <2>1 DEF CountOutstanding, Goto, Outstanding, AllReleased
  <2> QED
    BY <2>2 DEF Finishing, Closing
<1>6. CASE CompleteProject(r)
  <2>1. at'[r] = "payingLast" /\ project' = "COMPLETED"
    BY <1>6 DEF CompleteProject, Goto
  <2> QED
    BY <2>1 DEF Finishing, Closing
<1>7. CASE PayRelease(r)
  <2>1. AllReleased /\ Finishing
    BY <1>1, <1>7 DEF PayRelease, KeepBeside, stageVars, AllReleased, LastPaid
  <2>2. CASE at[r] = "paying"
    BY <1>2, <2>1, <2>2 DEF Closing
  <2>3. CASE at[r] = "payingLast"
    <3>1. contract'.status = "COMPLETED"
      <4>1. contract'.status = Written(copy[r].contract.status, "COMPLETED", contract.status)
        BY <1>7, <2>3 DEF PayRelease, SaveContract
      <4> QED
        BY <2>3, <4>1 DEF Written, StaysComplete
    <3>2. CASE project = "COMPLETED"
      BY <1>1, <3>1, <3>2 DEF Finishing
    <3>3. CASE project # "COMPLETED"
      <4>1. PICK q \in Requests :
              at[q] \in Closing /\ (at[q] = "payingLast" => project = "COMPLETED")
        BY <2>1, <3>3 DEF Finishing
      <4>2. q # r /\ at'[q] = at[q]
        BY <1>1, <2>3, <3>3, <4>1
      <4> QED
        BY <1>1, <4>1, <4>2 DEF Finishing
    <3> QED
      BY <3>2, <3>3
  <2> QED
    BY <1>7, <2>2, <2>3 DEF PayRelease
<1>8. CASE Marks(r)
  <2>1. PICK st \in MilestoneStatus :
          SaveStageStatus(r, st) /\ at[r] # "idle" /\ st # "RELEASED"
                                 /\ st # copy[r].stage.status
    BY <1>8 DEF Marks, MarkFunded, SaveClaim, SaveInspection, MilestoneStatus, LoadedStatus
  <2>2. stage'[on[r]].status = st /\ on[r] \in Stages
    BY <2>1, StatusMarked DEF InFlight
  <2> QED
    BY <2>1, <2>2 DEF AllReleased
<1>9. CASE SaveDeposit(r)
  BY <1>2, <1>9 DEF SaveDeposit, KeepBeside, stageVars, AllReleased, Closing
<1>10. ASSUME Indifferent(r), ~CountOutstanding(r), ~CompleteProject(r)
       PROVE  Finishing'
  <2>1. AllReleased
    BY <1>10, IndifferentLeaves DEF AllReleased
  <2>2. ~Die(r)
    BY DEF Die
  <2>3. at[r] \notin Closing
    BY <1>10, <2>2 DEF Indifferent, SaveEdit, AskDispute, FileDispute, SaveReview,
           SaveWithdrawal, Weigh, MoveMoney, StampReleased, SaveResolution, Closing
  <2> QED
    BY <1>2, <2>1, <2>3
<1> QED
  BY <1>3, <1>4, <1>5, <1>6, <1>7, <1>8, <1>9, <1>10 DEF Continue, Indifferent, Marks

LEMMA StepStaysComplete ==
  ASSUME CInv, BInv', NEW r \in Requests, Start(r) \/ Continue(r) \/ Die(r)
  PROVE  StaysComplete'
<1>1. /\ contract.status = "COMPLETED" => contract'.status = "COMPLETED"
      /\ \A q \in Requests \ {r} : at'[q] = at[q] /\ copy'[q] = copy[q]
      /\ at[r] # "idle" /\ at'[r] # "idle" => copy'[r].contract = copy[r].contract
      /\ at[r] = "idle" => copy'[r].contract = contract /\ contract' = contract
  BY StepEffects DEF CInv
<1> QED
  BY <1>1 DEF CInv, StaysComplete

LEMMA NextCInv == CInv /\ [Next]_vars => CInv'
<1>1. ASSUME CInv, Next PROVE CInv'
  <2>1. BInv'
    BY <1>1, NextBInv DEF CInv
  <2> QED
    BY <1>1, <2>1, StepCompleting, StepLastPaid, StepStaysComplete DEF Next, CInv
<1>2. ASSUME CInv, UNCHANGED vars PROVE CInv'
  <2>1. BInv'
    BY <1>2, NextBInv DEF CInv
  <2>2. UNCHANGED <<contract, project, stage, at, copy, paidIn, arbitrated, interrupted,
                    rivals>>
    BY <1>2 DEF vars, contractVars, stageVars, requestVars, moneyVars
  <2> QED
    BY <1>2, <2>1, <2>2 DEF CInv, Completing, LastPaid, StaysComplete, PaidOut, AllReleased,
                            Finishing
<1> QED
  BY <1>1, <1>2

LEMMA InitCInv == Init => CInv
<1> SUFFICES ASSUME Init PROVE CInv
  OBVIOUS
<1>1. Completing /\ StaysComplete
  BY DEF Init, Completing, StaysComplete
<1>2. LastPaid
  BY BuildAssumption DEF Init, LastPaid, AllReleased
<1> QED
  BY <1>1, <1>2, InitBInv DEF CInv

\* A released stage is taken back only where a second deposit stands behind it, two
\* requests did the same to it at once, or a supervisor decided on it, whatever old copies
\* its other handlers save over it.
THEOREM ReleasedStays == Spec => ReleasedForGood
<1>1. BInv /\ [Next]_vars => BInv'
  BY NextBInv
<1>2. BInv /\ BInv' /\ [Next]_vars =>
        [\A m \in Stages \ (arbitrated' \cup rivals) :
           stage[m].status = "RELEASED" /\ stage'[m].status # "RELEASED"
             => paidIn[m] >= 2 * Amount]_vars
  BY TakenBack DEF Next
<1> QED
  BY InitBInv, <1>1, <1>2, PTL DEF Spec, ReleasedForGood

\* The contract is complete only when all is paid out, and when all is paid out it is
\* complete as soon as the handlers have answered, unless one died.
THEOREM CompleteIsPaid == Spec => []CompleteWhenPaid
<1>1. CInv /\ [Next]_vars => CInv'
  BY NextCInv
<1>2. CInv => CompleteWhenPaid
  <2> SUFFICES ASSUME CInv PROVE CompleteWhenPaid
    OBVIOUS
  <2>1. CompletedMeansPaid
    BY DEF CInv, CompletedMeansPaid, Completing, PaidOut
  <2>2. ReleasedCompletes
    BY DEF CInv, ReleasedCompletes, LastPaid, AllReleased, Finishing, Quiet, Closing
  <2> QED
    BY <2>1, <2>2 DEF CompleteWhenPaid
<1> QED
  BY InitCInv, <1>1, <1>2, PTL DEF Spec

-----------------------------------------------------------------------------
(* The tags *)

\* Where no save met another request's copy, each request that may yet save a document
\* holds it as it is stored, and so does its tag.
Sealed ==
  arbitrated = {} /\ ~overtaken =>
    /\ contractTag = contract
    /\ \A m \in Stages : Verifies(stageTag[m], stage[m])
    /\ \A r \in Requests :
         /\ at[r] \in HoldsContract => copy[r].contract = contract
         /\ at[r] \in HoldsStage => copy[r].stage = stage[on[r]]

\* A contract with entries nobody paid through the gateway was signed with its parties.
SignedByHand == arbitrated = {} /\ contract.entries > 0 /\ ~wired => spelt = "people"

ZInv == BInv /\ Sealed /\ SignedByHand

\* A save of the contract from a copy that is current stores what it signs.
LEMMA ContractSealed ==
  ASSUME BInv, Sealed, NEW r \in Requests, NEW new \in Contract,
         at[r] \in HoldsContract, SaveContract(r, new), at'[r] \notin HoldsContract,
         \A q \in Requests \ {r} : at'[q] = at[q] /\ on'[q] = on[q] /\ copy'[q] = copy[q],
         at'[r] \in HoldsStage => at[r] \in HoldsStage /\ on'[r] = on[r] /\ copy'[r] = copy[r],
         UNCHANGED <<stage, stageTag, arbitrated>>
  PROVE  Sealed'
<1> SUFFICES ASSUME arbitrated = {}, ~overtaken'
             PROVE  /\ contractTag' = contract'
                    /\ \A q \in Requests :
                         /\ at'[q] \notin HoldsContract
                         /\ at'[q] \in HoldsStage => copy'[q].stage = stage[on'[q]]
                    /\ ~overtaken
  BY DEF Sealed
<1>1. ~overtaken /\ ~MeetsOnContract(r)
  BY DEF SaveContract, BInv, SInv, TInv, TypeOK
<1>2. copy[r].contract = contract /\ contract \in Contract
  BY <1>1 DEF Sealed, BInv, SInv, TInv, TypeOK
<1>3. contract' = new
  <2>1. contract.entries + (new.entries - contract.entries) = new.entries
    BY <1>2 DEF Contract
  <2>2. contract' = [entries |-> new.entries, released |-> new.released,
                     commission |-> new.commission, status |-> new.status]
    BY <1>2, <2>1 DEF SaveContract, Written
  <2> QED
    BY <2>2 DEF Contract
<1>4. contractTag' = contract'
  BY <1>3 DEF SaveContract, Sign
<1>5. \A q \in Requests \ {r} : at[q] \notin HoldsContract
  BY <1>1 DEF MeetsOnContract
<1> QED
  BY <1>1, <1>4, <1>5 DEF Sealed

\* So does a save of a stage.
LEMMA StageSealed ==
  ASSUME BInv, Sealed, NEW r \in Requests, NEW new \in Stage,
         at[r] \in HoldsStage, SaveStage(r, new), at'[r] \notin HoldsStage,
         \A q \in Requests \ {r} : at'[q] = at[q] /\ on'[q] = on[q] /\ copy'[q] = copy[q],
         at'[r] \in HoldsContract => at[r] \in HoldsContract /\ copy'[r] = copy[r],
         UNCHANGED <<contract, contractTag, arbitrated>>
  PROVE  Sealed'
<1> SUFFICES ASSUME arbitrated = {}, ~overtaken'
             PROVE  /\ \A m \in Stages : Verifies(stageTag'[m], stage'[m])
                    /\ \A q \in Requests :
                         /\ at'[q] \in HoldsContract => copy'[q].contract = contract
                         /\ at'[q] \in HoldsStage => copy'[q].stage = stage'[on'[q]]
                    /\ ~overtaken
  BY DEF Sealed
<1>1. ~overtaken /\ ~MeetsOnStage(r)
  BY DEF SaveStage, BInv, SInv, TInv, TypeOK
<1>2. /\ copy[r].stage = stage[on[r]] /\ on[r] \in Stages /\ stage[on[r]] \in Stage
      /\ stage \in [Stages -> Stage] /\ stageTag \in [Stages -> Stage \cup {None}]
      /\ \A m \in Stages : Verifies(stageTag[m], stage[m])
  BY <1>1 DEF Sealed, BInv, SInv, TInv, TypeOK, InFlight, HoldsStage
<1>3. stage' = [stage EXCEPT ![on[r]] = new]
  <2>1. [status |-> Written(copy[r].stage.status, new.status, stage[on[r]].status),
         paid |-> Written(copy[r].stage.paid, new.paid, stage[on[r]].paid)] = new
    <3>1. [status |-> Written(copy[r].stage.status, new.status, stage[on[r]].status),
           paid |-> Written(copy[r].stage.paid, new.paid, stage[on[r]].paid)]
            = [status |-> new.status, paid |-> new.paid]
      BY <1>2 DEF Written
    <3> QED
      BY <3>1 DEF Stage
  <2> QED
    BY <2>1 DEF SaveStage
<1>4. \A m \in Stages : Verifies(stageTag'[m], stage'[m])
  BY <1>2, <1>3 DEF SaveStage, Verifies
<1>5. \A q \in Requests \ {r} : on[q] = on[r] => at[q] \notin HoldsStage
  BY <1>1 DEF MeetsOnStage
<1>6. ASSUME NEW q \in Requests \ {r}, at[q] \in HoldsStage
      PROVE  copy[q].stage = stage'[on[q]]
  <2>1. on[q] # on[r] /\ on[q] \in Stages /\ copy[q].stage = stage[on[q]]
    BY <1>1, <1>5, <1>6 DEF Sealed, BInv, SInv, TInv, InFlight, HoldsStage
  <2> QED
    BY <1>2, <1>3, <2>1
<1> QED
  BY <1>1, <1>4, <1>6 DEF Sealed

\* A step that saves nothing, or what a decision paid, keeps the copies that matter.
LEMMA SilentSealed ==
  ASSUME Sealed, NEW r \in Requests,
         \A q \in Requests \ {r} : at'[q] = at[q] /\ on'[q] = on[q] /\ copy'[q] = copy[q],
         Leads(r), at'[r] \in {"releasing"} \cup Counting => copy'[r] = copy[r],
         UNCHANGED <<contract, contractTag, stage, stageTag, arbitrated, overtaken>>
  PROVE  Sealed'
<1>1. /\ at'[r] \in HoldsContract => at[r] \in HoldsContract /\ copy'[r] = copy[r]
      /\ at'[r] \in HoldsStage =>
           at[r] \in HoldsStage /\ on'[r] = on[r] /\ copy'[r] = copy[r]
  BY DEF Leads, HoldsContract, HoldsStage, Counting
<1> QED
  BY <1>1 DEF Sealed

LEMMA EntryAdded ==
  ASSUME NEW c \in Contract
  PROVE  [c EXCEPT !.entries = c.entries + 1] \in Contract
BY DEF Contract

LEMMA StepSealed ==
  ASSUME ZInv, BInv', NEW r \in Requests, Start(r) \/ Continue(r) \/ Die(r)
  PROVE  Sealed'
<1> USE DEF ZInv, BInv, SInv, TInv, TypeOK, Keep, KeepBeside, contractVars, stageVars
<1>1. CASE Start(r)
  <2>1. PICK place \in Places, m \in Stages, d \in Disputes \cup {None} : Load(r, place, m, d)
    BY <1>1, StartTakes
  <2>2. /\ \A q \in Requests \ {r} : at'[q] = at[q] /\ on'[q] = on[q] /\ copy'[q] = copy[q]
        /\ copy'[r].contract = contract /\ copy'[r].stage = stage[m] /\ on'[r] = m
        /\ UNCHANGED <<contract, contractTag, stage, stageTag, arbitrated, overtaken>>
    BY <2>1 DEF Load
  <2> QED
    BY <2>2 DEF Sealed
<1>2. CASE SaveDeposit(r)
  <2>1. PICK new \in Contract : SaveContract(r, new)
    <3>1. copy[r].contract \in Contract
      BY <1>2 DEF SaveDeposit, InFlight, Copy
    <3> QED
      BY <1>2, <3>1, EntryAdded DEF SaveDeposit
  <2>2. /\ at[r] = "depositing" /\ at'[r] = "marking" /\ on'[r] = on[r] /\ copy' = copy
        /\ \A q \in Requests \ {r} : at'[q] = at[q] /\ on'[q] = on[q] /\ copy'[q] = copy[q]
        /\ UNCHANGED <<stage, stageTag, arbitrated>>
    BY <1>2 DEF SaveDeposit, Goto
  <2>3. /\ at[r] \in HoldsContract /\ at'[r] \notin HoldsContract
        /\ at[r] \in HoldsStage
    BY <2>2 DEF HoldsContract, HoldsStage
  <2> QED
    BY <2>1, <2>2, <2>3, ContractSealed
<1>3. CASE PayRelease(r)
  <2>1. PICK new \in Contract : SaveContract(r, new)
    <3>1. copy[r].contract \in Contract /\ Net \in Nat /\ Commission \in Nat
      BY <1>3, BuildAssumption DEF PayRelease, InFlight, Copy, Net
    <3> DEFINE paid ==
          [entries |-> copy[r].contract.entries + 1,
           released |-> copy[r].contract.released + Net,
           commission |-> copy[r].contract.commission + Commission,
           status |-> IF at[r] = "payingLast" THEN "COMPLETED" ELSE copy[r].contract.status]
    <3>2. paid \in Contract
      BY <3>1 DEF Contract, BuildContractStatus
    <3>3. SaveContract(r, paid)
      BY <1>3 DEF PayRelease
    <3> HIDE DEF paid
    <3> QED
      BY <3>2, <3>3
  <2>2. /\ at[r] \in {"paying", "payingLast"} /\ at'[r] = "idle"
        /\ \A q \in Requests \ {r} : at'[q] = at[q] /\ on'[q] = on[q] /\ copy'[q] = copy[q]
        /\ UNCHANGED <<stage, stageTag, arbitrated>>
    BY <1>3 DEF PayRelease, Finish
  <2>3. at[r] \in HoldsContract /\ at'[r] \notin HoldsContract /\ at'[r] \notin HoldsStage
    BY <2>2 DEF HoldsContract, HoldsStage
  <2> QED
    BY <2>1, <2>2, <2>3, ContractSealed
<1>4. CASE Marks(r) \/ SaveEdit(r) \/ SaveReleased(r)
  <2>1. PICK new \in Stage : SaveStage(r, new)
    <3>1. copy[r].stage \in Stage
      BY <1>4 DEF Marks, MarkFunded, SaveClaim, SaveInspection, SaveEdit, SaveReleased,
                  InFlight, Copy
    <3>2. \A st \in MilestoneStatus : [copy[r].stage EXCEPT !.status = st] \in Stage
      BY <3>1 DEF Stage
    <3>3. [status |-> "RELEASED", paid |-> Net] \in Stage
      BY BuildAssumption DEF Stage, MilestoneStatus, Net
    <3>4. CASE Marks(r)
      <4>1. PICK st \in MilestoneStatus : SaveStageStatus(r, st)
        BY <3>4 DEF Marks, MarkFunded, SaveClaim, SaveInspection, MilestoneStatus
      <4> QED
        BY <3>2, <4>1 DEF SaveStageStatus
    <3> QED
      BY <1>4, <3>1, <3>3, <3>4 DEF SaveEdit, SaveReleased
  <2>2. \/ at[r] \in {"marking", "claiming", "inspecting", "editing"} /\ at'[r] = "idle"
        \/ at[r] = "releasing" /\ at'[r] = "counting" /\ copy' = copy
    BY <1>4 DEF Marks, MarkFunded, SaveClaim, SaveInspection, SaveEdit, SaveReleased, Finish,
                Goto
  <2>3. /\ \A q \in Requests \ {r} : at'[q] = at[q] /\ on'[q] = on[q] /\ copy'[q] = copy[q]
        /\ UNCHANGED <<contract, contractTag, arbitrated>>
    BY <1>4 DEF Marks, MarkFunded, SaveClaim, SaveInspection, SaveEdit, SaveReleased, Finish,
                Goto
  <2>4. /\ at[r] \in HoldsStage /\ at'[r] \notin HoldsStage
        /\ at'[r] \in HoldsContract => at[r] \in HoldsContract /\ copy'[r] = copy[r]
    BY <2>2 DEF HoldsContract, HoldsStage
  <2> QED
    BY <2>1, <2>3, <2>4, StageSealed
<1>5. CASE MoveMoney(r)
  BY <1>5 DEF MoveMoney, Sealed
<1>6. CASE StampReleased(r)
  BY <1>6 DEF StampReleased, StampsDecided, Sealed
<1>7. ASSUME Indifferent(r), ~SaveEdit(r), ~MoveMoney(r), ~StampReleased(r)
      PROVE  Sealed'
  <2>1. UNCHANGED <<contract, contractTag, stage, stageTag, arbitrated, overtaken>>
    BY <1>7 DEF Indifferent, AskDispute, CountOutstanding, CompleteProject, FileDispute,
                SaveReview, SaveWithdrawal, Weigh, SaveResolution, Die
  <2> QED
    BY <1>7, <2>1, IndifferentLeads, SilentSealed
<1> QED
  BY <1>1, <1>2, <1>3, <1>4, <1>5, <1>6, <1>7 DEF Continue, Indifferent, Marks

\* Every save of the contract signs it, and one that adds an entry is a decision's or signs.
LEMMA StepSigned ==
  ASSUME ZInv, NEW r \in Requests, Start(r) \/ Continue(r) \/ Die(r)
  PROVE  SignedByHand'
<1> USE DEF Keep, KeepBeside, contractVars, stageVars
<1>1. CASE SaveDeposit(r) \/ PayRelease(r)
  <2>1. wired' = (wired \/ Role[r] = "gateway") /\ spelt' = Spelling(r)
    BY <1>1 DEF SaveDeposit, PayRelease, SaveContract, Sign
  <2> QED
    BY <2>1 DEF SignedByHand, Spelling
<1>2. CASE MoveMoney(r)
  <2>1. arbitrated' # {}
    BY <1>2 DEF MoveMoney
  <2> QED
    BY <2>1 DEF SignedByHand
<1>3. ASSUME UNCHANGED <<contract, tagVars>>, arbitrated \subseteq arbitrated'
      PROVE  SignedByHand'
  BY <1>3 DEF ZInv, SignedByHand
<1>4. CASE Start(r)
  <2>1. PICK place \in Places, m \in Stages, d \in Disputes \cup {None} : Load(r, place, m, d)
    BY <1>4, StartTakes DEF ZInv, BInv, SInv, TInv
  <2> QED
    BY <1>3, <2>1 DEF Load
<1>5. CASE Die(r) \/ MarkFunded(r) \/ SaveEdit(r) \/ SaveClaim(r) \/ SaveInspection(r)
           \/ AskDispute(r) \/ SaveReleased(r) \/ CountOutstanding(r) \/ CompleteProject(r)
  BY <1>3, <1>5 DEF Die, MarkFunded, SaveEdit, SaveClaim, SaveInspection, AskDispute,
                    SaveReleased, CountOutstanding, CompleteProject
<1>6. CASE FileDispute(r) \/ SaveReview(r) \/ SaveWithdrawal(r) \/ Weigh(r)
           \/ StampReleased(r) \/ SaveResolution(r)
  BY <1>3, <1>6 DEF FileDispute, SaveReview, SaveWithdrawal, Weigh, StampReleased, SaveResolution
<1> QED
  BY <1>1, <1>2, <1>4, <1>5, <1>6 DEF Continue

\* While nobody arbitrates and no save meets another request's copy of the document, the
\* figures signed are those stored between the handlers, and a contract whose deposits were
\* paid by hand is signed the way a release reads it.
THEOREM TagsMatch == Spec => []SealsHold
<1>1. ZInv /\ [Next]_vars => ZInv'
  <2>1. ASSUME ZInv, Next PROVE ZInv'
    <3>1. BInv'
      BY <2>1, NextBInv DEF ZInv
    <3> QED
      BY <2>1, <3>1, StepSealed, StepSigned DEF Next, ZInv
  <2>2. ASSUME ZInv, UNCHANGED vars PROVE ZInv'
    <3>1. BInv'
      BY <2>2, NextBInv DEF ZInv
    <3> QED
      BY <2>2, <3>1 DEF ZInv, Sealed, SignedByHand, vars, contractVars, stageVars, requestVars
  <2> QED
    BY <2>1, <2>2
<1>2. Init => ZInv
  BY InitBInv DEF Init, ZInv, Sealed, SignedByHand, Verifies, HoldsContract, HoldsStage
<1>3. ZInv => SealsHold
  BY DEF ZInv, Sealed, SignedByHand, SealsHold
<1> QED
  BY <1>1, <1>2, <1>3, PTL DEF Spec

=====
