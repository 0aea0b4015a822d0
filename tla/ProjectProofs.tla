--------------------------- MODULE ProjectProofs ----------------------------
(***************************************************************************)
(* Proofs about Matching, Handover, Meetings and Calls, for any sets of    *)
(* people, proposals, contracts, meetings, calls and requests: the brief   *)
(* agrees with its proposals and its contract, the package kept is the one *)
(* the owner accepted, an architect's meetings do not overlap, and a call  *)
(* is on record as it is.                                                  *)
(*                                                                         *)
(* The brief: unless decisions crossed, at most one is under way, what it  *)
(* finds at each of its stages is known (Phase), and what it leaves when   *)
(* it ends is settled (Settlement).  Edits and deletions meet a brief that *)
(* stays open, refusals a proposal that is not being accepted; so neither  *)
(* disturbs a decision, nor a decision them.                               *)
(*                                                                         *)
(* The package: unless an acceptance was crossed, nobody else is writing   *)
(* it between its load and its save, so that what it read is what is       *)
(* stored; and an edit under way has seen a package not yet accepted which *)
(* is still not accepted.                                                  *)
(*                                                                         *)
(* The calendar: what a request is about to take is apart from the host's  *)
(* meetings and from what the others are about to take, or begins when     *)
(* they do, and then the index refuses the later one.                      *)
(*                                                                         *)
(* The calls: a call is in the map until the first event that ends it,     *)
(* which sees to the record; who has gone has a sweep under way that ends  *)
(* the calls they left.                                                    *)
(***************************************************************************)
EXTENDS Matching, Handover, Meetings, Calls, TLAPS

-----------------------------------------------------------------------------
(* The brief *)

Won(p) == proposal[p] # None /\ proposal[p].status = "ACCEPTED"
Live(c) == signed[c] # None /\ signed[c].live
NoneWon == \A p \in Proposals : ~Won(p)
NoneLive == \A c \in Contracts : ~Live(c)
Open == brief.status \in Editable \cup {"deleted"}

\* Accepting or cancelling.
Deciding(r) == step[r].stage \in AcceptStages \cup CancelStages
Filing == AcceptStages \cup {"proposing", "declining", "withdrawing"}

\* What a request is about is there; proposals are filed one by one.
StepsFilled ==
  \A r \in MatchRequests :
    /\ step[r].stage \in Filing => step[r].about \in Proposals
    /\ step[r].stage = "proposing" =>
         /\ step[r].by \in Architects /\ proposal[step[r].about] = None
         /\ \A q \in MatchRequests \ {r} :
              ~(step[q].stage = "proposing" /\ step[q].about = step[r].about)
    /\ step[r].stage \in CancelStages =>
         step[r].about \in Contracts /\ signed[step[r].about] # None

\* Decisions come one after the other.
OneDecides == \A r, q \in MatchRequests : Deciding(r) /\ Deciding(q) => r = q

\* An edit or a deletion is of an open brief, and no acceptance is under way.
ChangesOpen ==
  \A r \in MatchRequests : step[r].stage \in {"editing", "deleting"} =>
    Open /\ \A q \in MatchRequests : step[q].stage \notin AcceptStages

\* A proposal being declined or withdrawn is neither accepted nor about to be.
RefusalsOpen ==
  \A r \in MatchRequests : step[r].stage \in {"declining", "withdrawing"} =>
    /\ ~Won(step[r].about)
    /\ \A q \in MatchRequests : step[q].stage \in AcceptStages => step[q].about # step[r].about

\* The brief has the architect of the one accepted proposal p.
Engaged(p) ==
  /\ brief.status = "CONCEPT_STAGE"
  /\ Won(p) /\ \A q \in Proposals : Won(q) => q = p
  /\ brief.architect = proposal[p].architect

\* And the one running contract c, on the scope the brief has.
Matched(p, c) ==
  /\ Engaged(p)
  /\ Live(c) /\ \A d \in Contracts : Live(d) => d = c
  /\ signed[c].architect = brief.architect /\ signed[c].scope = brief.scope

Posted == brief.status = "BRIEF_POSTED" /\ brief.architect = None /\ NoneLive

\* What is accepted is of the architect of contract c.
WonByParty(c) ==
  \A p \in Proposals : Won(p) => proposal[p].architect = signed[c].architect

\* What a decision finds at each of its stages.
Phase(r) ==
  /\ step[r].stage = "winning" => Posted /\ NoneWon /\ Pending(step[r].about)
  /\ step[r].stage = "engaging" =>
       Posted /\ Won(step[r].about) /\ \A q \in Proposals : Won(q) => q = step[r].about
  /\ step[r].stage \in {"informing", "signing"} => Engaged(step[r].about) /\ NoneLive
  /\ step[r].stage = "cancelling" => \E p \in Proposals : Matched(p, step[r].about)
  /\ step[r].stage = "reopening" =>
       brief.status = "CONCEPT_STAGE" /\ NoneLive /\ WonByParty(step[r].about)
  /\ step[r].stage = "releasing" =>
       Open /\ brief.architect = None /\ NoneLive /\ WonByParty(step[r].about)

Phases == \A r \in MatchRequests : Phase(r)

\* And what it leaves.
Settlement ==
  /\ Open => NoneWon /\ NoneLive /\ brief.architect = None
  /\ brief.status = "CONCEPT_STAGE" => \E p \in Proposals, c \in Contracts : Matched(p, c)
  /\ ~Open /\ brief.status # "CONCEPT_STAGE" => NoneLive

Settled == (\A r \in MatchRequests : ~Deciding(r)) => Settlement

Orderly == OneDecides /\ ChangesOpen /\ RefusalsOpen /\ Phases /\ Settled

MInv ==
  /\ MatchingTypeOK
  /\ StepsFilled
  /\ ~muddled => Orderly

Step == [stage : {"idle", "proposing", "winning", "engaging", "informing", "signing", "declining",
                  "withdrawing", "posting", "editing", "deleting", "cancelling", "reopening",
                  "releasing"},
         about : Proposals \cup Contracts \cup {None}, by : Architects \cup {None}]
Brief == [status : BriefStatus, architect : Architects \cup {None}, scope : 0..MaxEdits]
Filed == [architect : Architects, status : ProposalStatus]
Signed == [architect : Architects, scope : 0..MaxEdits, live : BOOLEAN]

\* A step of request r.
OnlyStep(r, x) == x \in Step /\ step' = [step EXCEPT ![r] = x]

LEMMA NoStepIsOne == NoStep \in Step /\ NoStep.stage = "idle"
BY DEF NoStep, Step

LEMMA StepTaken ==
  ASSUME MatchingTypeOK, NEW r \in MatchRequests, NEW x, OnlyStep(r, x)
  PROVE  /\ step' \in [MatchRequests -> Step] /\ step'[r] = x
         /\ \A q \in MatchRequests \ {r} : step'[q] = step[q]
BY DEF OnlyStep, MatchingTypeOK, Step

LEMMA MatchingBegins == MatchingInit => MInv
<1> SUFFICES ASSUME MatchingInit PROVE MInv
  OBVIOUS
<1>1. step \in [MatchRequests -> Step] /\ \A r \in MatchRequests : step[r].stage = "idle"
  BY NoStepIsOne DEF MatchingInit
<1>2. MatchingTypeOK
  <2>1. brief \in Brief
    BY MatchingAssumption DEF MatchingInit, Brief, BriefStatus
  <2> QED
    BY <1>1, <2>1 DEF MatchingInit, MatchingTypeOK, Step, Brief
<1>3. StepsFilled
  BY <1>1 DEF StepsFilled, Filing, AcceptStages, CancelStages
<1>4. Orderly
  BY <1>1 DEF MatchingInit, Orderly, OneDecides, ChangesOpen, RefusalsOpen, Phases, Phase, Settled,
     Settlement, Deciding, AcceptStages, CancelStages, NoneWon, NoneLive, Won, Live, Open
<1> QED
  BY <1>2, <1>3, <1>4 DEF MInv

\* Where nobody's decision is touched, orderliness rests on the changes and the refusals.
LEMMA Quietly ==
  ASSUME MatchingTypeOK, Orderly, NEW r \in MatchRequests, NEW x, OnlyStep(r, x),
         step[r].stage \notin AcceptStages \cup CancelStages,
         x.stage \notin AcceptStages \cup CancelStages,
         UNCHANGED <<brief, signed>>,
         \A p \in Proposals : Won(p)' <=> Won(p),
         \A p \in Proposals : Won(p) => proposal'[p] = proposal[p],
         \A q \in MatchRequests : step[q].stage = "winning" =>
           proposal'[step[q].about] = proposal[step[q].about],
         ChangesOpen', RefusalsOpen', StepsFilled
  PROVE  Orderly'
<1>1. /\ step'[r] = x
      /\ \A q \in MatchRequests \ {r} : step'[q] = step[q]
  BY StepTaken
<1>2. \A q \in MatchRequests : (Deciding(q)' <=> Deciding(q))
  BY <1>1 DEF Deciding
<1>3. \A q \in MatchRequests : Deciding(q) => step'[q] = step[q]
  BY <1>1 DEF Deciding
<1>4. OneDecides'
  BY <1>2 DEF Orderly, OneDecides
<1>5. \A p \in Proposals : Engaged(p) => Engaged(p)'
  BY DEF Engaged
<1>6. NoneLive' <=> NoneLive
  BY DEF NoneLive, Live
<1>7. \A p \in Proposals, c \in Contracts : Matched(p, c) => Matched(p, c)'
  BY <1>5 DEF Matched, Live
<1>8. \A c \in Contracts : WonByParty(c) => WonByParty(c)'
  BY DEF WonByParty
<1>9. NoneWon' <=> NoneWon
  BY DEF NoneWon
<1>10. (Posted' <=> Posted) /\ (Open' <=> Open)
  BY <1>6 DEF Posted, Open
<1>11. ASSUME NEW q \in MatchRequests PROVE Phase(q)'
  <2>1. CASE ~Deciding(q)
    BY <1>2, <2>1 DEF Deciding, Phase, AcceptStages, CancelStages
  <2>2. CASE Deciding(q)
    <3>1. step'[q] = step[q] /\ Phase(q)
      BY <1>3, <2>2 DEF Orderly, Phases
    <3>2. /\ step[q].stage \in AcceptStages => step[q].about \in Proposals
          /\ step[q].stage \in CancelStages => step[q].about \in Contracts
      BY DEF StepsFilled, Filing
    <3>3. CASE step[q].stage = "winning"
      BY <1>9, <1>10, <3>1, <3>3 DEF Phase, Pending
    <3>4. CASE step[q].stage = "engaging"
      BY <1>10, <3>1, <3>2, <3>4 DEF Phase, AcceptStages
    <3>5. CASE step[q].stage \in {"informing", "signing"}
      BY <1>5, <1>6, <3>1, <3>2, <3>5 DEF Phase, AcceptStages
    <3>6. CASE step[q].stage = "cancelling"
      BY <1>7, <3>1, <3>2, <3>6 DEF Phase, CancelStages
    <3>7. CASE step[q].stage \in {"reopening", "releasing"}
      BY <1>6, <1>8, <1>10, <3>1, <3>2, <3>7 DEF Phase, CancelStages
    <3> QED
      BY <2>2, <3>3, <3>4, <3>5, <3>6, <3>7 DEF Deciding, AcceptStages, CancelStages
  <2> QED
    BY <2>1, <2>2
<1>12. Settled'
  <2>1. Settlement => Settlement'
    BY <1>6, <1>7, <1>9, <1>10 DEF Settlement
  <2> QED
    BY <1>2, <2>1 DEF Orderly, Settled
<1> QED
  BY <1>4, <1>11, <1>12 DEF Orderly, Phases

LEMMA Creates ==
  ASSUME MInv, NEW r \in MatchRequests, NEW p \in Proposals, NEW a \in Architects,
         CreateProposal(r, p, a)
  PROVE  MInv'
<1> DEFINE x == [stage |-> "proposing", about |-> p, by |-> a]
<1>1. /\ OnlyStep(r, x) /\ step[r].stage = "idle" /\ UNCHANGED <<brief, proposal, signed, muddled>>
      /\ proposal[p] = None /\ \A q \in MatchRequests : step[q].about # p
  BY DEF CreateProposal, Begins, OnlyStep, Step
<1>2. x.stage = "proposing" /\ x.about = p /\ x.by = a
  OBVIOUS
<1> HIDE DEF x
<1>3. /\ step' \in [MatchRequests -> Step] /\ step'[r] = x
      /\ \A q \in MatchRequests \ {r} : step'[q] = step[q]
  BY <1>1, StepTaken DEF MInv
<1>4. MatchingTypeOK'
  BY <1>1, <1>3 DEF MInv, MatchingTypeOK, Step
<1>5. StepsFilled'
  BY <1>1, <1>2, <1>3 DEF MInv, StepsFilled, Filing, AcceptStages, CancelStages
<1>6. ASSUME ~muddled' PROVE Orderly'
  <2>1. Orderly /\ MatchingTypeOK /\ StepsFilled
    BY <1>1, <1>6 DEF MInv
  <2>2. (\A q \in Proposals : Won(q)' <=> Won(q)) /\ (Open' <=> Open)
    BY <1>1 DEF Won, Open
  <2>3. ChangesOpen'
    BY <1>2, <1>3, <2>1, <2>2 DEF Orderly, ChangesOpen, AcceptStages
  <2>4. RefusalsOpen'
    BY <1>1, <1>2, <1>3, <2>1, <2>2 DEF Orderly, RefusalsOpen, AcceptStages, StepsFilled, Filing
  <2> QED
    BY <1>1, <1>2, <2>1, <2>2, <2>3, <2>4, Quietly DEF AcceptStages, CancelStages
<1> QED
  BY <1>4, <1>5, <1>6 DEF MInv

LEMMA Inserts ==
  ASSUME MInv, NEW r \in MatchRequests, InsertProposal(r)
  PROVE  MInv'
<1> DEFINE p == step[r].about
<1>1. /\ OnlyStep(r, NoStep) /\ step[r].stage = "proposing" /\ UNCHANGED <<brief, signed, muddled>>
      /\ \/ UNCHANGED proposal
         \/ proposal' = [proposal EXCEPT ![p] = [architect |-> step[r].by, status |-> "PENDING"]]
  BY NoStepIsOne DEF InsertProposal, Stops, OnlyStep
<1>2. p \in Proposals /\ step[r].by \in Architects /\ proposal[p] = None
  BY <1>1 DEF MInv, StepsFilled, Filing
<1>3. /\ step' \in [MatchRequests -> Step] /\ step'[r] = NoStep
      /\ \A q \in MatchRequests \ {r} : step'[q] = step[q]
  BY <1>1, StepTaken DEF MInv
<1> HIDE DEF p
<1>4. /\ proposal' \in [Proposals -> Filed \cup {None}]
      /\ \A q \in Proposals \ {p} : proposal'[q] = proposal[q]
      /\ proposal'[p] # None => proposal'[p].status = "PENDING"
  BY <1>1, <1>2 DEF MInv, MatchingTypeOK, Filed, ProposalStatus
<1>5. MatchingTypeOK'
  BY <1>1, <1>3, <1>4 DEF MInv, MatchingTypeOK, Step, Filed
<1>6. StepsFilled'
  <2>1. \A q \in MatchRequests \ {r} : step[q].stage = "proposing" => step[q].about # p
    BY <1>1 DEF MInv, StepsFilled, p
  <2> QED
    BY <1>1, <1>3, <1>4, <2>1, NoStepIsOne
       DEF MInv, StepsFilled, Filing, AcceptStages, CancelStages
<1>7. ASSUME ~muddled' PROVE Orderly'
  <2>1. Orderly /\ MatchingTypeOK /\ StepsFilled
    BY <1>1, <1>7 DEF MInv
  <2>2. /\ \A q \in Proposals : Won(q)' <=> Won(q)
        /\ \A q \in Proposals : Won(q) => proposal'[q] = proposal[q]
        /\ Open' <=> Open
    BY <1>1, <1>2, <1>4 DEF Won, Open
  <2>3. \A q \in MatchRequests : step[q].stage = "winning" =>
          proposal'[step[q].about] = proposal[step[q].about]
    BY <1>2, <1>4, <2>1 DEF Orderly, Phases, Phase, Pending, StepsFilled, Filing, AcceptStages
  <2>4. ChangesOpen'
    BY <1>3, <2>1, <2>2, NoStepIsOne DEF Orderly, ChangesOpen, AcceptStages
  <2>5. RefusalsOpen'
    BY <1>3, <2>1, <2>2, NoStepIsOne DEF Orderly, RefusalsOpen, AcceptStages, StepsFilled, Filing
  <2> QED
    BY <1>1, <2>1, <2>2, <2>3, <2>4, <2>5, Quietly, NoStepIsOne DEF AcceptStages, CancelStages
<1> QED
  BY <1>5, <1>6, <1>7 DEF MInv

LEMMA Refuses ==
  ASSUME MInv, NEW r \in MatchRequests, NEW p \in Proposals,
         NEW stage \in {"declining", "withdrawing"}, Refuse(r, p, stage)
  PROVE  MInv'
<1> DEFINE x == [stage |-> stage, about |-> p, by |-> None]
<1>1. /\ OnlyStep(r, x) /\ step[r].stage = "idle" /\ UNCHANGED <<brief, proposal, signed>>
      /\ Pending(p) /\ muddled' \in BOOLEAN /\ (muddled => muddled')
      /\ ~muddled' => \A q \in MatchRequests \ {r} :
           step[q].stage \in AcceptStages => step[q].about # p
  BY DEF Refuse, Begins, OnlyStep, Step, MInv, MatchingTypeOK
<1>2. x.stage \in {"declining", "withdrawing"} /\ x.about = p
  OBVIOUS
<1> HIDE DEF x
<1>3. /\ step' \in [MatchRequests -> Step] /\ step'[r] = x
      /\ \A q \in MatchRequests \ {r} : step'[q] = step[q]
  BY <1>1, StepTaken DEF MInv
<1>4. MatchingTypeOK'
  BY <1>1, <1>3 DEF MInv, MatchingTypeOK, Step
<1>5. StepsFilled'
  BY <1>1, <1>2, <1>3 DEF MInv, StepsFilled, Filing, AcceptStages, CancelStages
<1>6. ASSUME ~muddled' PROVE Orderly'
  <2>1. Orderly /\ MatchingTypeOK /\ StepsFilled
    BY <1>1, <1>6 DEF MInv
  <2>2. (\A q \in Proposals : Won(q)' <=> Won(q)) /\ (Open' <=> Open) /\ ~Won(p)
    BY <1>1 DEF Won, Open, Pending
  <2>3. ChangesOpen'
    BY <1>2, <1>3, <2>1, <2>2 DEF Orderly, ChangesOpen, AcceptStages
  <2>4. ASSUME NEW q \in MatchRequests, step'[q].stage \in {"declining", "withdrawing"}
        PROVE (/\ ~Won(step[q].about)
               /\ \A o \in MatchRequests :
                    step[o].stage \in AcceptStages => step[o].about # step[q].about)'
    <3>1. CASE q = r
      <4>1. step'[q].about = p /\ ~Won(step[q].about)'
        BY <1>2, <1>3, <2>2, <3>1 DEF Won
      <4>2. \A o \in MatchRequests \ {r} : step'[o].stage \in AcceptStages => step'[o].about # p
        BY <1>1, <1>3, <1>6
      <4>3. step'[r].stage \notin AcceptStages
        BY <1>2, <1>3 DEF AcceptStages
      <4> QED
        BY <4>1, <4>2, <4>3
    <3>2. CASE q # r
      <4>1. /\ step'[q] = step[q] /\ step[q].about \in Proposals /\ ~Won(step[q].about)
            /\ \A o \in MatchRequests : step[o].stage \in AcceptStages => step[o].about # step[q].about
        BY <1>3, <2>1, <2>4, <3>2 DEF Orderly, RefusalsOpen, StepsFilled, Filing
      <4>2. ~Won(step[q].about)'
        BY <1>1, <4>1 DEF Won
      <4>3. \A o \in MatchRequests : step'[o].stage \in AcceptStages => step'[o] = step[o]
        BY <1>2, <1>3 DEF AcceptStages
      <4> QED
        BY <4>1, <4>2, <4>3
    <3> QED BY <3>1, <3>2
  <2>5. RefusalsOpen'
    BY <2>4 DEF RefusalsOpen
  <2> QED
    BY <1>1, <1>2, <2>1, <2>2, <2>3, <2>5, Quietly DEF AcceptStages, CancelStages
<1> QED
  BY <1>4, <1>5, <1>6 DEF MInv

LEMMA RefusesForGood ==
  ASSUME MInv, NEW r \in MatchRequests, SaveRefused(r)
  PROVE  MInv'
<1> DEFINE p == step[r].about
<1>1. PICK status \in {"DECLINED", "WITHDRAWN"} :
        IF proposal[p] = None THEN UNCHANGED proposal ELSE SetProposal(p, status)
  BY DEF SaveRefused
<1>2. /\ OnlyStep(r, NoStep) /\ step[r].stage \in {"declining", "withdrawing"}
      /\ UNCHANGED <<brief, signed, muddled>>
  BY NoStepIsOne DEF SaveRefused, Stops, OnlyStep
<1>3. p \in Proposals
  BY <1>2 DEF MInv, StepsFilled, Filing
<1>4. /\ step' \in [MatchRequests -> Step] /\ step'[r] = NoStep
      /\ \A q \in MatchRequests \ {r} : step'[q] = step[q]
  BY <1>2, StepTaken DEF MInv
<1>5. /\ proposal' \in [Proposals -> Filed \cup {None}]
      /\ \A q \in Proposals \ {p} : proposal'[q] = proposal[q]
      /\ proposal'[p] = None <=> proposal[p] = None
      /\ proposal'[p] # None => proposal'[p].status # "ACCEPTED"
  <2>1. CASE proposal[p] = None
    BY <1>1, <2>1 DEF MInv, MatchingTypeOK, Filed
  <2>2. CASE proposal[p] # None
    <3>1. proposal[p] \in Filed /\ proposal \in [Proposals -> Filed \cup {None}]
      BY <1>3, <2>2 DEF MInv, MatchingTypeOK, Filed
    <3>2. /\ [proposal[p] EXCEPT !.status = status] \in Filed
          /\ [proposal[p] EXCEPT !.status = status].status = status
      BY <3>1 DEF Filed, ProposalStatus
    <3>3. [proposal[p] EXCEPT !.status = status] # None
      BY <3>2, MatchingAssumption DEF Filed
    <3>4. proposal' = [proposal EXCEPT ![p] = [proposal[p] EXCEPT !.status = status]]
      BY <1>1, <2>2 DEF SetProposal
    <3> HIDE DEF p
    <3> QED
      BY <1>3, <2>2, <3>1, <3>2, <3>3, <3>4
  <2> QED BY <2>1, <2>2
<1> HIDE DEF p
<1>6. MatchingTypeOK'
  BY <1>2, <1>4, <1>5 DEF MInv, MatchingTypeOK, Step, Filed
<1>7. StepsFilled'
  BY <1>2, <1>3, <1>4, <1>5, NoStepIsOne DEF MInv, StepsFilled, Filing, AcceptStages, CancelStages
<1>8. ASSUME ~muddled' PROVE Orderly'
  <2>1. Orderly /\ MatchingTypeOK /\ StepsFilled
    BY <1>2, <1>8 DEF MInv
  <2>2. /\ ~Won(p)
        /\ \A q \in MatchRequests : step[q].stage \in AcceptStages => step[q].about # p
    BY <1>2, <2>1 DEF Orderly, RefusalsOpen, p
  <2>3. /\ \A q \in Proposals : Won(q)' <=> Won(q)
        /\ \A q \in Proposals : Won(q) => proposal'[q] = proposal[q]
        /\ Open' <=> Open
    BY <1>2, <1>5, <2>2 DEF Won, Open
  <2>4. \A q \in MatchRequests : step[q].stage = "winning" =>
          proposal'[step[q].about] = proposal[step[q].about]
    BY <1>5, <2>1, <2>2 DEF StepsFilled, Filing, AcceptStages
  <2>5. ChangesOpen'
    BY <1>4, <2>1, <2>3, NoStepIsOne DEF Orderly, ChangesOpen, AcceptStages
  <2>6. RefusalsOpen'
    BY <1>4, <2>1, <2>3, NoStepIsOne DEF Orderly, RefusalsOpen, AcceptStages, StepsFilled, Filing
  <2> QED
    BY <1>2, <2>1, <2>3, <2>4, <2>5, <2>6, Quietly, NoStepIsOne DEF AcceptStages, CancelStages
<1> QED
  BY <1>6, <1>7, <1>8 DEF MInv

\* Where one request decides, orderliness is what holds at its stage or after its end.
LEMMA Decisively ==
  ASSUME MatchingTypeOK, NEW r \in MatchRequests, NEW x, OnlyStep(r, x),
         \A q \in MatchRequests \ {r} : ~Deciding(q),
         Deciding(r)' => Phase(r)', ~Deciding(r)' => Settlement',
         ChangesOpen', RefusalsOpen'
  PROVE  Orderly'
<1>1. \A q \in MatchRequests \ {r} : ~Deciding(q)'
  BY StepTaken DEF Deciding
<1>2. OneDecides'
  BY <1>1 DEF OneDecides
<1>3. ASSUME NEW q \in MatchRequests, ~Deciding(q)' PROVE Phase(q)'
  BY <1>3 DEF Deciding, Phase, AcceptStages, CancelStages
<1>4. Phases'
  BY <1>1, <1>3 DEF Phases
<1>5. Settled'
  BY DEF Settled
<1> QED
  BY <1>2, <1>4, <1>5 DEF Orderly

LEMMA Changes ==
  ASSUME MInv, NEW r \in MatchRequests, NEW stage \in {"editing", "deleting"},
         ChangeBrief(r, stage)
  PROVE  MInv'
<1> DEFINE x == [stage |-> stage, about |-> None, by |-> None]
<1>1. /\ OnlyStep(r, x) /\ step[r].stage = "idle" /\ UNCHANGED <<brief, proposal, signed>>
      /\ Open /\ muddled' \in BOOLEAN /\ (muddled => muddled')
      /\ ~muddled' => \A q \in MatchRequests \ {r} : step[q].stage \notin AcceptStages
  BY DEF ChangeBrief, Begins, OnlyStep, Step, MInv, MatchingTypeOK, Open, During
<1>2. x.stage \in {"editing", "deleting"}
  OBVIOUS
<1> HIDE DEF x
<1>3. /\ step' \in [MatchRequests -> Step] /\ step'[r] = x
      /\ \A q \in MatchRequests \ {r} : step'[q] = step[q]
  BY <1>1, StepTaken DEF MInv
<1>4. MatchingTypeOK'
  BY <1>1, <1>3 DEF MInv, MatchingTypeOK, Step
<1>5. StepsFilled'
  BY <1>1, <1>2, <1>3 DEF MInv, StepsFilled, Filing, AcceptStages, CancelStages
<1>6. ASSUME ~muddled' PROVE Orderly'
  <2>1. Orderly /\ MatchingTypeOK /\ StepsFilled
    BY <1>1, <1>6 DEF MInv
  <2>2. (\A q \in Proposals : Won(q)' <=> Won(q)) /\ Open'
    BY <1>1 DEF Won, Open
  <2>3. \A q \in MatchRequests : step'[q].stage \notin AcceptStages
    BY <1>1, <1>2, <1>3, <1>6 DEF AcceptStages
  <2>4. ChangesOpen'
    BY <2>2, <2>3 DEF ChangesOpen
  <2>5. RefusalsOpen'
    BY <1>2, <1>3, <2>1, <2>2, <2>3 DEF Orderly, RefusalsOpen, StepsFilled, Filing
  <2> QED
    BY <1>1, <1>2, <2>1, <2>2, <2>4, <2>5, Quietly DEF AcceptStages, CancelStages
<1> QED
  BY <1>4, <1>5, <1>6 DEF MInv

\* An edit or a deletion that lands on an orderly brief finds it open; if anyone decides,
\* it is a cancellation whose contract has ended.
LEMMA ChangesMeetReleases ==
  ASSUME Orderly, StepsFilled, NEW r \in MatchRequests, step[r].stage \in {"editing", "deleting"}
  PROVE  /\ Open /\ NoneLive /\ brief.architect = None
         /\ \A q \in MatchRequests : step[q].stage \notin AcceptStages \cup {"cancelling", "reopening"}
         /\ (\A q \in MatchRequests : ~Deciding(q)) => NoneWon
<1>1. Open /\ \A q \in MatchRequests : step[q].stage \notin AcceptStages
  BY DEF Orderly, ChangesOpen
<1>2. brief.status # "CONCEPT_STAGE"
  BY <1>1 DEF Open, Editable
<1>3. \A q \in MatchRequests : step[q].stage \notin {"cancelling", "reopening"}
  BY <1>2 DEF Orderly, Phases, Phase, Matched, Engaged
<1>4. CASE \A q \in MatchRequests : ~Deciding(q)
  BY <1>1, <1>3, <1>4 DEF Orderly, Settled, Settlement
<1>5. CASE \E q \in MatchRequests : Deciding(q)
  <2>1. PICK q \in MatchRequests : step[q].stage = "releasing"
    BY <1>1, <1>3, <1>5 DEF Deciding, CancelStages
  <2>2. NoneLive /\ brief.architect = None
    BY <2>1 DEF Orderly, Phases, Phase
  <2> QED
    BY <1>1, <1>3, <1>5, <2>2
<1> QED
  BY <1>4, <1>5

LEMMA Edits ==
  ASSUME MInv, NEW r \in MatchRequests, SaveBrief(r)
  PROVE  MInv'
<1>1. /\ OnlyStep(r, NoStep) /\ step[r].stage = "editing"
      /\ UNCHANGED <<proposal, signed, muddled>> /\ brief.scope < MaxEdits
      /\ brief' = IF brief.status = "deleted" THEN brief ELSE [brief EXCEPT !.scope = @ + 1]
  BY NoStepIsOne DEF SaveBrief, Stops, OnlyStep
<1>2. /\ step' \in [MatchRequests -> Step] /\ step'[r] = NoStep
      /\ \A q \in MatchRequests \ {r} : step'[q] = step[q]
  BY <1>1, StepTaken DEF MInv
<1>3. brief' \in Brief /\ brief'.status = brief.status /\ brief'.architect = brief.architect
  <2>1. brief \in Brief /\ brief.scope \in Nat /\ brief.scope + 1 \in 0..MaxEdits
    BY <1>1, MatchingAssumption DEF MInv, MatchingTypeOK, Brief
  <2>2. /\ [brief EXCEPT !.scope = brief.scope + 1] \in Brief
        /\ [brief EXCEPT !.scope = brief.scope + 1].status = brief.status
        /\ [brief EXCEPT !.scope = brief.scope + 1].architect = brief.architect
    BY <2>1 DEF Brief
  <2> QED
    BY <1>1, <2>1, <2>2
<1>4. MatchingTypeOK'
  BY <1>1, <1>2, <1>3 DEF MInv, MatchingTypeOK, Step, Brief
<1>5. StepsFilled'
  BY <1>1, <1>2, NoStepIsOne DEF MInv, StepsFilled, Filing, AcceptStages, CancelStages
<1>6. ASSUME ~muddled' PROVE Orderly'
  <2>1. Orderly /\ MatchingTypeOK /\ StepsFilled
    BY <1>1, <1>6 DEF MInv
  <2>2. (\A q \in Proposals : Won(q)' <=> Won(q)) /\ Open' /\ NoneLive' /\ brief'.architect = None
    BY <1>1, <1>3, <2>1, ChangesMeetReleases DEF Won, Open, NoneLive, Live
  <2>3. /\ \A q \in MatchRequests : Deciding(q) => step[q].stage = "releasing" /\ q # r
        /\ \A q \in MatchRequests : Deciding(q)' <=> Deciding(q)
    BY <1>1, <1>2, <2>1, ChangesMeetReleases, NoStepIsOne DEF Deciding, AcceptStages, CancelStages
  <2>4. ChangesOpen'
    BY <1>2, <2>1, <2>2, NoStepIsOne DEF Orderly, ChangesOpen, AcceptStages
  <2>5. RefusalsOpen'
    BY <1>2, <2>1, <2>2, NoStepIsOne DEF Orderly, RefusalsOpen, AcceptStages, StepsFilled, Filing
  <2>6. OneDecides'
    BY <2>1, <2>3 DEF Orderly, OneDecides
  <2>7. ASSUME NEW q \in MatchRequests PROVE Phase(q)'
    <3>1. CASE ~Deciding(q)
      BY <2>3, <3>1 DEF Deciding, Phase, AcceptStages, CancelStages
    <3>2. CASE Deciding(q)
      <4>1. step'[q] = step[q] /\ step[q].stage = "releasing" /\ WonByParty(step[q].about)
        BY <1>2, <2>1, <2>3, <3>2 DEF Orderly, Phases, Phase
      <4>2. WonByParty(step[q].about)'
        BY <1>1, <4>1 DEF WonByParty, Won
      <4> QED
        BY <2>2, <4>1, <4>2 DEF Phase
    <3> QED BY <3>1, <3>2
  <2>8. Settled'
    <3>1. NoneWon => NoneWon'
      BY <2>2 DEF NoneWon
    <3> QED
      BY <1>1, <2>1, <2>2, <2>3, <3>1, ChangesMeetReleases DEF Settled, Settlement, Open, Editable
  <2> QED
    BY <2>4, <2>5, <2>6, <2>7, <2>8 DEF Orderly, Phases
<1> QED
  BY <1>4, <1>5, <1>6 DEF MInv

LEMMA Removes ==
  ASSUME MInv, NEW r \in MatchRequests, RemoveBrief(r)
  PROVE  MInv'
<1>1. /\ OnlyStep(r, NoStep) /\ step[r].stage = "deleting"
      /\ UNCHANGED <<signed, muddled>> /\ proposal' = [p \in Proposals |-> None]
      /\ brief' = [brief EXCEPT !.status = "deleted"]
  BY NoStepIsOne DEF RemoveBrief, Stops, OnlyStep
<1>2. /\ step' \in [MatchRequests -> Step] /\ step'[r] = NoStep
      /\ \A q \in MatchRequests \ {r} : step'[q] = step[q]
  BY <1>1, StepTaken DEF MInv
<1>3. brief' \in Brief /\ brief'.status = "deleted" /\ brief'.architect = brief.architect
  BY <1>1 DEF MInv, MatchingTypeOK, Brief, BriefStatus
<1>4. MatchingTypeOK'
  BY <1>1, <1>2, <1>3 DEF MInv, MatchingTypeOK, Step, Brief
<1>5. StepsFilled'
  BY <1>1, <1>2, NoStepIsOne DEF MInv, StepsFilled, Filing, AcceptStages, CancelStages
<1>6. ASSUME ~muddled' PROVE Orderly'
  <2>1. Orderly /\ MatchingTypeOK /\ StepsFilled
    BY <1>1, <1>6 DEF MInv
  <2>2. (\A q \in Proposals : ~Won(q)') /\ Open' /\ NoneLive' /\ brief'.architect = None
    BY <1>1, <1>3, <2>1, ChangesMeetReleases DEF Won, Open, NoneLive, Live
  <2>3. /\ \A q \in MatchRequests : Deciding(q) => step[q].stage = "releasing" /\ q # r
        /\ \A q \in MatchRequests : Deciding(q)' <=> Deciding(q)
    BY <1>1, <1>2, <2>1, ChangesMeetReleases, NoStepIsOne DEF Deciding, AcceptStages, CancelStages
  <2>4. ChangesOpen'
    BY <1>2, <2>1, <2>2, NoStepIsOne DEF Orderly, ChangesOpen, AcceptStages
  <2>5. RefusalsOpen'
    BY <1>2, <2>1, <2>2, NoStepIsOne DEF Orderly, RefusalsOpen, AcceptStages, StepsFilled, Filing
  <2>6. OneDecides'
    BY <2>1, <2>3 DEF Orderly, OneDecides
  <2>7. ASSUME NEW q \in MatchRequests PROVE Phase(q)'
    <3>1. CASE ~Deciding(q)
      BY <2>3, <3>1 DEF Deciding, Phase, AcceptStages, CancelStages
    <3>2. CASE Deciding(q)
      <4>1. step'[q] = step[q] /\ step[q].stage = "releasing"
        BY <1>2, <2>3, <3>2
      <4>2. WonByParty(step[q].about)'
        BY <2>2 DEF WonByParty
      <4> QED
        BY <2>2, <4>1, <4>2 DEF Phase
    <3> QED BY <3>1, <3>2
  <2>8. Settled'
    BY <1>3, <2>2 DEF Settled, Settlement, NoneWon, Open
  <2> QED
    BY <2>4, <2>5, <2>6, <2>7, <2>8 DEF Orderly, Phases
<1> QED
  BY <1>4, <1>5, <1>6 DEF MInv

\* A request that starts or leaves off posting, and writes nothing.
LEMMA Aside ==
  ASSUME MInv, NEW r \in MatchRequests, NEW x, OnlyStep(r, x),
         step[r].stage \in {"idle", "posting"}, x.stage \in {"idle", "posting"},
         UNCHANGED <<brief, proposal, signed, muddled>>
  PROVE  MInv'
<1>1. /\ step' \in [MatchRequests -> Step] /\ step'[r] = x
      /\ \A q \in MatchRequests \ {r} : step'[q] = step[q]
  BY StepTaken DEF MInv
<1>2. MatchingTypeOK'
  BY <1>1 DEF MInv, MatchingTypeOK, Step
<1>3. StepsFilled'
  BY <1>1 DEF MInv, StepsFilled, Filing, AcceptStages, CancelStages
<1>4. ASSUME ~muddled' PROVE Orderly'
  <2>1. Orderly /\ MatchingTypeOK /\ StepsFilled
    BY <1>4 DEF MInv
  <2>2. (\A q \in Proposals : Won(q)' <=> Won(q)) /\ (Open' <=> Open)
    BY DEF Won, Open
  <2>3. ChangesOpen'
    BY <1>1, <2>1, <2>2 DEF Orderly, ChangesOpen, AcceptStages
  <2>4. RefusalsOpen'
    BY <1>1, <2>1, <2>2 DEF Orderly, RefusalsOpen, AcceptStages, StepsFilled, Filing
  <2> QED
    BY <2>1, <2>2, <2>3, <2>4, Quietly DEF AcceptStages, CancelStages
<1> QED
  BY <1>2, <1>3, <1>4 DEF MInv

LEMMA Posts ==
  ASSUME MInv, NEW r \in MatchRequests, PostBrief(r)
  PROVE  MInv'
<1> DEFINE x == [stage |-> "posting", about |-> None, by |-> None]
<1>1. /\ OnlyStep(r, x) /\ step[r].stage = "idle" /\ x.stage = "posting"
      /\ UNCHANGED <<brief, proposal, signed, muddled>>
  BY DEF PostBrief, Begins, OnlyStep, Step
<1> QED
  BY <1>1, Aside

\* The brief of a draft is opened; an open or deleted one stays as it is, and any other is
\* muddled.
LEMMA IsPosted ==
  ASSUME MInv, NEW r \in MatchRequests, SavePosted(r)
  PROVE  MInv'
<1>1. /\ OnlyStep(r, NoStep) /\ step[r].stage = "posting" /\ NoStep.stage = "idle"
      /\ UNCHANGED <<proposal, signed>> /\ muddled \in BOOLEAN
      /\ muddled' = (muddled \/ brief.status \notin Editable \cup {"deleted"})
      /\ brief' = IF brief.status = "deleted" THEN brief
                  ELSE [brief EXCEPT !.status = "BRIEF_POSTED"]
  BY NoStepIsOne DEF SavePosted, Stops, OnlyStep, MInv, MatchingTypeOK
<1>2. /\ step' \in [MatchRequests -> Step] /\ step'[r] = NoStep
      /\ \A q \in MatchRequests \ {r} : step'[q] = step[q]
  BY <1>1, StepTaken DEF MInv
<1>3. CASE brief.status \in {"BRIEF_POSTED", "deleted"}
  <2>1. brief' = brief /\ muddled' = muddled
    BY <1>1, <1>3 DEF MInv, MatchingTypeOK, Editable
  <2> QED
    BY <1>1, <2>1, Aside
<1>4. CASE brief.status \notin {"BRIEF_POSTED", "deleted"}
  <2>1. brief' \in Brief /\ brief'.status = "BRIEF_POSTED" /\ brief'.architect = brief.architect
    BY <1>1, <1>4 DEF MInv, MatchingTypeOK, Brief, BriefStatus
  <2>2. MatchingTypeOK'
    BY <1>1, <1>2, <2>1 DEF MInv, MatchingTypeOK, Brief, Step
  <2>3. StepsFilled'
    BY <1>1, <1>2 DEF MInv, StepsFilled, Filing, AcceptStages, CancelStages
  <2>4. ASSUME ~muddled' PROVE Orderly'
    <3>1. Orderly /\ StepsFilled /\ brief.status = "DRAFT"
      BY <1>1, <1>4, <2>4 DEF MInv, Editable
    <3>2. /\ \A q \in Proposals : Won(q)' <=> Won(q)
          /\ Open /\ Open' /\ (NoneWon' <=> NoneWon) /\ (NoneLive' <=> NoneLive)
      BY <1>1, <2>1, <3>1 DEF Won, Open, Editable, NoneWon, NoneLive, Live
    <3>3. \A q \in MatchRequests : Deciding(q)' <=> Deciding(q)
      BY <1>1, <1>2 DEF Deciding, AcceptStages, CancelStages
    <3>4. OneDecides'
      BY <3>1, <3>3 DEF Orderly, OneDecides
    <3>5. ChangesOpen'
      BY <1>1, <1>2, <3>1, <3>2 DEF Orderly, ChangesOpen, AcceptStages
    <3>6. RefusalsOpen'
      BY <1>1, <1>2, <3>1, <3>2 DEF Orderly, RefusalsOpen, StepsFilled, Filing, AcceptStages
    <3>7. ASSUME NEW q \in MatchRequests PROVE Phase(q)'
      <4>1. CASE q = r
        BY <1>1, <1>2, <4>1 DEF Phase
      <4>2. CASE q # r
        <5>0. step'[q] = step[q]
          BY <1>2, <4>2
        <5>1. step[q].stage \in AcceptStages \cup CancelStages => step[q].stage = "releasing"
          BY <3>1
             DEF Orderly, Phases, Phase, Posted, Matched, Engaged, AcceptStages, CancelStages
        <5>2. step[q].stage = "releasing" => WonByParty(step[q].about)'
          BY <1>1, <3>1, <5>0 DEF Orderly, Phases, Phase, WonByParty, Won
        <5>3. step[q].stage = "releasing" => NoneLive' /\ brief'.architect = None
          BY <2>1, <3>1, <3>2 DEF Orderly, Phases, Phase
        <5> QED
          BY <3>2, <5>0, <5>1, <5>2, <5>3 DEF Phase, AcceptStages, CancelStages
      <4> QED
        BY <4>1, <4>2
    <3>8. Settled'
      BY <2>1, <3>1, <3>2, <3>3 DEF Orderly, Settled, Settlement
    <3> QED
      BY <3>4, <3>5, <3>6, <3>7, <3>8 DEF Orderly, Phases
  <2> QED
    BY <2>2, <2>3, <2>4 DEF MInv
<1> QED
  BY <1>3, <1>4

\* Past its concept, a brief has no request deciding about it and none changing it.
LEMMA Quiet ==
  ASSUME Orderly, ~Open, brief.status # "CONCEPT_STAGE"
  PROVE  /\ \A q \in MatchRequests : ~Deciding(q) /\ step[q].stage \notin {"editing", "deleting"}
         /\ NoneLive
<1>1. \A q \in MatchRequests : ~Deciding(q)
  BY DEF Orderly, Phases, Phase, Posted, Matched, Engaged, AcceptStages, CancelStages, Deciding,
     Open, Editable
<1> QED
  BY <1>1 DEF Orderly, ChangesOpen, Settled, Settlement

\* A contract that runs and that nobody is cancelling is the one of the brief's architect.
LEMMA Running ==
  ASSUME Orderly, StepsFilled, NEW c \in Contracts, Live(c),
         \A q \in MatchRequests : ~(step[q].stage = "cancelling" /\ step[q].about = c)
  PROVE  /\ \A q \in MatchRequests : ~Deciding(q) /\ step[q].stage \notin {"editing", "deleting"}
         /\ \E p \in Proposals : Matched(p, c)
<1>1. ~NoneLive
  BY DEF NoneLive
<1>2. \A q \in MatchRequests : step[q].stage # "cancelling"
  <2> SUFFICES ASSUME NEW q \in MatchRequests, step[q].stage = "cancelling" PROVE FALSE
    OBVIOUS
  <2>1. PICK p \in Proposals : Matched(p, step[q].about)
    BY DEF Orderly, Phases, Phase
  <2> QED
    BY <2>1 DEF Matched
<1>3. \A q \in MatchRequests : ~Deciding(q)
  BY <1>1, <1>2 DEF Orderly, Phases, Phase, Posted, AcceptStages, CancelStages, Deciding
<1>4. \A q \in MatchRequests : step[q].stage \notin {"editing", "deleting"}
  BY <1>1, ChangesMeetReleases
<1>5. PICK p \in Proposals, d \in Contracts : Matched(p, d)
  BY <1>1, <1>3 DEF Orderly, Settled, Settlement
<1>6. d = c
  BY <1>5 DEF Matched
<1> QED
  BY <1>3, <1>4, <1>5, <1>6

LEMMA Advances ==
  ASSUME MInv, NEW from \in BriefStatus, NEW to \in BriefStatus, UpdateProjectStatus(from, to)
  PROVE  MInv'
<1>1. /\ brief.status \in {"PERMIT_STAGE", "UNDER_CONSTRUCTION", "COMPLETED"}
      /\ to \in {"UNDER_CONSTRUCTION", "COMPLETED", "ARCHIVED"}
      /\ brief' = [brief EXCEPT !.status = to]
      /\ UNCHANGED <<proposal, signed, step, muddled>>
  BY DEF UpdateProjectStatus
<1>2. brief' \in Brief /\ brief'.status = to /\ brief'.architect = brief.architect
  BY <1>1 DEF MInv, MatchingTypeOK, Brief
<1>3. MatchingTypeOK'
  BY <1>1, <1>2 DEF MInv, MatchingTypeOK, Brief
<1>4. StepsFilled'
  BY <1>1 DEF MInv, StepsFilled
<1>5. ASSUME ~muddled' PROVE Orderly'
  <2>1. Orderly /\ StepsFilled /\ ~Open /\ brief.status # "CONCEPT_STAGE"
    BY <1>1, <1>5 DEF MInv, Open, Editable
  <2>2. /\ \A q \in MatchRequests : ~Deciding(q)' /\ step'[q].stage \notin {"editing", "deleting"}
        /\ NoneLive'
    BY <1>1, <2>1, Quiet DEF Deciding, NoneLive, Live
  <2>3. ChangesOpen' /\ OneDecides'
    BY <2>2 DEF ChangesOpen, OneDecides
  <2>4. RefusalsOpen'
    BY <1>1, <2>1 DEF Orderly, RefusalsOpen, Won
  <2>5. \A q \in MatchRequests : Phase(q)'
    BY <2>2 DEF Phase, Deciding, AcceptStages, CancelStages
  <2>6. Settled'
    BY <1>1, <1>2, <2>2 DEF Settled, Settlement, Open, Editable
  <2> QED
    BY <2>3, <2>4, <2>5, <2>6 DEF Orderly, Phases
<1> QED
  BY <1>3, <1>4, <1>5 DEF MInv

\* What ending a contract does to the contracts.
LEMMA Ends ==
  ASSUME MatchingTypeOK, NEW c \in Contracts, signed[c] # None, EndContract(c)
  PROVE  /\ signed' \in [Contracts -> Signed \cup {None}]
         /\ signed'[c] # None /\ ~signed'[c].live /\ signed'[c].architect = signed[c].architect
         /\ \A d \in Contracts \ {c} : signed'[d] = signed[d]
<1>1. signed[c] \in Signed /\ signed \in [Contracts -> Signed \cup {None}]
  BY DEF MatchingTypeOK, Signed
<1>2. /\ [signed[c] EXCEPT !.live = FALSE] \in Signed
      /\ [signed[c] EXCEPT !.live = FALSE].live = FALSE
      /\ [signed[c] EXCEPT !.live = FALSE].architect = signed[c].architect
  BY <1>1 DEF Signed
<1>3. [signed[c] EXCEPT !.live = FALSE] # None
  BY <1>2, MatchingAssumption DEF Signed
<1> QED
  BY <1>1, <1>2, <1>3 DEF EndContract

LEMMA Completes ==
  ASSUME MInv, NEW c \in Contracts, CompleteDesign(c)
  PROVE  MInv'
<1>1. /\ signed[c] # None /\ Live(c) /\ EndContract(c)
      /\ \A q \in MatchRequests : step[q].about # c
      /\ brief' = [brief EXCEPT !.status = "PERMIT_STAGE"]
      /\ UNCHANGED <<proposal, step, muddled>>
  BY DEF CompleteDesign, Live
<1>2. brief' \in Brief /\ brief'.status = "PERMIT_STAGE"
  BY <1>1 DEF MInv, MatchingTypeOK, Brief, BriefStatus
<1>3. /\ signed' \in [Contracts -> Signed \cup {None}]
      /\ signed'[c] # None /\ ~signed'[c].live
      /\ \A d \in Contracts \ {c} : signed'[d] = signed[d]
  BY <1>1, Ends DEF MInv
<1>4. MatchingTypeOK'
  BY <1>1, <1>2, <1>3 DEF MInv, MatchingTypeOK, Brief, Signed
<1>5. StepsFilled'
  BY <1>1, <1>3 DEF MInv, StepsFilled
<1>6. ASSUME ~muddled' PROVE Orderly'
  <2>1. Orderly /\ StepsFilled
    BY <1>1, <1>6 DEF MInv
  <2>2. /\ \A q \in MatchRequests : ~Deciding(q) /\ step[q].stage \notin {"editing", "deleting"}
        /\ \E p \in Proposals : Matched(p, c)
    BY <1>1, <2>1, Running
  <2>3. \A q \in MatchRequests : ~Deciding(q)' /\ step'[q].stage \notin {"editing", "deleting"}
    BY <1>1, <2>2 DEF Deciding
  <2>4. NoneLive'
    BY <1>3, <2>2 DEF Matched, NoneLive, Live
  <2>5. ChangesOpen' /\ OneDecides'
    BY <2>3 DEF ChangesOpen, OneDecides
  <2>6. RefusalsOpen'
    BY <1>1, <2>1 DEF Orderly, RefusalsOpen, Won
  <2>7. \A q \in MatchRequests : Phase(q)'
    BY <2>3 DEF Phase, Deciding, AcceptStages, CancelStages
  <2>8. Settled'
    BY <1>2, <2>4 DEF Settled, Settlement, Open, Editable
  <2> QED
    BY <2>5, <2>6, <2>7, <2>8 DEF Orderly, Phases
<1> QED
  BY <1>4, <1>5, <1>6 DEF MInv

LEMMA Accepts ==
  ASSUME MInv, NEW r \in MatchRequests, NEW p \in Proposals, AcceptProposal(r, p)
  PROVE  MInv'
<1> DEFINE x == [stage |-> "winning", about |-> p, by |-> None]
<1>1. /\ OnlyStep(r, x) /\ step[r].stage = "idle" /\ UNCHANGED <<brief, proposal, signed>>
      /\ Pending(p) /\ brief.status = "BRIEF_POSTED"
      /\ muddled' \in BOOLEAN /\ (muddled => muddled')
      /\ ~muddled' => \A q \in MatchRequests \ {r} :
           /\ step[q].stage \notin AcceptStages \cup CancelStages \cup {"editing", "deleting"}
           /\ step[q].stage \in {"declining", "withdrawing"} => step[q].about # p
  BY DEF AcceptProposal, Begins, OnlyStep, Step, MInv, MatchingTypeOK, During
<1>2. x.stage = "winning" /\ x.about = p
  OBVIOUS
<1> HIDE DEF x
<1>3. /\ step' \in [MatchRequests -> Step] /\ step'[r] = x
      /\ \A q \in MatchRequests \ {r} : step'[q] = step[q]
  BY <1>1, StepTaken DEF MInv
<1>4. MatchingTypeOK'
  BY <1>1, <1>3 DEF MInv, MatchingTypeOK, Step
<1>5. StepsFilled'
  BY <1>1, <1>2, <1>3 DEF MInv, StepsFilled, Filing, AcceptStages, CancelStages
<1>6. ASSUME ~muddled' PROVE Orderly'
  <2>1. Orderly /\ MatchingTypeOK /\ StepsFilled
    BY <1>1, <1>6 DEF MInv
  <2>2. \A q \in MatchRequests : ~Deciding(q)
    BY <1>1, <1>6 DEF Deciding, AcceptStages, CancelStages
  <2>3. NoneWon /\ NoneLive /\ brief.architect = None
    BY <1>1, <2>1, <2>2 DEF Orderly, Settled, Settlement, Open, Editable
  <2>4. (\A q \in Proposals : ~Won(q)') /\ NoneWon' /\ Posted' /\ Pending(p)'
    BY <1>1, <2>3 DEF NoneWon, Won, NoneLive, Live, Posted, Pending
  <2>5. Phase(r)'
    BY <1>2, <1>3, <2>4 DEF Phase
  <2>6. ChangesOpen'
    BY <1>1, <1>2, <1>3, <1>6 DEF ChangesOpen
  <2>7. RefusalsOpen'
    <3> SUFFICES ASSUME NEW q \in MatchRequests, step'[q].stage \in {"declining", "withdrawing"}
                 PROVE (/\ ~Won(step[q].about)
                        /\ \A o \in MatchRequests :
                             step[o].stage \in AcceptStages => step[o].about # step[q].about)'
      BY DEF RefusalsOpen
    <3>1. step'[q] = step[q] /\ q # r /\ step[q].about # p
      BY <1>1, <1>2, <1>3, <1>6
    <3>2. ~Won(step[q].about)'
      BY <1>1, <2>1, <3>1 DEF Orderly, RefusalsOpen, Won
    <3>3. \A o \in MatchRequests : step'[o].stage \in AcceptStages => o = r
      BY <1>3, <2>2 DEF Deciding
    <3> QED
      BY <1>2, <1>3, <3>1, <3>2, <3>3
  <2>8. Deciding(r)'
    BY <1>2, <1>3 DEF Deciding, AcceptStages
  <2> QED
    BY <1>1, <2>1, <2>2, <2>5, <2>6, <2>7, <2>8, Decisively
<1> QED
  BY <1>4, <1>5, <1>6 DEF MInv

\* What a save of proposal p's status does to the proposals.
LEMMA StatusSaved ==
  ASSUME MatchingTypeOK, NEW p \in Proposals, proposal[p] # None,
         NEW status \in ProposalStatus, SetProposal(p, status)
  PROVE  /\ proposal' \in [Proposals -> Filed \cup {None}]
         /\ proposal'[p] # None /\ proposal'[p].status = status
         /\ proposal'[p].architect = proposal[p].architect
         /\ \A q \in Proposals \ {p} : proposal'[q] = proposal[q]
<1>1. proposal[p] \in Filed /\ proposal \in [Proposals -> Filed \cup {None}]
  BY DEF MatchingTypeOK, Filed
<1>2. /\ [proposal[p] EXCEPT !.status = status] \in Filed
      /\ [proposal[p] EXCEPT !.status = status].status = status
      /\ [proposal[p] EXCEPT !.status = status].architect = proposal[p].architect
  BY <1>1 DEF Filed, ProposalStatus
<1>3. [proposal[p] EXCEPT !.status = status] # None
  BY <1>2, MatchingAssumption DEF Filed
<1> QED
  BY <1>1, <1>2, <1>3 DEF SetProposal

\* The request that decides is alone, and its step leaves the others alone.
LEMMA Decider ==
  ASSUME MatchingTypeOK, Orderly, NEW r \in MatchRequests, Deciding(r), NEW x, OnlyStep(r, x)
  PROVE  /\ step' \in [MatchRequests -> Step] /\ step'[r] = x
         /\ \A q \in MatchRequests \ {r} : step'[q] = step[q] /\ ~Deciding(q)
BY StepTaken DEF Orderly, OneDecides

\* A decider's step leaves the refusals harmless, when it gains no proposal that one of
\* them is about.
LEMMA RefusalsStayOpen ==
  ASSUME MatchingTypeOK, Orderly, StepsFilled, NEW r \in MatchRequests, Deciding(r),
         NEW x, OnlyStep(r, x), x.stage \notin {"declining", "withdrawing"},
         x.stage \in AcceptStages => x.about = step[r].about /\ step[r].stage \in AcceptStages,
         \A p \in Proposals : Won(p)' => Won(p) \/ (step[r].stage \in AcceptStages /\ p = step[r].about)
  PROVE  RefusalsOpen'
<1> SUFFICES ASSUME NEW q \in MatchRequests, step'[q].stage \in {"declining", "withdrawing"}
             PROVE (/\ ~Won(step[q].about)
                    /\ \A o \in MatchRequests :
                         step[o].stage \in AcceptStages => step[o].about # step[q].about)'
  BY DEF RefusalsOpen
<1>1. /\ step'[r] = x
      /\ \A o \in MatchRequests \ {r} : step'[o] = step[o] /\ ~Deciding(o)
  BY Decider
<1>2. step'[q] = step[q] /\ q # r
  BY <1>1
<1>3. /\ step[q].about \in Proposals /\ ~Won(step[q].about)
      /\ step[r].stage \in AcceptStages => step[r].about # step[q].about
  BY <1>2 DEF Orderly, RefusalsOpen, StepsFilled, Filing
<1>4. \A p \in Proposals : p = step[q].about => ~Won(p)'
  BY <1>3
<1>5. ~Won(step[q].about)'
  BY <1>2, <1>3, <1>4 DEF Won
<1>6. \A o \in MatchRequests : step'[o].stage \in AcceptStages => o = r
  BY <1>1 DEF Deciding
<1> QED
  BY <1>1, <1>2, <1>3, <1>5, <1>6

LEMMA Wins ==
  ASSUME MInv, NEW r \in MatchRequests, SaveWinner(r)
  PROVE  MInv'
<1> DEFINE p == step[r].about
           x == IF proposal[p] = None THEN NoStep ELSE [step[r] EXCEPT !.stage = "engaging"]
<1>1. /\ step[r].stage = "winning" /\ p \in Proposals /\ UNCHANGED <<brief, signed, muddled>>
      /\ step[r] \in Step
  BY DEF SaveWinner, MInv, StepsFilled, Filing, AcceptStages, MatchingTypeOK, Step
<1>2. /\ [step[r] EXCEPT !.stage = "engaging"] \in Step
      /\ [step[r] EXCEPT !.stage = "engaging"].stage = "engaging"
      /\ [step[r] EXCEPT !.stage = "engaging"].about = p
  BY <1>1 DEF Step
<1>3. /\ OnlyStep(r, x) /\ x.stage \in {"idle", "engaging"}
      /\ proposal[p] # None => x.stage = "engaging" /\ x.about = p
  BY <1>1, <1>2, NoStepIsOne DEF SaveWinner, Moves, Stops, OnlyStep
<1>4. IF proposal[p] = None THEN UNCHANGED proposal ELSE SetProposal(p, "ACCEPTED")
  BY DEF SaveWinner
<1> HIDE DEF p, x
<1>5. /\ proposal' \in [Proposals -> Filed \cup {None}]
      /\ \A q \in Proposals \ {p} : proposal'[q] = proposal[q]
      /\ proposal'[p] = None <=> proposal[p] = None
      /\ proposal'[p] # None => proposal'[p].status = "ACCEPTED"
  <2>1. CASE proposal[p] = None
    BY <1>4, <2>1 DEF MInv, MatchingTypeOK, Filed
  <2>2. CASE proposal[p] # None
    BY <1>1, <1>4, <2>2, StatusSaved DEF MInv, ProposalStatus
  <2> QED BY <2>1, <2>2
<1>6. /\ step' \in [MatchRequests -> Step] /\ step'[r] = x
      /\ \A q \in MatchRequests \ {r} : step'[q] = step[q]
  BY <1>3, StepTaken DEF MInv
<1>7. MatchingTypeOK'
  BY <1>1, <1>5, <1>6 DEF MInv, MatchingTypeOK, Step, Filed
<1>8. StepsFilled'
  <2>1. x.stage \in AcceptStages => x.about \in Proposals
    BY <1>1, <1>3 DEF x, AcceptStages, NoStep
  <2>2. \A q \in Proposals : proposal[q] = None => proposal'[q] = None
    BY <1>5
  <2> QED
    BY <1>1, <1>3, <1>6, <2>1, <2>2 DEF MInv, StepsFilled, Filing, AcceptStages, CancelStages
<1>9. ASSUME ~muddled' PROVE Orderly'
  <2>1. Orderly /\ MatchingTypeOK /\ StepsFilled /\ Deciding(r)
    BY <1>1, <1>9 DEF MInv, Deciding, AcceptStages
  <2>2. Posted /\ NoneWon /\ proposal[p] # None
    BY <1>1, <2>1 DEF Orderly, Phases, Phase, Pending, p
  <2>3. x.stage = "engaging" /\ x.about = p
    BY <1>3, <2>2
  <2>4. \A q \in Proposals : Won(q)' <=> q = p
    BY <1>1, <1>5, <2>2 DEF Won, NoneWon
  <2>5. \A q \in MatchRequests \ {r} : step'[q] = step[q] /\ ~Deciding(q)
    BY <1>3, <2>1, Decider
  <2>6. Posted'
    BY <1>1, <2>2 DEF Posted, NoneLive, Live
  <2>7. Phase(r)'
    <3>1. step'[r].about = p /\ step'[r].stage = "engaging"
      BY <1>6, <2>3
    <3>2. Won(step[r].about)' /\ \A q \in Proposals : Won(q)' => q = step'[r].about
      BY <1>1, <2>4, <3>1 DEF Won
    <3> QED
      BY <2>6, <3>1, <3>2 DEF Phase
  <2>8. ChangesOpen'
    BY <1>1, <1>6, <2>1, <2>3 DEF Orderly, ChangesOpen, AcceptStages
  <2>9. RefusalsOpen'
    <3>1. x.stage \notin {"declining", "withdrawing"} /\ step[r].stage \in AcceptStages
          /\ x.about = step[r].about
      BY <1>1, <2>3 DEF AcceptStages, p
    <3>2. \A q \in Proposals : Won(q)' => q = step[r].about
      BY <2>4 DEF p
    <3> QED
      BY <1>3, <2>1, <3>1, <3>2, RefusalsStayOpen
  <2>10. Deciding(r)'
    BY <1>6, <2>3 DEF Deciding, AcceptStages
  <2> QED
    BY <1>3, <2>1, <2>5, <2>7, <2>8, <2>9, <2>10, Decisively
<1> QED
  BY <1>7, <1>8, <1>9 DEF MInv

LEMMA Engages ==
  ASSUME MInv, NEW r \in MatchRequests, EngageArchitect(r)
  PROVE  MInv'
<1> DEFINE p == step[r].about
           gone == brief.status = "deleted" \/ proposal[p] = None
           x == IF gone THEN NoStep ELSE [step[r] EXCEPT !.stage = "informing"]
<1>1. /\ step[r].stage = "engaging" /\ p \in Proposals /\ UNCHANGED <<proposal, signed, muddled>>
      /\ step[r] \in Step
  BY DEF EngageArchitect, MInv, StepsFilled, Filing, AcceptStages, MatchingTypeOK, Step
<1>2. /\ [step[r] EXCEPT !.stage = "informing"] \in Step
      /\ [step[r] EXCEPT !.stage = "informing"].stage = "informing"
      /\ [step[r] EXCEPT !.stage = "informing"].about = p
  BY <1>1 DEF Step
<1>3. /\ OnlyStep(r, x) /\ x.stage \in {"idle", "informing"}
      /\ ~gone => x.stage = "informing" /\ x.about = p
      /\ gone => x = NoStep
  BY <1>1, <1>2, NoStepIsOne DEF EngageArchitect, Moves, Stops, OnlyStep
<1>4. /\ brief' \in Brief
      /\ ~gone => brief'.status = "CONCEPT_STAGE" /\ brief'.architect = proposal[p].architect
  <2>1. CASE gone
    BY <2>1 DEF EngageArchitect, MInv, MatchingTypeOK, Brief
  <2>2. CASE ~gone
    <3>1. proposal[p].architect \in Architects /\ brief \in Brief
      BY <1>1, <2>2 DEF MInv, MatchingTypeOK, Brief
    <3>2. brief' = [brief EXCEPT !.status = "CONCEPT_STAGE", !.architect = proposal[p].architect]
      BY <2>2 DEF EngageArchitect
    <3> HIDE DEF p
    <3> QED
      BY <2>2, <3>1, <3>2 DEF Brief, BriefStatus
  <2> QED BY <2>1, <2>2
<1>5. gone <=> (brief.status = "deleted" \/ proposal[p] = None)
  OBVIOUS
<1> HIDE DEF p, x, gone
<1>6. /\ step' \in [MatchRequests -> Step] /\ step'[r] = x
      /\ \A q \in MatchRequests \ {r} : step'[q] = step[q]
  BY <1>3, StepTaken DEF MInv
<1>7. MatchingTypeOK'
  BY <1>1, <1>4, <1>6 DEF MInv, MatchingTypeOK, Step, Brief
<1>8. StepsFilled'
  <2>1. x.stage = "idle" \/ (x.stage = "informing" /\ x.about \in Proposals)
    BY <1>1, <1>3, NoStepIsOne
  <2> QED
    BY <1>1, <1>6, <2>1 DEF MInv, StepsFilled, Filing, AcceptStages, CancelStages
<1>9. ASSUME ~muddled' PROVE Orderly'
  <2>1. Orderly /\ MatchingTypeOK /\ StepsFilled /\ Deciding(r)
    BY <1>1, <1>9 DEF MInv, Deciding, AcceptStages
  <2>2. Posted /\ Won(p) /\ \A q \in Proposals : Won(q) => q = p
    BY <1>1, <2>1 DEF Orderly, Phases, Phase, p
  <2>3. ~gone /\ x.stage = "informing" /\ x.about = p
    BY <1>3, <1>5, <2>2 DEF Posted, Won
  <2>4. \A q \in Proposals : Won(q)' <=> Won(q)
    BY <1>1 DEF Won
  <2>5. \A q \in MatchRequests \ {r} : step'[q] = step[q] /\ ~Deciding(q)
    BY <1>3, <2>1, Decider
  <2>6. NoneLive'
    BY <1>1, <2>2 DEF Posted, NoneLive, Live
  <2>7. Phase(r)'
    <3>1. step'[r].about = p /\ step'[r].stage = "informing"
      BY <1>6, <2>3
    <3>2. brief'.status = "CONCEPT_STAGE" /\ brief'.architect = proposal[p].architect
      BY <1>4, <2>3
    <3>3. Engaged(step[r].about)'
      BY <1>1, <2>2, <2>4, <3>1, <3>2 DEF Engaged, Won
    <3> QED
      BY <2>6, <3>1, <3>3 DEF Phase
  <2>8. ChangesOpen'
    BY <1>1, <1>6, <2>1, <2>3 DEF Orderly, ChangesOpen, AcceptStages
  <2>9. RefusalsOpen'
    <3>1. x.stage \notin {"declining", "withdrawing"} /\ step[r].stage \in AcceptStages
          /\ x.about = step[r].about
      BY <1>1, <2>3 DEF AcceptStages, p
    <3> QED
      BY <1>3, <2>1, <2>4, <3>1, RefusalsStayOpen
  <2>10. Deciding(r)'
    BY <1>6, <2>3 DEF Deciding, AcceptStages
  <2> QED
    BY <1>3, <2>1, <2>5, <2>7, <2>8, <2>9, <2>10, Decisively
<1> QED
  BY <1>7, <1>8, <1>9 DEF MInv

\* What declining a set of proposals does to them.
LEMMA Declined ==
  ASSUME MatchingTypeOK, NEW S \in SUBSET Proposals, \A q \in S : proposal[q] # None,
         proposal' = [q \in Proposals |-> IF q \in S THEN [proposal[q] EXCEPT !.status = "DECLINED"]
                                         ELSE proposal[q]]
  PROVE  /\ proposal' \in [Proposals -> Filed \cup {None}]
         /\ \A q \in S : proposal'[q] # None /\ proposal'[q].status = "DECLINED"
         /\ \A q \in Proposals \ S : proposal'[q] = proposal[q]
<1>1. ASSUME NEW q \in S
      PROVE  /\ proposal'[q] \in Filed /\ proposal'[q].status = "DECLINED"
             /\ proposal'[q] # None
  <2>1. proposal[q] \in Filed
    BY DEF MatchingTypeOK, Filed
  <2>2. proposal'[q] = [proposal[q] EXCEPT !.status = "DECLINED"]
    OBVIOUS
  <2>3. proposal'[q] \in Filed /\ proposal'[q].status = "DECLINED"
    BY <2>1, <2>2 DEF Filed, ProposalStatus
  <2> QED
    BY <2>3, MatchingAssumption DEF Filed
<1>2. \A q \in Proposals \ S : proposal'[q] = proposal[q] /\ proposal'[q] \in Filed \cup {None}
  BY DEF MatchingTypeOK, Filed
<1> QED
  BY <1>1, <1>2

\* A request that goes on is where it was, a stage further.
LEMMA MovesOn ==
  ASSUME MatchingTypeOK, NEW r \in MatchRequests,
         NEW stage \in {"signing", "reopening", "releasing"}, Moves(r, stage)
  PROVE  /\ OnlyStep(r, [step[r] EXCEPT !.stage = stage])
         /\ [step[r] EXCEPT !.stage = stage].stage = stage
         /\ [step[r] EXCEPT !.stage = stage].about = step[r].about
<1>1. step[r] \in Step
  BY DEF MatchingTypeOK, Step
<1>2. /\ [step[r] EXCEPT !.stage = stage] \in Step
      /\ [step[r] EXCEPT !.stage = stage].stage = stage
      /\ [step[r] EXCEPT !.stage = stage].about = step[r].about
  BY <1>1 DEF Step
<1> QED
  BY <1>2 DEF Moves, OnlyStep

LEMMA Informs ==
  ASSUME MInv, NEW r \in MatchRequests, DeclineLosers(r)
  PROVE  MInv'
<1>0. PICK p \in Proposals : p = step[r].about
  BY DEF DeclineLosers, MInv, StepsFilled, Filing, AcceptStages
<1> DEFINE x == [step[r] EXCEPT !.stage = "signing"]
           S == {q \in Proposals : Pending(q)}
<1>1. step[r].stage = "informing" /\ UNCHANGED <<brief, signed, muddled>>
  BY DEF DeclineLosers
<1>2. OnlyStep(r, x) /\ x.stage = "signing" /\ x.about = p
  BY <1>0, MovesOn DEF DeclineLosers, MInv
<1>3. /\ proposal' \in [Proposals -> Filed \cup {None}]
      /\ \A q \in S : proposal'[q] # None /\ proposal'[q].status = "DECLINED"
      /\ \A q \in Proposals \ S : proposal'[q] = proposal[q]
  <2>1. proposal' = [q \in Proposals |-> IF q \in S THEN [proposal[q] EXCEPT !.status = "DECLINED"]
                                        ELSE proposal[q]]
    BY DEF DeclineLosers
  <2>2. S \in SUBSET Proposals /\ \A q \in S : proposal[q] # None
    BY DEF Pending
  <2> HIDE DEF S
  <2> QED
    BY <2>1, <2>2, Declined DEF MInv
<1>4. \A q \in S : proposal[q] # None /\ proposal[q].status = "PENDING"
  BY DEF Pending
<1>5. S \in SUBSET Proposals
  OBVIOUS
<1> HIDE DEF x, S
<1>6. /\ step' \in [MatchRequests -> Step] /\ step'[r] = x
      /\ \A q \in MatchRequests \ {r} : step'[q] = step[q]
  BY <1>2, StepTaken DEF MInv
<1>7. MatchingTypeOK'
  BY <1>1, <1>3, <1>6 DEF MInv, MatchingTypeOK, Step, Filed
<1>8. StepsFilled'
  <2>1. \A q \in Proposals : proposal[q] = None => proposal'[q] = None
    BY <1>3, <1>4
  <2> QED
    BY <1>1, <1>2, <1>6, <2>1 DEF MInv, StepsFilled, Filing, AcceptStages, CancelStages
<1>9. ASSUME ~muddled' PROVE Orderly'
  <2>1. Orderly /\ MatchingTypeOK /\ StepsFilled /\ Deciding(r)
    BY <1>1, <1>9 DEF MInv, Deciding, AcceptStages
  <2>2. Engaged(p) /\ NoneLive
    BY <1>0, <1>1, <2>1 DEF Orderly, Phases, Phase
  <2>3. /\ \A q \in Proposals : Won(q)' <=> Won(q)
        /\ \A q \in Proposals : Won(q) => proposal'[q] = proposal[q]
    BY <1>3, <1>4 DEF Won
  <2>4. \A q \in MatchRequests \ {r} : step'[q] = step[q] /\ ~Deciding(q)
    BY <1>2, <2>1, Decider
  <2>5. NoneLive'
    BY <1>1, <2>2 DEF NoneLive, Live
  <2>6. Phase(r)'
    <3>1. step'[r].about = p /\ step'[r].stage = "signing"
      BY <1>2, <1>6
    <3>2. Engaged(p)'
      BY <1>1, <2>2, <2>3 DEF Engaged
    <3>3. Engaged(step[r].about)'
      BY <3>1, <3>2 DEF Engaged, Won
    <3> QED
      BY <2>5, <3>1, <3>3 DEF Phase
  <2>7. ChangesOpen'
    BY <1>1, <1>2, <1>6, <2>1 DEF Orderly, ChangesOpen, AcceptStages
  <2>8. RefusalsOpen'
    <3>1. x.stage \notin {"declining", "withdrawing"} /\ step[r].stage \in AcceptStages
          /\ x.about = step[r].about
      BY <1>0, <1>1, <1>2 DEF AcceptStages
    <3> QED
      BY <1>2, <2>1, <2>3, <3>1, RefusalsStayOpen
  <2>9. Deciding(r)'
    BY <1>2, <1>6 DEF Deciding, AcceptStages
  <2> QED
    BY <1>2, <2>1, <2>4, <2>6, <2>7, <2>8, <2>9, Decisively
<1> QED
  BY <1>7, <1>8, <1>9 DEF MInv

LEMMA Signs ==
  ASSUME MInv, NEW r \in MatchRequests, NEW c \in Contracts, SignContract(r, c)
  PROVE  MInv'
<1>0. PICK p \in Proposals : p = step[r].about
  BY DEF SignContract, MInv, StepsFilled, Filing, AcceptStages
<1> DEFINE deed == [architect |-> proposal[p].architect, scope |-> brief.scope, live |-> TRUE]
<1>1. /\ step[r].stage = "signing" /\ UNCHANGED <<brief, proposal, muddled>>
      /\ OnlyStep(r, NoStep) /\ signed[c] = None /\ proposal[p] # None
      /\ signed' = [signed EXCEPT ![c] = deed]
  BY <1>0, NoStepIsOne DEF SignContract, Stops, OnlyStep
<1>2. deed \in Signed /\ deed.live /\ deed.architect = proposal[p].architect /\ deed.scope = brief.scope
  BY <1>1 DEF MInv, MatchingTypeOK, Signed
<1>3. deed # None
  BY <1>2, MatchingAssumption DEF Signed
<1> HIDE DEF deed
<1>4. /\ signed' \in [Contracts -> Signed \cup {None}] /\ signed'[c] = deed
      /\ \A d \in Contracts \ {c} : signed'[d] = signed[d]
  BY <1>1, <1>2 DEF MInv, MatchingTypeOK, Signed
<1>5. /\ step' \in [MatchRequests -> Step] /\ step'[r] = NoStep
      /\ \A q \in MatchRequests \ {r} : step'[q] = step[q]
  BY <1>1, StepTaken DEF MInv
<1>6. MatchingTypeOK'
  BY <1>1, <1>4, <1>5 DEF MInv, MatchingTypeOK, Step, Signed
<1>7. StepsFilled'
  <2>1. \A d \in Contracts : signed[d] # None => signed'[d] # None
    BY <1>3, <1>4
  <2> QED
    BY <1>1, <1>5, <2>1, NoStepIsOne DEF MInv, StepsFilled, Filing, AcceptStages, CancelStages
<1>8. ASSUME ~muddled' PROVE Orderly'
  <2>1. Orderly /\ MatchingTypeOK /\ StepsFilled /\ Deciding(r)
    BY <1>1, <1>8 DEF MInv, Deciding, AcceptStages
  <2>2. Engaged(p) /\ NoneLive
    BY <1>0, <1>1, <2>1 DEF Orderly, Phases, Phase
  <2>3. \A q \in Proposals : Won(q)' <=> Won(q)
    BY <1>1 DEF Won
  <2>4. \A q \in MatchRequests \ {r} : step'[q] = step[q] /\ ~Deciding(q)
    BY <1>1, <2>1, Decider
  <2>5. \A d \in Contracts : Live(d)' <=> d = c
    BY <1>2, <1>3, <1>4, <2>2 DEF NoneLive, Live
  <2>6. Engaged(p)'
    BY <1>1, <2>2, <2>3 DEF Engaged
  <2>7. Matched(p, c)'
    BY <1>1, <1>2, <1>4, <2>2, <2>5, <2>6 DEF Matched, Engaged
  <2>8. Settlement'
    BY <1>1, <2>6, <2>7 DEF Settlement, Engaged, Open, Editable
  <2>9. ChangesOpen'
    BY <1>1, <1>5, <2>1, NoStepIsOne DEF Orderly, ChangesOpen, AcceptStages
  <2>10. RefusalsOpen'
    BY <1>1, <2>1, <2>3, NoStepIsOne, RefusalsStayOpen DEF AcceptStages
  <2>11. ~Deciding(r)'
    BY <1>5, NoStepIsOne DEF Deciding, AcceptStages, CancelStages
  <2> QED
    BY <1>1, <2>1, <2>4, <2>8, <2>9, <2>10, <2>11, Decisively
<1> QED
  BY <1>6, <1>7, <1>8 DEF MInv

LEMMA Cancels ==
  ASSUME MInv, NEW r \in MatchRequests, NEW c \in Contracts, CancelSigned(r, c)
  PROVE  MInv'
<1> DEFINE x == [stage |-> "cancelling", about |-> c, by |-> None]
<1>1. /\ OnlyStep(r, x) /\ step[r].stage = "idle" /\ UNCHANGED <<brief, proposal, signed>>
      /\ signed[c] # None /\ Live(c)
      /\ muddled' \in BOOLEAN /\ (muddled => muddled')
      /\ ~muddled' => \A q \in MatchRequests \ {r} : ~Deciding(q)
  BY DEF CancelSigned, Begins, OnlyStep, Step, MInv, MatchingTypeOK, During, Live, Deciding
<1>2. x.stage = "cancelling" /\ x.about = c
  OBVIOUS
<1> HIDE DEF x
<1>3. /\ step' \in [MatchRequests -> Step] /\ step'[r] = x
      /\ \A q \in MatchRequests \ {r} : step'[q] = step[q]
  BY <1>1, StepTaken DEF MInv
<1>4. MatchingTypeOK'
  BY <1>1, <1>3 DEF MInv, MatchingTypeOK, Step
<1>5. StepsFilled'
  BY <1>1, <1>2, <1>3 DEF MInv, StepsFilled, Filing, AcceptStages, CancelStages
<1>6. ASSUME ~muddled' PROVE Orderly'
  <2>1. Orderly /\ MatchingTypeOK /\ StepsFilled
    BY <1>1, <1>6 DEF MInv
  <2>2. \A q \in MatchRequests : step[q].stage # "cancelling"
    BY <1>1, <1>6 DEF Deciding, CancelStages
  <2>3. /\ \A q \in MatchRequests : ~Deciding(q) /\ step[q].stage \notin {"editing", "deleting"}
        /\ \E p \in Proposals : Matched(p, c)
    BY <1>1, <2>1, <2>2, Running
  <2>4. PICK p \in Proposals : Matched(p, c)
    BY <2>3
  <2>5. Matched(p, c)'
    BY <1>1, <2>4 DEF Matched, Engaged, Won, Live
  <2>6. Phase(r)'
    <3>1. step'[r].stage = "cancelling" /\ step'[r].about = c
      BY <1>2, <1>3
    <3>2. Matched(p, step[r].about)'
      BY <2>5, <3>1 DEF Matched, Live
    <3> QED
      BY <3>1, <3>2 DEF Phase
  <2>7. ChangesOpen'
    BY <1>2, <1>3, <2>3 DEF ChangesOpen
  <2>8. RefusalsOpen'
    BY <1>1, <1>2, <1>3, <2>1 DEF Orderly, RefusalsOpen, Won, AcceptStages, StepsFilled, Filing
  <2>9. Deciding(r)'
    BY <1>2, <1>3 DEF Deciding, CancelStages
  <2> QED
    BY <1>1, <2>1, <2>3, <2>6, <2>7, <2>8, <2>9, Decisively
<1> QED
  BY <1>4, <1>5, <1>6 DEF MInv

LEMMA EndsContract ==
  ASSUME MInv, NEW r \in MatchRequests, SaveCancelledContract(r)
  PROVE  MInv'
<1> DEFINE c == step[r].about
           x == [step[r] EXCEPT !.stage = "reopening"]
<1>1. /\ step[r].stage = "cancelling" /\ c \in Contracts /\ signed[c] # None
      /\ UNCHANGED <<brief, proposal, muddled>> /\ EndContract(c)
  BY DEF SaveCancelledContract, MInv, StepsFilled, CancelStages
<1>2. OnlyStep(r, x) /\ x.stage = "reopening" /\ x.about = c
  BY MovesOn DEF SaveCancelledContract, MInv
<1> HIDE DEF c, x
<1>3. /\ signed' \in [Contracts -> Signed \cup {None}]
      /\ signed'[c] # None /\ ~signed'[c].live /\ signed'[c].architect = signed[c].architect
      /\ \A d \in Contracts \ {c} : signed'[d] = signed[d]
  BY <1>1, Ends DEF MInv
<1>4. /\ step' \in [MatchRequests -> Step] /\ step'[r] = x
      /\ \A q \in MatchRequests \ {r} : step'[q] = step[q]
  BY <1>2, StepTaken DEF MInv
<1>5. MatchingTypeOK'
  BY <1>1, <1>3, <1>4 DEF MInv, MatchingTypeOK, Step, Signed
<1>6. StepsFilled'
  <2>1. \A d \in Contracts : signed[d] # None => signed'[d] # None
    BY <1>3
  <2> QED
    BY <1>1, <1>2, <1>3, <1>4, <2>1 DEF MInv, StepsFilled, Filing, AcceptStages, CancelStages
<1>7. ASSUME ~muddled' PROVE Orderly'
  <2>1. Orderly /\ MatchingTypeOK /\ StepsFilled /\ Deciding(r)
    BY <1>1, <1>7 DEF MInv, Deciding, CancelStages
  <2>2. PICK p \in Proposals : Matched(p, c)
    BY <1>1, <2>1 DEF Orderly, Phases, Phase, c
  <2>3. \A q \in Proposals : Won(q)' <=> Won(q)
    BY <1>1 DEF Won
  <2>4. \A q \in MatchRequests \ {r} : step'[q] = step[q] /\ ~Deciding(q)
    BY <1>2, <2>1, Decider
  <2>5. NoneLive'
    BY <1>3, <2>2 DEF Matched, NoneLive, Live
  <2>6. Phase(r)'
    <3>1. step'[r].stage = "reopening" /\ step'[r].about = c
      BY <1>2, <1>4
    <3>2. \A q \in Proposals : Won(q)' => proposal'[q].architect = signed'[c].architect
      BY <1>1, <1>3, <2>2, <2>3 DEF Matched, Engaged
    <3>3. WonByParty(step[r].about)'
      BY <3>1, <3>2 DEF WonByParty
    <3>4. brief'.status = "CONCEPT_STAGE"
      BY <1>1, <2>2 DEF Matched, Engaged
    <3> QED
      BY <2>5, <3>1, <3>3, <3>4 DEF Phase
  <2>7. ChangesOpen'
    BY <1>1, <1>2, <1>4, <2>1, <2>4 DEF Orderly, ChangesOpen, Deciding, AcceptStages, Open
  <2>8. RefusalsOpen'
    BY <1>1, <1>2, <2>1, <2>3, RefusalsStayOpen DEF AcceptStages
  <2>9. Deciding(r)'
    BY <1>2, <1>4 DEF Deciding, CancelStages
  <2> QED
    BY <1>2, <2>1, <2>4, <2>6, <2>7, <2>8, <2>9, Decisively
<1> QED
  BY <1>5, <1>6, <1>7 DEF MInv

LEMMA Reopens ==
  ASSUME MInv, NEW r \in MatchRequests, OpenBriefAgain(r)
  PROVE  MInv'
<1> DEFINE c == step[r].about
           x == [step[r] EXCEPT !.stage = "releasing"]
<1>1. /\ step[r].stage = "reopening" /\ c \in Contracts /\ signed[c] # None
      /\ UNCHANGED <<proposal, signed, muddled>>
      /\ brief' = [brief EXCEPT !.status = "BRIEF_POSTED", !.architect = None]
  BY DEF OpenBriefAgain, MInv, StepsFilled, CancelStages
<1>2. OnlyStep(r, x) /\ x.stage = "releasing" /\ x.about = c
  BY MovesOn DEF OpenBriefAgain, MInv
<1> HIDE DEF c, x
<1>3. brief' \in Brief /\ brief'.status = "BRIEF_POSTED" /\ brief'.architect = None
  BY <1>1 DEF MInv, MatchingTypeOK, Brief, BriefStatus
<1>4. /\ step' \in [MatchRequests -> Step] /\ step'[r] = x
      /\ \A q \in MatchRequests \ {r} : step'[q] = step[q]
  BY <1>2, StepTaken DEF MInv
<1>5. MatchingTypeOK'
  BY <1>1, <1>3, <1>4 DEF MInv, MatchingTypeOK, Step, Brief
<1>6. StepsFilled'
  BY <1>1, <1>2, <1>4 DEF MInv, StepsFilled, Filing, AcceptStages, CancelStages
<1>7. ASSUME ~muddled' PROVE Orderly'
  <2>1. Orderly /\ MatchingTypeOK /\ StepsFilled /\ Deciding(r)
    BY <1>1, <1>7 DEF MInv, Deciding, CancelStages
  <2>2. NoneLive /\ WonByParty(c)
    BY <1>1, <2>1 DEF Orderly, Phases, Phase, c
  <2>3. \A q \in Proposals : Won(q)' <=> Won(q)
    BY <1>1 DEF Won
  <2>4. \A q \in MatchRequests \ {r} : step'[q] = step[q] /\ ~Deciding(q)
    BY <1>2, <2>1, Decider
  <2>5. NoneLive'
    BY <1>1, <2>2 DEF NoneLive, Live
  <2>6. Phase(r)'
    <3>1. step'[r].stage = "releasing" /\ step'[r].about = c
      BY <1>2, <1>4
    <3>2. WonByParty(step[r].about)'
      BY <1>1, <2>2, <2>3, <3>1 DEF WonByParty
    <3> QED
      BY <1>3, <2>5, <3>1, <3>2 DEF Phase, Open, Editable
  <2>7. ChangesOpen'
    BY <1>2, <1>3, <1>4, <2>1, <2>4 DEF ChangesOpen, Deciding, AcceptStages, Open, Editable
  <2>8. RefusalsOpen'
    BY <1>1, <1>2, <2>1, <2>3, RefusalsStayOpen DEF AcceptStages
  <2>9. Deciding(r)'
    BY <1>2, <1>4 DEF Deciding, CancelStages
  <2> QED
    BY <1>2, <2>1, <2>4, <2>6, <2>7, <2>8, <2>9, Decisively
<1> QED
  BY <1>5, <1>6, <1>7 DEF MInv

LEMMA Releases ==
  ASSUME MInv, NEW r \in MatchRequests, DeclineWinner(r)
  PROVE  MInv'
<1> DEFINE c == step[r].about
           S == {q \in Proposals : Won(q) /\ proposal[q].architect = signed[c].architect}
<1>1. /\ step[r].stage = "releasing" /\ c \in Contracts /\ UNCHANGED <<brief, signed, muddled>>
      /\ OnlyStep(r, NoStep)
  BY NoStepIsOne DEF DeclineWinner, Stops, OnlyStep, MInv, StepsFilled, CancelStages
<1>2. proposal' = [q \in Proposals |-> IF q \in S THEN [proposal[q] EXCEPT !.status = "DECLINED"]
                                      ELSE proposal[q]]
  BY DEF DeclineWinner, Won
<1>3. S \in SUBSET Proposals /\ \A q \in S : proposal[q] # None
  BY DEF Won
<1>4. \A q \in Proposals : q \in S <=> Won(q) /\ proposal[q].architect = signed[c].architect
  OBVIOUS
<1> HIDE DEF c, S
<1>5. /\ proposal' \in [Proposals -> Filed \cup {None}]
      /\ \A q \in S : proposal'[q] # None /\ proposal'[q].status = "DECLINED"
      /\ \A q \in Proposals \ S : proposal'[q] = proposal[q]
  BY <1>2, <1>3, Declined DEF MInv
<1>6. /\ step' \in [MatchRequests -> Step] /\ step'[r] = NoStep
      /\ \A q \in MatchRequests \ {r} : step'[q] = step[q]
  BY <1>1, StepTaken DEF MInv
<1>7. MatchingTypeOK'
  BY <1>1, <1>5, <1>6 DEF MInv, MatchingTypeOK, Step, Filed
<1>8. StepsFilled'
  <2>1. \A q \in Proposals : proposal[q] = None => proposal'[q] = None
    BY <1>3, <1>5
  <2> QED
    BY <1>1, <1>6, <2>1, NoStepIsOne DEF MInv, StepsFilled, Filing, AcceptStages, CancelStages
<1>9. ASSUME ~muddled' PROVE Orderly'
  <2>1. Orderly /\ MatchingTypeOK /\ StepsFilled /\ Deciding(r)
    BY <1>1, <1>9 DEF MInv, Deciding, CancelStages
  <2>2. Open /\ brief.architect = None /\ NoneLive /\ WonByParty(c)
    BY <1>1, <2>1 DEF Orderly, Phases, Phase, c
  <2>3. \A q \in Proposals : ~Won(q)'
    <3> SUFFICES ASSUME NEW q \in Proposals PROVE ~Won(q)'
      OBVIOUS
    <3>1. CASE q \in S
      BY <1>5, <3>1 DEF Won
    <3>2. CASE q \notin S
      BY <1>4, <1>5, <2>2, <3>2 DEF Won, WonByParty
    <3> QED BY <3>1, <3>2
  <2>4. \A q \in MatchRequests \ {r} : step'[q] = step[q] /\ ~Deciding(q)
    BY <1>1, <2>1, Decider
  <2>5. Settlement'
    BY <1>1, <2>2, <2>3 DEF Settlement, NoneWon, NoneLive, Live, Open, Editable
  <2>6. ChangesOpen'
    BY <1>1, <1>6, <2>2, <2>4, NoStepIsOne DEF ChangesOpen, Deciding, AcceptStages, Open
  <2>7. RefusalsOpen'
    BY <1>1, <2>1, <2>3, NoStepIsOne, RefusalsStayOpen DEF AcceptStages
  <2>8. ~Deciding(r)'
    BY <1>6, NoStepIsOne DEF Deciding, AcceptStages, CancelStages
  <2> QED
    BY <1>1, <2>1, <2>4, <2>5, <2>6, <2>7, <2>8, Decisively
<1> QED
  BY <1>7, <1>8, <1>9 DEF MInv

LEMMA Dies ==
  ASSUME MInv, NEW r \in MatchRequests, MatchDies(r)
  PROVE  MInv'
<1>1. /\ OnlyStep(r, NoStep) /\ UNCHANGED <<brief, proposal, signed>>
      /\ muddled' \in BOOLEAN /\ (muddled => muddled')
      /\ ~muddled' => (Deciding(r) => step[r].stage \in {"winning", "cancelling"})
  BY NoStepIsOne DEF MatchDies, Stops, OnlyStep, MInv, MatchingTypeOK, Deciding
<1>2. /\ step' \in [MatchRequests -> Step] /\ step'[r] = NoStep
      /\ \A q \in MatchRequests \ {r} : step'[q] = step[q]
  BY <1>1, StepTaken DEF MInv
<1>3. MatchingTypeOK'
  BY <1>1, <1>2 DEF MInv, MatchingTypeOK, Step
<1>4. StepsFilled'
  BY <1>1, <1>2, NoStepIsOne DEF MInv, StepsFilled, Filing, AcceptStages, CancelStages
<1>5. ASSUME ~muddled' PROVE Orderly'
  <2>1. Orderly /\ MatchingTypeOK /\ StepsFilled
    BY <1>1, <1>5 DEF MInv
  <2>2. (\A q \in Proposals : Won(q)' <=> Won(q)) /\ (Open' <=> Open)
    BY <1>1 DEF Won, Open
  <2>3. ChangesOpen'
    BY <1>2, <2>1, <2>2, NoStepIsOne DEF Orderly, ChangesOpen, AcceptStages
  <2>4. RefusalsOpen'
    BY <1>2, <2>1, <2>2, NoStepIsOne DEF Orderly, RefusalsOpen, AcceptStages, StepsFilled, Filing
  <2>5. CASE ~Deciding(r)
    BY <1>1, <2>1, <2>2, <2>3, <2>4, <2>5, Quietly, NoStepIsOne
       DEF Deciding, AcceptStages, CancelStages
  <2>6. CASE Deciding(r)
    <3>1. \A q \in MatchRequests \ {r} : ~Deciding(q)
      BY <2>1, <2>6 DEF Orderly, OneDecides
    <3>2. CASE step[r].stage = "winning"
      <4>1. Posted /\ NoneWon
        BY <2>1, <3>2 DEF Orderly, Phases, Phase
      <4>2. Settlement'
        BY <1>1, <4>1 DEF Settlement, Posted, NoneWon, NoneLive, Won, Live, Open, Editable
      <4> QED
        BY <1>1, <1>2, <2>1, <2>3, <2>4, <3>1, <4>2, Decisively, NoStepIsOne
           DEF Deciding, AcceptStages, CancelStages
    <3>3. CASE step[r].stage = "cancelling"
      <4>1. step[r].about \in Contracts
        BY <2>1, <3>3 DEF StepsFilled, CancelStages
      <4>2. PICK p \in Proposals : Matched(p, step[r].about)
        BY <2>1, <3>3 DEF Orderly, Phases, Phase
      <4>3. PICK c \in Contracts : Matched(p, c)
        BY <4>1, <4>2
      <4>4. Matched(p, c)'
        BY <1>1, <4>3 DEF Matched, Engaged, Won, Live
      <4>5. Settlement'
        BY <4>4 DEF Settlement, Matched, Engaged, Open, Editable
      <4> QED
        BY <1>1, <1>2, <2>1, <2>3, <2>4, <3>1, <4>5, Decisively, NoStepIsOne
           DEF Deciding, AcceptStages, CancelStages
    <3> QED
      BY <1>1, <1>5, <2>6, <3>2, <3>3
  <2> QED BY <2>5, <2>6
<1> QED
  BY <1>3, <1>4, <1>5 DEF MInv

LEMMA MatchingSteps == MInv /\ [MatchingNext]_matchingVars => MInv'
<1> SUFFICES ASSUME MInv, [MatchingNext]_matchingVars PROVE MInv'
  OBVIOUS
<1>1. CASE UNCHANGED matchingVars
  BY <1>1 DEF matchingVars, MInv, MatchingTypeOK, StepsFilled, Orderly, OneDecides, ChangesOpen,
     RefusalsOpen, Phases, Phase, Settled, Settlement, Matched, Engaged, Posted, WonByParty, NoneWon,
     NoneLive, Won, Live, Open, Deciding, Pending
<1>2. CASE MatchingNext
  <2>1. ASSUME NEW r \in MatchRequests, NEW p \in Proposals,
               DeclineProposal(r, p) \/ WithdrawProposal(r, p)
        PROVE  MInv'
    BY <2>1, Refuses DEF DeclineProposal, WithdrawProposal
  <2>2. ASSUME NEW r \in MatchRequests, UpdateProject(r) \/ DeleteProject(r) PROVE MInv'
    BY <2>2, Changes DEF UpdateProject, DeleteProject
  <2> QED
    BY <1>2, <2>1, <2>2, Creates, Inserts, RefusesForGood, Edits, Removes, Posts, IsPosted, Advances,
       Completes, Accepts, Wins, Engages, Informs, Signs, Cancels, EndsContract, Reopens, Releases,
       Dies
       DEF MatchingNext
<1> QED
  BY <1>1, <1>2

\* The brief, the proposals, the contracts and the requests keep their types.
THEOREM MatchingTyped == MatchingSpec => []MatchingTypeOK
<1>1. MInv => MatchingTypeOK
  BY DEF MInv
<1> QED
  BY MatchingBegins, MatchingSteps, <1>1, PTL DEF MatchingSpec

\* Between the decisions, a brief is open with no architect, no accepted proposal and no
\* contract, or engaged with one of each that agree, unless decisions crossed or a second
\* posting landed on an engaged brief (projects.controller.ts postBrief,
\* proposals.controller.ts acceptProposal, contracts.controller.ts cancelContract).
THEOREM BriefIsMatched == MatchingSpec => []BriefMatchesContract
<1>1. MInv => BriefMatchesContract
  <2> SUFFICES ASSUME MInv, Undecided, ~muddled
               PROVE  BriefMatchesContract
    BY DEF BriefMatchesContract
  <2>1. Settlement
    BY DEF MInv, Orderly, Settled, Undecided, Deciding
  <2>2. CASE brief.status \in Editable \cup {"deleted"}
    BY <2>1, <2>2 DEF BriefMatchesContract, Settlement, Open, Editable, NoneWon, NoneLive, Won, Live
  <2>3. CASE brief.status = "CONCEPT_STAGE"
    <3>1. PICK p \in Proposals, c \in Contracts : Matched(p, c)
      BY <2>1, <2>3 DEF Settlement
    <3>2. {q \in Proposals : proposal[q] # None /\ proposal[q].status = "ACCEPTED"} = {p}
      BY <3>1 DEF Matched, Engaged, Won
    <3>3. {d \in Contracts : signed[d] # None /\ signed[d].live} = {c}
      BY <3>1 DEF Matched, Live
    <3>4. /\ brief.architect = proposal[p].architect
          /\ signed[c].architect = brief.architect /\ signed[c].scope = brief.scope
      BY <3>1 DEF Matched, Engaged
    <3> QED
      BY <2>3, <3>2, <3>3, <3>4 DEF BriefMatchesContract, Editable
  <2> QED
    BY <2>2, <2>3 DEF BriefMatchesContract
<1> QED
  BY MatchingBegins, MatchingSteps, <1>1, PTL DEF MatchingSpec

-----------------------------------------------------------------------------
(* The handover *)

Tab == [stage : {"idle", "saving", "accepting", "completing"}, package : Packages \cup {None},
        certificate : BOOLEAN, building : BuildingStatus]
Package == [package : Packages, certificate : BOOLEAN, accepted : BOOLEAN]

\* An acceptance is alone with the package it read.
AcceptsAlone ==
  \A r \in HandoverTabs : tab[r].stage = "accepting" =>
    /\ package # None /\ package.package = tab[r].package
    /\ package.certificate /\ ~package.accepted
    /\ \A q \in HandoverTabs \ {r} : tab[q].stage \notin {"saving", "accepting"}

\* An edit is of a package that is not accepted.
EditsUnaccepted ==
  \A r \in HandoverTabs : tab[r].stage = "saving" /\ package # None => ~package.accepted

\* What a request is going to write is there.
TabsFilled ==
  \A r \in HandoverTabs :
    /\ tab[r].stage = "saving" => tab[r].package \in Packages
    /\ tab[r].stage = "accepting" => package # None /\ tab[r].package \in Packages

HInv ==
  /\ HandoverTypeOK
  /\ TabsFilled
  /\ package = None => receipt = None
  /\ ~jostled => AcceptsAlone /\ EditsUnaccepted
  /\ AcceptedIsKept

LEMMA HandoverBegins == HandoverInit => HInv
<1> SUFFICES ASSUME HandoverInit PROVE HInv
  OBVIOUS
<1>1. NoTab \in Tab /\ NoTab.stage = "idle"
  BY DEF NoTab, Tab, BuildingStatus
<1>2. tab \in [HandoverTabs -> Tab]
  BY <1>1 DEF HandoverInit
<1>3. HandoverTypeOK
  BY <1>2 DEF HandoverInit, HandoverTypeOK, Tab, BuildingStatus
<1> QED
  BY <1>1, <1>3 DEF HandoverInit, HInv, TabsFilled, AcceptsAlone, EditsUnaccepted, AcceptedIsKept

LEMMA HandoverSteps == ASSUME HInv, [HandoverNext]_handoverVars PROVE HInv'
<1>0. NoTab \in Tab /\ NoTab.stage = "idle"
  BY DEF NoTab, Tab, BuildingStatus
<1>1. ASSUME NEW r \in HandoverTabs, NEW p \in Packages, NEW c \in BOOLEAN, SaveHandover(r, p, c)
      PROVE HInv'
  <2> DEFINE next == [NoTab EXCEPT !.stage = "saving", !.package = p, !.certificate = c]
  <2>1. next \in Tab /\ next.stage = "saving" /\ next.package = p
    BY DEF NoTab, Tab, BuildingStatus
  <2> HIDE DEF next
  <2>2. /\ tab[r].stage = "idle" /\ tab' = [tab EXCEPT ![r] = next]
        /\ package # None => ~package.accepted
        /\ jostled' = (jostled \/ AnyTab({"accepting"}))
        /\ UNCHANGED <<building, package, receipt>>
    BY <1>1 DEF SaveHandover, TabOpens, next
  <2>3. tab \in [HandoverTabs -> Tab] /\ tab' \in [HandoverTabs -> Tab]
    BY <2>1, <2>2 DEF HInv, HandoverTypeOK, Tab
  <2>4. HandoverTypeOK'
    BY <2>2, <2>3 DEF HInv, HandoverTypeOK, Tab
  <2>5. TabsFilled'
    BY <2>1, <2>2, <2>3 DEF HInv, TabsFilled
  <2>6. ASSUME ~jostled' PROVE (AcceptsAlone /\ EditsUnaccepted)'
    BY <2>1, <2>2, <2>3, <2>6 DEF HInv, AnyTab, AcceptsAlone, EditsUnaccepted
  <2> QED
    BY <2>2, <2>4, <2>5, <2>6 DEF HInv, AcceptedIsKept
<1>2. ASSUME NEW r \in HandoverTabs, UpsertPackage(r) PROVE HInv'
  <2>1. /\ tab[r].stage = "saving" /\ tab[r].package \in Packages
        /\ tab[r].certificate \in BOOLEAN
        /\ tab' = [tab EXCEPT ![r] = NoTab] /\ UNCHANGED <<building, receipt, jostled>>
    BY <1>2 DEF UpsertPackage, TabCloses, HInv, HandoverTypeOK, TabsFilled
  <2> DEFINE was == package # None /\ package.accepted
             has == tab[r].certificate \/ (package # None /\ package.certificate)
  <2>2. package' = [package |-> tab[r].package, certificate |-> has, accepted |-> was]
    BY <1>2 DEF UpsertPackage
  <2>3. /\ was \in BOOLEAN /\ (package = None => ~was)
        /\ package # None => was = package.accepted
    BY DEF HInv, HandoverTypeOK
  <2>a. has \in BOOLEAN
    OBVIOUS
  <2> HIDE DEF was, has
  <2>4. package' \in Package /\ package' # None
    BY <2>1, <2>2, <2>3, <2>a, HandoverAssumption DEF Package
  <2>5. tab \in [HandoverTabs -> Tab] /\ tab' \in [HandoverTabs -> Tab]
    BY <1>0, <2>1 DEF HInv, HandoverTypeOK, Tab
  <2>6. HandoverTypeOK'
    BY <2>1, <2>4, <2>5 DEF HInv, HandoverTypeOK, Tab, Package
  <2>7. TabsFilled'
    BY <1>0, <2>1, <2>4, <2>5 DEF HInv, TabsFilled
  <2>8. ASSUME ~jostled' PROVE (AcceptsAlone /\ EditsUnaccepted)' /\ ~was
    <3>1. ~jostled /\ AcceptsAlone /\ EditsUnaccepted
      BY <2>1, <2>8 DEF HInv
    <3>2. ~was
      BY <2>1, <2>3, <3>1 DEF EditsUnaccepted
    <3>3. \A q \in HandoverTabs : tab[q].stage # "accepting"
      BY <2>1, <3>1 DEF AcceptsAlone
    <3>4. \A q \in HandoverTabs : tab'[q].stage # "accepting"
      BY <1>0, <2>1, <2>5, <3>3
    <3>5. package'.accepted = FALSE
      BY <2>2, <3>2, <2>3
    <3> QED
      BY <3>2, <3>4, <3>5 DEF AcceptsAlone, EditsUnaccepted
  <2>9. AcceptedIsKept'
    <3> SUFFICES ASSUME ~jostled' PROVE ~package'.accepted /\ receipt' = None
      BY DEF AcceptedIsKept
    <3>1. ~package'.accepted
      BY <2>2, <2>3, <2>8
    <3>2. receipt = None
      <4>1. CASE package = None
        BY <4>1 DEF HInv
      <4>2. CASE package # None
        BY <2>1, <2>3, <2>8, <4>2 DEF HInv, AcceptedIsKept
      <4> QED BY <4>1, <4>2
    <3> QED
      BY <2>1, <3>1, <3>2
  <2> QED
    BY <2>1, <2>4, <2>6, <2>7, <2>8, <2>9 DEF HInv
<1>3. ASSUME NEW r \in HandoverTabs, AcceptHandover(r) PROVE HInv'
  <2> DEFINE next == [NoTab EXCEPT !.stage = "accepting", !.package = package.package,
                                   !.building = building]
  <2>1. /\ package # None /\ package \in Package
        /\ tab[r].stage = "idle" /\ tab' = [tab EXCEPT ![r] = next]
        /\ ~package.accepted /\ package.certificate
        /\ jostled' = (jostled \/ AnyTab({"saving", "accepting", "completing"}))
        /\ UNCHANGED <<building, package, receipt>>
    BY <1>3 DEF AcceptHandover, TabOpens, HInv, HandoverTypeOK, Package
  <2>2. package.package \in Packages
    BY <2>1 DEF Package
  <2>3. next \in Tab /\ next.stage = "accepting" /\ next.package = package.package
    BY <2>2 DEF NoTab, Tab, BuildingStatus, HInv, HandoverTypeOK
  <2> HIDE DEF next
  <2>4. tab \in [HandoverTabs -> Tab] /\ tab' \in [HandoverTabs -> Tab]
    BY <2>1, <2>3 DEF HInv, HandoverTypeOK, Tab
  <2>5. HandoverTypeOK'
    BY <2>1, <2>4 DEF HInv, HandoverTypeOK, Tab
  <2>6. TabsFilled'
    BY <2>1, <2>2, <2>3, <2>4 DEF HInv, TabsFilled
  <2>7. ASSUME ~jostled' PROVE (AcceptsAlone /\ EditsUnaccepted)'
    <3>1. \A q \in HandoverTabs : tab[q].stage \notin {"saving", "accepting"}
      BY <2>1, <2>7 DEF AnyTab
    <3>2. \A q \in HandoverTabs \ {r} : tab'[q].stage \notin {"saving", "accepting"}
      BY <2>1, <2>4, <3>1
    <3>3. tab'[r].stage = "accepting" /\ tab'[r].package = package.package
      BY <2>1, <2>3, <2>4
    <3> QED
      BY <2>1, <3>2, <3>3 DEF AcceptsAlone, EditsUnaccepted
  <2> QED
    BY <2>1, <2>5, <2>6, <2>7 DEF HInv, AcceptedIsKept
<1>4. ASSUME NEW r \in HandoverTabs, SaveReceipt(r) PROVE HInv'
  <2>1. /\ tab[r].stage = "accepting" /\ package # None /\ tab[r].package \in Packages
        /\ package \in Package
        /\ package' = [package EXCEPT !.accepted = TRUE] /\ receipt' = tab[r].package
        /\ UNCHANGED <<building, jostled>>
    BY <1>4 DEF SaveReceipt, HInv, HandoverTypeOK, TabsFilled, Package
  <2>2. package' \in Package /\ package' # None /\ package'.accepted
        /\ package'.package = package.package /\ package'.certificate = package.certificate
    BY <2>1, HandoverAssumption DEF Package
  <2>3. PICK next \in Tab : tab' = [tab EXCEPT ![r] = next]
                            /\ next.stage \in {"idle", "completing"}
    <3>1. CASE tab[r].building = "UNDER_CONSTRUCTION"
      <4>1. tab[r] \in Tab
        BY DEF HInv, HandoverTypeOK, Tab
      <4>2. [tab[r] EXCEPT !.stage = "completing"] \in Tab
            /\ [tab[r] EXCEPT !.stage = "completing"].stage = "completing"
        BY <4>1 DEF Tab
      <4>3. tab' = [tab EXCEPT ![r] = [tab[r] EXCEPT !.stage = "completing"]]
        BY <1>4, <3>1 DEF SaveReceipt
      <4> QED
        BY <4>2, <4>3
    <3>2. CASE tab[r].building # "UNDER_CONSTRUCTION"
      BY <1>0, <1>4, <3>2 DEF SaveReceipt, TabCloses
    <3> QED
      BY <3>1, <3>2
  <2>4. tab \in [HandoverTabs -> Tab] /\ tab' \in [HandoverTabs -> Tab]
    BY <2>3 DEF HInv, HandoverTypeOK, Tab
  <2>5. HandoverTypeOK'
    BY <2>1, <2>2, <2>4 DEF HInv, HandoverTypeOK, Tab, Package
  <2>6. TabsFilled'
    BY <2>2, <2>3, <2>4 DEF HInv, TabsFilled
  <2>7. ASSUME ~jostled'
        PROVE (AcceptsAlone /\ EditsUnaccepted)' /\ package.package = tab[r].package
              /\ package.certificate
    <3>1. ~jostled /\ AcceptsAlone
      BY <2>1, <2>7 DEF HInv
    <3>2. /\ package.package = tab[r].package /\ package.certificate
          /\ \A q \in HandoverTabs \ {r} : tab[q].stage \notin {"saving", "accepting"}
      BY <2>1, <3>1 DEF AcceptsAlone
    <3>3. \A q \in HandoverTabs : tab'[q].stage \notin {"saving", "accepting"}
      BY <2>3, <2>4, <3>2
    <3> QED
      BY <3>2, <3>3 DEF AcceptsAlone, EditsUnaccepted
  <2>8. AcceptedIsKept'
    BY <2>1, <2>2, <2>7 DEF AcceptedIsKept
  <2> QED
    BY <2>2, <2>5, <2>6, <2>7, <2>8 DEF HInv
<1>5. ASSUME NEW r \in HandoverTabs, tab' = [tab EXCEPT ![r] = NoTab],
             UNCHANGED <<package, receipt>>, building' \in BuildingStatus,
             jostled' \in BOOLEAN, jostled => jostled'
      PROVE HInv'
  <2>1. tab \in [HandoverTabs -> Tab] /\ tab' \in [HandoverTabs -> Tab]
    BY <1>0, <1>5 DEF HInv, HandoverTypeOK, Tab
  <2>2. HandoverTypeOK'
    BY <1>5, <2>1 DEF HInv, HandoverTypeOK, Tab
  <2>3. \A q \in HandoverTabs : tab'[q] = tab[q] \/ tab'[q].stage = "idle"
    BY <1>0, <1>5, <2>1
  <2>4. TabsFilled'
    BY <1>5, <2>3 DEF HInv, TabsFilled
  <2>5. ASSUME ~jostled' PROVE (AcceptsAlone /\ EditsUnaccepted)'
    <3>1. AcceptsAlone /\ EditsUnaccepted
      BY <1>5, <2>5 DEF HInv
    <3>2. AcceptsAlone'
      BY <1>5, <2>3, <3>1 DEF AcceptsAlone
    <3>3. EditsUnaccepted'
      BY <1>5, <2>3, <3>1 DEF EditsUnaccepted
    <3> QED
      BY <3>2, <3>3
  <2> QED
    BY <1>5, <2>2, <2>4, <2>5 DEF HInv, AcceptedIsKept
<1>6. ASSUME NEW r \in HandoverTabs, CompleteBuilding(r) PROVE HInv'
  BY <1>5, <1>6 DEF CompleteBuilding, TabCloses, BuildingStatus, HInv, HandoverTypeOK
<1>7. ASSUME NEW r \in HandoverTabs, TabDies(r) PROVE HInv'
  BY <1>5, <1>7 DEF TabDies, TabCloses, HInv, HandoverTypeOK
<1>8. ASSUME UNCHANGED <<package, tab, receipt>>, building' \in BuildingStatus,
             jostled' \in BOOLEAN, jostled => jostled'
      PROVE HInv'
  BY <1>8 DEF HInv, HandoverTypeOK, TabsFilled, AcceptsAlone, EditsUnaccepted, AcceptedIsKept
<1>9. ASSUME OwnerMoves PROVE HInv'
  <2>1. building' \in BuildingStatus
    BY <1>9 DEF OwnerMoves, nextStatus, BuildingStatus
  <2>2. jostled' \in BOOLEAN /\ (jostled => jostled')
    BY <1>9 DEF OwnerMoves, HInv, HandoverTypeOK, AnyTab
  <2> QED
    BY <1>8, <1>9, <2>1, <2>2 DEF OwnerMoves
<1>10. ASSUME LastRelease PROVE HInv'
  BY <1>8, <1>10 DEF LastRelease, BuildingStatus, HInv, HandoverTypeOK
<1>11. ASSUME UNCHANGED handoverVars PROVE HInv'
  BY <1>8, <1>11 DEF handoverVars, HInv, HandoverTypeOK
<1> QED
  BY <1>1, <1>2, <1>3, <1>4, <1>6, <1>7, <1>9, <1>10, <1>11 DEF HandoverNext

\* The package, the requests under way and the project's status keep their types.
THEOREM HandoverTyped == HandoverSpec => []HandoverTypeOK
<1>1. HInv => HandoverTypeOK
  BY DEF HInv
<1> QED
  BY HandoverBegins, HandoverSteps, <1>1, PTL DEF HandoverSpec

\* An accepted package stays what the owner accepted, whatever edits are under way, unless
\* the acceptance itself was crossed (handover.controller.ts saveHandover, acceptHandover).
THEOREM AcceptanceIsFinal == HandoverSpec => []AcceptedIsKept
<1>1. HInv => AcceptedIsKept
  BY DEF HInv
<1> QED
  BY HandoverBegins, HandoverSteps, <1>1, PTL DEF HandoverSpec

-----------------------------------------------------------------------------
(* The calendar *)

BookingStages == {"clashing", "booking"}
AnswerStages == {"countering", "agreeing", "settling", "cancelling"}
Handling == [stage : {"idle"} \cup BookingStages \cup AnswerStages \cup {"moving"},
             about : Meetings \cup {None}, booker : Bookers \cup {None}, host : Hosts \cup {None},
             start : Nat, place : Venues \cup {"OFFICE"}, party : Parties, stale : BOOLEAN]

\* A meeting to book is not there yet, and nobody else is about it; any other is there, and
\* one to move is of the host whose calendar was read.
MeetingsFilled ==
  \A r \in MeetRequests :
    LET h == handling[r] IN
    /\ h.stage \in BookingStages =>
         /\ h.about \in Meetings /\ meeting[h.about] = None
         /\ h.host \in Hosts /\ h.booker \in Bookers
         /\ \A q \in MeetRequests \ {r} : handling[q].about # h.about
    /\ h.stage \in AnswerStages \cup {"moving"} => h.about \in Meetings /\ meeting[h.about] # None
    /\ h.stage = "moving" => h.host = meeting[h.about].host

\* The place of a meeting agrees with the last proposal.
PlaceAgrees(doc) ==
  /\ (doc.status = "PENDING_VENUE") <=> (doc.awaitingFrom # None)
  /\ (doc.status = "PENDING_VENUE") <=> (doc.answered = "PENDING")
  /\ doc.answered = "REJECTED" <=> (doc.office /\ doc.answered # "none")

\* Two times for one host are apart, or the index tells that they are one.
Parted(s, t) == ~Overlap(s, t) \/ s = t

\* What a request is about to take is parted from every meeting of the host but the one it
\* moves, and from what the others are about to take.
TimeParted(r) ==
  /\ \A m \in Meetings \ {handling[r].about} :
       Holds(m) /\ meeting[m].host = handling[r].host => Parted(meeting[m].start, handling[r].start)
  /\ \A q \in MeetRequests \ {r} :
       Wants(q) /\ handling[q].host = handling[r].host => Parted(handling[q].start, handling[r].start)

Apart == \A m, n \in Meetings : m # n /\ Holds(m) /\ Holds(n) /\ meeting[m].host = meeting[n].host =>
           ~Overlap(meeting[m].start, meeting[n].start)

Untangled ==
  /\ Apart
  /\ \A m \in Meetings : Holds(m) => PlaceAgrees(meeting[m])
  /\ \A r \in MeetRequests : Wants(r) => TimeParted(r)

CalendarInv == MeetingsTypeOK /\ MeetingsFilled /\ (~tangled => Untangled)

LEMMA OverlapsEither == ASSUME NEW s \in Nat, NEW t \in Nat PROVE Overlap(s, t) <=> Overlap(t, s)
BY DEF Overlap

LEMMA CalendarBegins == MeetingsInit => CalendarInv
<1> SUFFICES ASSUME MeetingsInit PROVE CalendarInv
  OBVIOUS
<1>1. NoHandling \in Handling /\ NoHandling.stage = "idle"
  BY DEF NoHandling, Handling, Parties
<1>2. MeetingsTypeOK
  <2>1. handling \in [MeetRequests -> Handling]
    BY <1>1 DEF MeetingsInit
  <2>2. now \in 0..LastNow
    BY MeetingsAssumption DEF MeetingsInit
  <2> QED
    BY <2>1, <2>2 DEF MeetingsInit, MeetingsTypeOK, Handling, BookingStages, AnswerStages
<1>3. MeetingsFilled /\ Untangled
  BY <1>1 DEF MeetingsInit, MeetingsFilled, Untangled, Apart, Holds, Wants, BookingStages, AnswerStages
<1> QED
  BY <1>2, <1>3 DEF CalendarInv

\* The handler of request r goes on with h.
OnlyHandling(r, h) == h \in Handling /\ handling' = [handling EXCEPT ![r] = h]

LEMMA HandlingStepped ==
  ASSUME MeetingsTypeOK, NEW r \in MeetRequests, NEW h, OnlyHandling(r, h)
  PROVE  /\ handling' \in [MeetRequests -> Handling] /\ handling'[r] = h
         /\ \A q \in MeetRequests \ {r} : handling'[q] = handling[q]
BY DEF OnlyHandling, MeetingsTypeOK, Handling, BookingStages, AnswerStages

\* What a request is about stays as it is.
SameErrand(q) ==
  /\ handling'[q].stage = handling[q].stage /\ handling'[q].about = handling[q].about
  /\ handling'[q].host = handling[q].host /\ handling'[q].booker = handling[q].booker
  /\ handling'[q].start = handling[q].start

\* Request r ends.
RequestEnds(r) ==
  /\ handling' \in [MeetRequests -> Handling]
  /\ handling'[r].stage = "idle" /\ handling'[r].about = None
  /\ \A q \in MeetRequests \ {r} : SameErrand(q)

LEMMA DoneEnds ==
  ASSUME MeetingsTypeOK, NEW r \in MeetRequests, Done(r)
  PROVE  RequestEnds(r)
<1>1. NoHandling \in Handling /\ NoHandling.stage = "idle" /\ NoHandling.about = None
  BY DEF NoHandling, Handling, Parties
<1>2. OnlyHandling(r, NoHandling)
  BY <1>1 DEF OnlyHandling, Done
<1> QED
  BY <1>1, <1>2, HandlingStepped DEF RequestEnds, SameErrand

\* A request that ends without a save.
LEMMA EndsUnsaved ==
  ASSUME CalendarInv, NEW r \in MeetRequests, RequestEnds(r), tangled' \in BOOLEAN, tangled => tangled',
         UNCHANGED <<hours, meeting, now>>
  PROVE  CalendarInv'
<1> USE DEF CalendarInv
<1>1. MeetingsTypeOK'
  BY DEF MeetingsTypeOK, RequestEnds, Handling, BookingStages, AnswerStages
<1>2. MeetingsFilled'
  <2>1. ASSUME NEW q \in MeetRequests \ {r}, handling[q].stage \in BookingStages, NEW o \in MeetRequests \ {q}
        PROVE  handling'[o].about # handling[q].about
    <3>1. handling[q].about \in Meetings /\ handling[o].about # handling[q].about
      BY <2>1 DEF MeetingsFilled
    <3> QED
      BY <3>1, MeetingsAssumption DEF RequestEnds, SameErrand
  <2> QED
    BY <2>1 DEF MeetingsFilled, RequestEnds, SameErrand, BookingStages, AnswerStages
<1>3. ASSUME ~tangled' PROVE Untangled'
  <2>1. \A q \in MeetRequests : Wants(q)' => q # r /\ Wants(q)
    BY DEF Wants, RequestEnds, SameErrand
  <2>2. ASSUME NEW q \in MeetRequests, Wants(q)' PROVE TimeParted(q)'
    BY <1>3, <2>1, <2>2 DEF Untangled, TimeParted, Holds, RequestEnds, SameErrand
  <2> QED
    BY <1>3, <2>2 DEF Untangled, Apart, Holds
<1> QED
  BY <1>1, <1>2, <1>3

\* The document a request saves over the one it is about.
SavesDoc(r, doc) ==
  LET m == handling[r].about IN
  /\ m \in Meetings /\ doc \in MeetingDoc
  /\ meeting' = [meeting EXCEPT ![m] = doc]
  /\ meeting[m] # None => doc.host = meeting[m].host

LEMMA SavesFilled ==
  ASSUME CalendarInv, NEW r \in MeetRequests, NEW doc, RequestEnds(r), SavesDoc(r, doc),
         handling[r].stage \in {"booking", "moving"} \cup AnswerStages,
         tangled' \in BOOLEAN, UNCHANGED <<hours, now>>
  PROVE  MeetingsTypeOK' /\ MeetingsFilled'
<1> USE DEF CalendarInv
<1> DEFINE m == handling[r].about
<1>1. /\ meeting' \in [Meetings -> MeetingDoc \cup {None}] /\ meeting'[m] = doc
      /\ \A n \in Meetings \ {m} : meeting'[n] = meeting[n]
  BY DEF SavesDoc, MeetingsTypeOK
<1>2. MeetingsTypeOK'
  BY <1>1 DEF MeetingsTypeOK, RequestEnds, Handling, BookingStages, AnswerStages
<1>3. MeetingsFilled'
  <2>0. doc # None /\ doc \in MeetingDoc
    BY MeetingsAssumption DEF SavesDoc
  <2>1. ASSUME NEW q \in MeetRequests \ {r}, handling[q].stage \in BookingStages
        PROVE  /\ handling[q].about \in Meetings \ {m} /\ meeting[handling[q].about] = None
               /\ \A o \in MeetRequests \ {q} : handling'[o].about # handling[q].about
    <3>1. /\ handling[q].about \in Meetings /\ meeting[handling[q].about] = None
          /\ \A o \in MeetRequests \ {q} : handling[o].about # handling[q].about
      BY <2>1 DEF MeetingsFilled
    <3> QED
      BY <3>1, MeetingsAssumption DEF RequestEnds, SameErrand
  <2>2. ASSUME NEW q \in MeetRequests \ {r}, handling[q].stage \in AnswerStages \cup {"moving"}
        PROVE  /\ handling[q].about \in Meetings /\ meeting'[handling[q].about] # None
               /\ handling[q].stage = "moving" => handling[q].host = meeting'[handling[q].about].host
    <3>1. /\ handling[q].about \in Meetings /\ meeting[handling[q].about] # None
          /\ handling[q].stage = "moving" => handling[q].host = meeting[handling[q].about].host
      BY <2>2 DEF MeetingsFilled
    <3> QED
      BY <1>1, <2>0, <3>1 DEF SavesDoc
  <2>3. ASSUME NEW q \in MeetRequests \ {r}, handling[q].stage \in BookingStages
        PROVE  /\ handling'[q].about \in Meetings /\ meeting'[handling'[q].about] = None
               /\ handling'[q].host \in Hosts /\ handling'[q].booker \in Bookers
               /\ \A o \in MeetRequests \ {q} : handling'[o].about # handling'[q].about
    BY <1>1, <2>1, <2>3 DEF MeetingsFilled, RequestEnds, SameErrand
  <2> HIDE DEF m
  <2> QED
    BY <2>2, <2>3 DEF MeetingsFilled, RequestEnds, SameErrand, BookingStages, AnswerStages
<1> QED
  BY <1>2, <1>3

\* An answer, or a cancellation: the time stays, and nothing is called back.
LEMMA EndsAnswered ==
  ASSUME CalendarInv, NEW r \in MeetRequests, NEW doc, RequestEnds(r), SavesDoc(r, doc),
         handling[r].stage \in AnswerStages,
         doc.start = meeting[handling[r].about].start,
         tangled' \in BOOLEAN, tangled => tangled',
         ~tangled' /\ doc.status \in Blocking => Holds(handling[r].about) /\ PlaceAgrees(doc),
         UNCHANGED <<hours, now>>
  PROVE  CalendarInv'
<1> USE DEF CalendarInv
<1> DEFINE m == handling[r].about
<1>1. MeetingsTypeOK' /\ MeetingsFilled'
  BY SavesFilled
<1>2. ASSUME ~tangled' PROVE Untangled'
  <2>1. m \in Meetings /\ meeting[m] # None /\ doc.host = meeting[m].host
    BY DEF MeetingsFilled, SavesDoc
  <2>2. meeting'[m] = doc /\ \A n \in Meetings \ {m} : meeting'[n] = meeting[n]
    BY DEF SavesDoc, MeetingsTypeOK
  <2>3. ASSUME NEW n \in Meetings, Holds(n)'
        PROVE  Holds(n) /\ meeting'[n].host = meeting[n].host /\ meeting'[n].start = meeting[n].start
    <3>1. CASE n = m
      BY <1>2, <2>1, <2>2, <2>3, <3>1 DEF Holds
    <3>2. CASE n # m
      BY <2>2, <2>3, <3>2 DEF Holds
    <3> QED
      BY <3>1, <3>2
  <2>4. Apart'
    BY <1>2, <2>3 DEF Untangled, Apart
  <2>5. ASSUME NEW n \in Meetings, Holds(n)' PROVE PlaceAgrees(meeting'[n])
    <3>1. CASE n = m
      BY <1>2, <2>2, <2>5, <3>1 DEF Holds
    <3>2. CASE n # m
      BY <1>2, <2>2, <2>3, <2>5, <3>2 DEF Untangled
    <3> QED
      BY <3>1, <3>2
  <2>6. ASSUME NEW q \in MeetRequests, Wants(q)' PROVE TimeParted(q)'
    <3>1. \A o \in MeetRequests : Wants(o)' => o # r /\ Wants(o)
      BY DEF Wants, RequestEnds, SameErrand
    <3>2. TimeParted(q) /\ SameErrand(q)
      BY <1>2, <2>6, <3>1 DEF Untangled, RequestEnds
    <3>3. \A n \in Meetings \ {handling'[q].about} :
            Holds(n)' /\ meeting'[n].host = handling'[q].host =>
              Parted(meeting'[n].start, handling'[q].start)
      BY <2>3, <3>2 DEF TimeParted, SameErrand
    <3>4. \A o \in MeetRequests \ {q} :
            Wants(o)' /\ handling'[o].host = handling'[q].host =>
              Parted(handling'[o].start, handling'[q].start)
      BY <3>1, <3>2 DEF TimeParted, RequestEnds, SameErrand
    <3> QED
      BY <3>3, <3>4 DEF TimeParted
  <2> QED
    BY <2>4, <2>5, <2>6 DEF Untangled
<1> QED
  BY <1>1, <1>2

\* A booking, or a move: the index refuses a time that is taken.
LEMMA EndsTaking ==
  ASSUME CalendarInv, NEW r \in MeetRequests, NEW doc, RequestEnds(r), SavesDoc(r, doc),
         handling[r].stage \in {"booking", "moving"},
         doc.start = handling[r].start, doc.host = handling[r].host,
         doc.status \in Blocking =>
           ~Taken(handling[r].about, doc.host, doc.start) /\ (~tangled => PlaceAgrees(doc)),
         UNCHANGED <<hours, now, tangled>>
  PROVE  CalendarInv'
<1> USE DEF CalendarInv
<1>0. PICK m \in Meetings : m = handling[r].about
  BY DEF SavesDoc
<1>1. MeetingsTypeOK' /\ MeetingsFilled'
  BY SavesFilled DEF MeetingsTypeOK
<1>2. ASSUME ~tangled' PROVE Untangled'
  <2>1. m = handling[r].about /\ TimeParted(r) /\ Wants(r)
    BY <1>0, <1>2 DEF Untangled, Wants
  <2>2. meeting'[m] = doc /\ \A n \in Meetings \ {m} : meeting'[n] = meeting[n] /\ (Holds(n)' <=> Holds(n))
    BY <1>0 DEF SavesDoc, MeetingsTypeOK, Holds
  <2>3. ASSUME NEW n \in Meetings \ {m}, Holds(n), Holds(m)', meeting[n].host = doc.host
        PROVE  ~Overlap(meeting[n].start, doc.start) /\ ~Overlap(doc.start, meeting[n].start)
    <3>1. doc.status \in Blocking
      BY <2>2, <2>3 DEF Holds
    <3>2. meeting[n].start # doc.start
      BY <1>0, <2>3, <3>1 DEF Taken
    <3>3. meeting[n].start \in Nat /\ doc.start \in Nat
      BY <2>3 DEF SavesDoc, Holds, MeetingsTypeOK, MeetingDoc
    <3>4. Parted(meeting[n].start, doc.start)
      BY <2>1, <2>3 DEF TimeParted
    <3> QED
      BY <3>2, <3>3, <3>4, OverlapsEither DEF Parted
  <2>4. Apart'
    <3> SUFFICES ASSUME NEW n \in Meetings, NEW o \in Meetings, n # o, Holds(n)', Holds(o)',
                        meeting'[n].host = meeting'[o].host
                 PROVE  ~Overlap(meeting'[n].start, meeting'[o].start)
      BY DEF Apart
    <3>1. CASE n = m
      BY <2>2, <2>3, <3>1
    <3>2. CASE o = m
      BY <2>2, <2>3, <3>2
    <3>3. CASE n # m /\ o # m
      BY <1>2, <2>2, <3>3 DEF Untangled, Apart
    <3> QED
      BY <3>1, <3>2, <3>3
  <2>5. ASSUME NEW n \in Meetings, Holds(n)' PROVE PlaceAgrees(meeting'[n])
    <3>1. CASE n = m
      BY <1>2, <2>2, <2>5, <3>1 DEF Holds
    <3>2. CASE n # m
      BY <1>2, <2>2, <2>5, <3>2 DEF Untangled
    <3> QED
      BY <3>1, <3>2
  <2>6. ASSUME NEW q \in MeetRequests, Wants(q)' PROVE TimeParted(q)'
    <3>1. \A o \in MeetRequests : Wants(o)' => o # r /\ Wants(o)
      BY DEF Wants, RequestEnds, SameErrand
    <3>2. TimeParted(q) /\ SameErrand(q) /\ Wants(q) /\ q # r
      BY <1>2, <2>6, <3>1 DEF Untangled, RequestEnds
    <3>3. ASSUME NEW n \in Meetings \ {handling'[q].about}, Holds(n)',
                 meeting'[n].host = handling'[q].host
          PROVE  Parted(meeting'[n].start, handling'[q].start)
      <4>1. CASE n = m
        BY <2>1, <2>2, <3>2, <3>3, <4>1 DEF TimeParted, SameErrand
      <4>2. CASE n # m
        BY <2>2, <3>2, <3>3, <4>2 DEF TimeParted, SameErrand
      <4> QED
        BY <4>1, <4>2
    <3>4. \A o \in MeetRequests \ {q} :
            Wants(o)' /\ handling'[o].host = handling'[q].host =>
              Parted(handling'[o].start, handling'[q].start)
      BY <3>1, <3>2 DEF TimeParted, RequestEnds, SameErrand
    <3> QED
      BY <3>3, <3>4 DEF TimeParted
  <2> QED
    BY <2>4, <2>5, <2>6 DEF Untangled
<1> QED
  BY <1>1, <1>2

\* A request begins, about a meeting to book or about one that is there.
LEMMA BeginsFilled ==
  ASSUME CalendarInv, NEW r \in MeetRequests, NEW h, handling[r].stage = "idle", OnlyHandling(r, h),
         h.about \in Meetings, h.stage \in {"clashing", "moving"} \cup AnswerStages,
         h.stage = "clashing" =>
           /\ meeting[h.about] = None /\ h.host \in Hosts /\ h.booker \in Bookers
           /\ \A q \in MeetRequests : handling[q].about # h.about,
         h.stage # "clashing" => meeting[h.about] # None,
         h.stage = "moving" => h.host = meeting[h.about].host,
         tangled' \in BOOLEAN, UNCHANGED <<hours, meeting, now>>
  PROVE  MeetingsTypeOK' /\ MeetingsFilled'
<1> USE DEF CalendarInv
<1>1. /\ handling' \in [MeetRequests -> Handling] /\ handling'[r] = h
      /\ \A q \in MeetRequests \ {r} : handling'[q] = handling[q]
  BY HandlingStepped
<1>2. MeetingsTypeOK'
  BY <1>1 DEF MeetingsTypeOK, Handling, BookingStages, AnswerStages
<1>3. MeetingsFilled'
  <2>1. ASSUME NEW q \in MeetRequests \ {r}, handling[q].stage \in BookingStages
        PROVE  /\ meeting[handling[q].about] = None /\ h.about # handling[q].about
               /\ \A o \in MeetRequests \ {q} : handling'[o].about # handling[q].about
    <3>1. /\ meeting[handling[q].about] = None
          /\ \A o \in MeetRequests \ {q} : handling[o].about # handling[q].about
      BY <2>1 DEF MeetingsFilled
    <3>2. h.about # handling[q].about
      BY <3>1
    <3> QED
      BY <1>1, <3>1, <3>2
  <2> QED
    BY <1>1, <2>1 DEF MeetingsFilled, BookingStages, AnswerStages
<1> QED
  BY <1>2, <1>3

\* A booking or a move begins, at a time that is free.
LEMMA BeginsWanting ==
  ASSUME CalendarInv, NEW r \in MeetRequests, NEW h, handling[r].stage = "idle", OnlyHandling(r, h),
         h.stage \in {"clashing", "moving"}, MeetingsFilled', MeetingsTypeOK',
         \A n \in Meetings \ {h.about} :
           Holds(n) /\ meeting[n].host = h.host /\ meeting[n].start >= now =>
             ~Overlap(h.start, meeting[n].start),
         tangled' = (tangled \/ Collides(r, h.host, h.booker, h.start)),
         UNCHANGED <<hours, meeting, now>>
  PROVE  CalendarInv'
<1> USE DEF CalendarInv
<1>1. /\ handling'[r] = h /\ h \in Handling
      /\ \A q \in MeetRequests \ {r} : handling'[q] = handling[q] /\ (Wants(q)' <=> Wants(q))
  BY HandlingStepped DEF OnlyHandling, Wants
<1>2. ASSUME ~tangled' PROVE Untangled'
  <2>1. Untangled /\ ~Collides(r, h.host, h.booker, h.start)
    BY <1>2
  <2>2. h.start \in Nat /\ \A q \in MeetRequests : handling[q].start \in Nat
    BY <1>1 DEF Handling, MeetingsTypeOK
  <2>3. ASSUME NEW n \in Meetings \ {h.about}, Holds(n), meeting[n].host = h.host
        PROVE  Parted(meeting[n].start, h.start)
    <3>1. meeting[n].start \in Nat /\ now \in Nat
      BY <2>3, MeetingsAssumption DEF Holds, MeetingsTypeOK, MeetingDoc
    <3>2. ~Overlap(h.start, meeting[n].start)
      <4>1. CASE meeting[n].start >= now
        BY <2>3, <4>1
      <4>2. CASE meeting[n].start < now
        BY <2>1, <2>3, <4>2 DEF Collides
      <4> QED
        BY <3>1, <4>1, <4>2
    <3> QED
      BY <2>2, <3>1, <3>2, OverlapsEither DEF Parted
  <2>4. ASSUME NEW q \in MeetRequests \ {r}, Wants(q), handling[q].host = h.host
        PROVE  Parted(handling[q].start, h.start) /\ Parted(h.start, handling[q].start)
    BY <2>1, <2>2, <2>4, OverlapsEither DEF Collides, Parted
  <2>5. ASSUME NEW q \in MeetRequests, Wants(q)' PROVE TimeParted(q)'
    <3>1. CASE q = r
      BY <1>1, <2>3, <2>4, <3>1 DEF TimeParted, Holds
    <3>2. CASE q # r
      BY <1>1, <2>1, <2>4, <2>5, <3>2 DEF Untangled, TimeParted, Holds
    <3> QED
      BY <3>1, <3>2
  <2> QED
    BY <2>1, <2>5 DEF Untangled, Apart, Holds
<1> QED
  BY <1>2

LEMMA BookingBegins ==
  ASSUME CalendarInv, NEW r \in MeetRequests, NEW m \in Meetings, NEW k \in Bookers, NEW a \in Hosts,
         NEW t \in 0..LastTime, NEW place \in Venues, BookMeeting(r, m, k, a, t, place)
  PROVE  CalendarInv'
<1> DEFINE h == [NoHandling EXCEPT !.stage = "clashing", !.about = m, !.booker = k, !.host = a,
                                   !.start = t, !.place = place]
<1>1. /\ h.stage = "clashing" /\ h.about = m /\ h.booker = k /\ h.host = a /\ h.start = t
      /\ h \in Handling
  <2>1. t \in Nat
    BY MeetingsAssumption
  <2> QED
    BY <2>1 DEF NoHandling, Handling, BookingStages, Parties
<1>2. /\ handling[r].stage = "idle" /\ OnlyHandling(r, h) /\ meeting[m] = None
      /\ \A q \in MeetRequests : handling[q].about # m
      /\ tangled' = (tangled \/ Collides(r, a, k, t)) /\ UNCHANGED <<hours, meeting, now>>
      /\ \A n \in Meetings : Holds(n) /\ meeting[n].host = a /\ meeting[n].start >= now =>
           ~Overlap(t, meeting[n].start)
  BY <1>1 DEF BookMeeting, Takes, OnlyHandling, FreeSlots
<1>3. (tangled \/ Collides(r, a, k, t)) \in BOOLEAN
  OBVIOUS
<1> HIDE DEF h
<1>4. MeetingsTypeOK' /\ MeetingsFilled'
  BY <1>1, <1>2, <1>3, BeginsFilled
<1> QED
  BY <1>1, <1>2, <1>4, BeginsWanting

LEMMA MoveBegins ==
  ASSUME CalendarInv, NEW r \in MeetRequests, NEW m \in Meetings, NEW t \in 0..LastTime,
         RescheduleMeeting(r, m, t)
  PROVE  CalendarInv'
<1> DEFINE a == meeting[m].host
           k == meeting[m].booker
           h == [NoHandling EXCEPT !.stage = "moving", !.about = m, !.host = a, !.booker = k,
                                   !.start = t]
<1>1. meeting[m] # None /\ a \in Hosts /\ k \in Bookers
  BY DEF RescheduleMeeting, Ahead, CalendarInv, MeetingsTypeOK, MeetingDoc
<1>2. /\ handling[r].stage = "idle" /\ handling' = [handling EXCEPT ![r] = h]
      /\ tangled' = (tangled \/ Collides(r, a, k, t)) /\ UNCHANGED <<hours, meeting, now>>
      /\ \A n \in Meetings \ {m} : Holds(n) /\ meeting[n].host = a /\ meeting[n].start >= now =>
           ~Overlap(t, meeting[n].start)
  BY DEF RescheduleMeeting, Takes, FreeSlots
<1> HIDE DEF a, k
<1>3. /\ h.stage = "moving" /\ h.about = m /\ h.booker = k /\ h.host = a /\ h.start = t
      /\ h \in Handling
  <2>1. t \in Nat
    BY MeetingsAssumption
  <2> QED
    BY <1>1, <2>1 DEF NoHandling, Handling, Parties
<1>4. OnlyHandling(r, h)
  BY <1>2, <1>3 DEF OnlyHandling
<1>5. (tangled \/ Collides(r, a, k, t)) \in BOOLEAN /\ a = meeting[m].host
  BY DEF a
<1> HIDE DEF h
<1>6. MeetingsTypeOK' /\ MeetingsFilled'
  BY <1>1, <1>2, <1>3, <1>4, <1>5, BeginsFilled
<1> QED
  BY <1>2, <1>3, <1>4, <1>6, BeginsWanting

\* An answer or a cancellation begins.
LEMMA BeginsAnswering ==
  ASSUME CalendarInv, NEW r \in MeetRequests, NEW m \in Meetings, NEW stage \in AnswerStages,
         NEW party \in Parties, Loads(r, m, stage, party), meeting[m] # None,
         UNCHANGED <<hours, meeting, now, tangled>>
  PROVE  CalendarInv'
<1> DEFINE h == [NoHandling EXCEPT !.stage = stage, !.about = m, !.party = party]
<1>1. h.stage = stage /\ h.about = m /\ h \in Handling
  BY DEF NoHandling, Handling
<1>2. handling[r].stage = "idle" /\ OnlyHandling(r, h)
  BY <1>1 DEF Loads, Takes, OnlyHandling
<1> HIDE DEF h
<1>3. stage \notin {"clashing", "moving", "booking"}
  BY DEF AnswerStages
<1>4. MeetingsTypeOK' /\ MeetingsFilled'
  BY <1>1, <1>2, <1>3, BeginsFilled DEF CalendarInv, MeetingsTypeOK
<1>5. ASSUME ~tangled PROVE Untangled'
  <2>1. \A q \in MeetRequests \ {r} : handling'[q] = handling[q]
    BY <1>2, HandlingStepped DEF CalendarInv
  <2>2. \A q \in MeetRequests : Wants(q)' => q # r /\ Wants(q)
    BY <1>1, <1>2, <1>3, <2>1, HandlingStepped DEF Wants, CalendarInv
  <2>3. ASSUME NEW q \in MeetRequests, Wants(q)' PROVE TimeParted(q)'
    BY <1>5, <2>1, <2>2, <2>3 DEF CalendarInv, Untangled, TimeParted, Holds
  <2> QED
    BY <1>5, <2>3 DEF CalendarInv, Untangled, Apart, Holds
<1> QED
  BY <1>4, <1>5 DEF CalendarInv

LEMMA ChecksClash ==
  ASSUME CalendarInv, NEW r \in MeetRequests, CheckClash(r)
  PROVE  CalendarInv'
<1> USE DEF CalendarInv
<1>1. handling[r].stage = "clashing" /\ UNCHANGED <<hours, meeting, now, tangled>>
  BY DEF CheckClash
<1>2. CASE Done(r)
  BY <1>1, <1>2, DoneEnds, EndsUnsaved DEF MeetingsTypeOK
<1>3. CASE handling' = [handling EXCEPT ![r] = [handling[r] EXCEPT !.stage = "booking"]]
  <2> DEFINE h == [handling[r] EXCEPT !.stage = "booking"]
  <2>1. handling[r] \in Handling
    BY DEF MeetingsTypeOK, Handling, BookingStages, AnswerStages
  <2>2. /\ h \in Handling /\ h.stage = "booking" /\ h.about = handling[r].about
        /\ h.host = handling[r].host /\ h.booker = handling[r].booker /\ h.start = handling[r].start
    BY <2>1 DEF Handling, BookingStages
  <2>3. OnlyHandling(r, h)
    BY <1>3, <2>2 DEF OnlyHandling
  <2> HIDE DEF h
  <2>4. /\ handling' \in [MeetRequests -> Handling] /\ handling'[r] = h
        /\ \A q \in MeetRequests \ {r} : handling'[q] = handling[q]
    BY <2>3, HandlingStepped
  <2>5. /\ \A q \in MeetRequests :
             /\ handling'[q].about = handling[q].about /\ handling'[q].host = handling[q].host
             /\ handling'[q].booker = handling[q].booker /\ handling'[q].start = handling[q].start
             /\ (Wants(q)' <=> Wants(q))
             /\ handling'[q].stage \in BookingStages <=> handling[q].stage \in BookingStages
             /\ handling'[q].stage \in AnswerStages <=> handling[q].stage \in AnswerStages
             /\ handling'[q].stage = "moving" <=> handling[q].stage = "moving"
    BY <1>1, <2>2, <2>4 DEF Wants, BookingStages, AnswerStages
  <2>6. MeetingsTypeOK'
    BY <1>1, <2>4 DEF MeetingsTypeOK, Handling, BookingStages, AnswerStages
  <2>7. MeetingsFilled'
    BY <1>1, <2>5 DEF MeetingsFilled
  <2>8. ASSUME ~tangled PROVE Untangled'
    BY <1>1, <2>5, <2>8 DEF Untangled, TimeParted, Apart, Holds
  <2> QED
    BY <1>1, <2>6, <2>7, <2>8
<1> QED
  BY <1>2, <1>3 DEF CheckClash, Done

LEMMA BookingInserted ==
  ASSUME CalendarInv, NEW r \in MeetRequests, InsertMeeting(r)
  PROVE  CalendarInv'
<1> USE DEF CalendarInv
<1> DEFINE w == handling[r]
<1>1. w.stage = "booking" /\ RequestEnds(r) /\ UNCHANGED <<hours, now, tangled>>
  BY DoneEnds DEF InsertMeeting
<1>2. CASE UNCHANGED meeting
  BY <1>1, <1>2, EndsUnsaved DEF MeetingsTypeOK
<1>3. CASE /\ ~Taken(w.about, w.host, w.start)
           /\ meeting' = [meeting EXCEPT ![w.about] = Booked(w)]
  <2>1. w.about \in Meetings /\ meeting[w.about] = None /\ w.host \in Hosts /\ w.booker \in Bookers
    BY <1>1 DEF MeetingsFilled, BookingStages
  <2>2. PICK office \in BOOLEAN : office = (w.place = "OFFICE")
    OBVIOUS
  <2>3. w.start \in Nat
    BY DEF MeetingsTypeOK
  <2>4. CASE w.place = "PROPOSE"
    <3>1. Booked(w) = [host |-> w.host, booker |-> w.booker, start |-> w.start,
                       status |-> "PENDING_VENUE", office |-> FALSE,
                       awaitingFrom |-> "ARCHITECT", answered |-> "PENDING"]
      BY <2>4 DEF Booked
    <3>2. Booked(w) \in MeetingDoc /\ PlaceAgrees(Booked(w))
          /\ Booked(w).host = w.host /\ Booked(w).start = w.start
      BY <2>1, <2>3, <3>1, MeetingsAssumption DEF MeetingDoc, Blocking, Parties, PlaceAgrees
    <3> QED
      BY <1>1, <1>3, <2>1, <3>2, EndsTaking DEF SavesDoc
  <2>5. CASE w.place # "PROPOSE"
    <3>1. Booked(w) = [host |-> w.host, booker |-> w.booker, start |-> w.start,
                       status |-> "CONFIRMED", office |-> office,
                       awaitingFrom |-> None, answered |-> "none"]
      BY <2>2, <2>5 DEF Booked
    <3>2. Booked(w) \in MeetingDoc /\ PlaceAgrees(Booked(w))
          /\ Booked(w).host = w.host /\ Booked(w).start = w.start
      BY <2>1, <2>2, <2>3, <3>1 DEF MeetingDoc, Blocking, PlaceAgrees
    <3> QED
      BY <1>1, <1>3, <2>1, <3>2, EndsTaking DEF SavesDoc
  <2> QED
    BY <2>4, <2>5
<1> QED
  BY <1>2, <1>3 DEF InsertMeeting

LEMMA MoveSaved ==
  ASSUME CalendarInv, NEW r \in MeetRequests, SaveMoved(r)
  PROVE  CalendarInv'
<1> USE DEF CalendarInv
<1> DEFINE m == handling[r].about
           doc == [meeting[m] EXCEPT !.start = handling[r].start]
<1>1. handling[r].stage = "moving" /\ RequestEnds(r) /\ UNCHANGED <<hours, now, tangled>>
  BY DoneEnds DEF SaveMoved
<1>2. /\ m \in Meetings /\ meeting[m] \in MeetingDoc /\ meeting[m].host = handling[r].host
      /\ handling[r].start \in Nat
  BY <1>1 DEF MeetingsFilled, MeetingsTypeOK
<1>3. CASE UNCHANGED meeting
  BY <1>1, <1>3, EndsUnsaved DEF MeetingsTypeOK
<1>4. CASE /\ ~(doc.status \in Blocking /\ Taken(m, doc.host, doc.start))
           /\ meeting' = [meeting EXCEPT ![m] = doc]
  <2>1. /\ doc \in MeetingDoc /\ doc.start = handling[r].start /\ doc.host = meeting[m].host
        /\ doc.status = meeting[m].status /\ doc.awaitingFrom = meeting[m].awaitingFrom
        /\ doc.answered = meeting[m].answered /\ doc.office = meeting[m].office
    BY <1>2 DEF MeetingDoc
  <2>2. meeting[m] # None
    BY <1>2, MeetingsAssumption
  <2>3. doc.status \in Blocking /\ ~tangled => PlaceAgrees(doc)
    BY <1>2, <2>1, <2>2 DEF Untangled, Holds, PlaceAgrees
  <2>4. SavesDoc(r, doc)
    BY <1>2, <1>4, <2>1 DEF SavesDoc
  <2>5. doc.host = handling[r].host
    BY <1>2, <2>1
  <2> HIDE DEF doc
  <2> QED
    BY <1>1, <1>4, <2>1, <2>3, <2>4, <2>5, EndsTaking
<1> QED
  BY <1>3, <1>4 DEF SaveMoved, SaveMeeting

\* The answers and the cancellation save their document, or nothing.
LEMMA AnswerSaved ==
  ASSUME CalendarInv, NEW r \in MeetRequests, handling[r].stage \in AnswerStages, RequestEnds(r),
         NEW doc \in MeetingDoc,
         doc.start = meeting[handling[r].about].start, doc.host = meeting[handling[r].about].host,
         UNCHANGED meeting \/ SaveMeeting(handling[r].about, doc),
         tangled' \in BOOLEAN, tangled => tangled',
         ~tangled' /\ doc.status \in Blocking => Holds(handling[r].about) /\ PlaceAgrees(doc),
         UNCHANGED <<hours, now>>
  PROVE  CalendarInv'
<1>1. CASE UNCHANGED meeting
  BY <1>1, EndsUnsaved
<1>2. CASE meeting' = [meeting EXCEPT ![handling[r].about] = doc]
  <2>1. handling[r].about \in Meetings
    BY DEF CalendarInv, MeetingsFilled
  <2> QED
    BY <1>2, <2>1, EndsAnswered DEF SavesDoc
<1> QED
  BY <1>1, <1>2 DEF SaveMeeting

\* What an answer finds: a meeting that still waits for its place, unless it says it tangles.
LEMMA AnswerFinds ==
  ASSUME CalendarInv, NEW r \in MeetRequests, handling[r].stage \in AnswerStages
  PROVE  LET m == handling[r].about IN
         /\ m \in Meetings /\ meeting[m] \in MeetingDoc /\ meeting[m] # None
         /\ (tangled \/ meeting[m].status # "PENDING_VENUE") \in BOOLEAN
         /\ ~tangled /\ meeting[m].status = "PENDING_VENUE" =>
              Holds(m) /\ PlaceAgrees(meeting[m])
<1> USE DEF CalendarInv
<1> DEFINE m == handling[r].about
<1>1. m \in Meetings /\ meeting[m] # None /\ meeting[m] \in MeetingDoc
  BY DEF MeetingsFilled, MeetingsTypeOK
<1>2. ~tangled /\ meeting[m].status = "PENDING_VENUE" => Holds(m) /\ PlaceAgrees(meeting[m])
  BY <1>1 DEF Holds, Blocking, Untangled
<1> QED
  BY <1>1, <1>2

LEMMA VenueCountered ==
  ASSUME CalendarInv, NEW r \in MeetRequests, SaveCounter(r)
  PROVE  CalendarInv'
<1> DEFINE m == handling[r].about
           doc == [meeting[m] EXCEPT !.awaitingFrom = other[handling[r].party], !.answered = "PENDING"]
<1>1. handling[r].stage \in AnswerStages /\ AnswerTangles(m) /\ UNCHANGED <<hours, now>>
  BY DEF SaveCounter, AnswerStages
<1>2. other[handling[r].party] \in Parties
  <2>1. \A party \in Parties : \E q \in Parties : q # party
    BY DEF Parties
  <2>2. other \in [Parties -> Parties]
    BY <2>1 DEF other
  <2> QED
    BY <2>2 DEF CalendarInv, MeetingsTypeOK
<1>3. /\ doc \in MeetingDoc /\ doc.start = meeting[m].start /\ doc.host = meeting[m].host
      /\ doc.status = meeting[m].status /\ doc.office = meeting[m].office
      /\ doc.awaitingFrom = other[handling[r].party] /\ doc.answered = "PENDING"
  BY <1>1, <1>2, AnswerFinds DEF MeetingDoc
<1>4. ~tangled' => Holds(m) /\ PlaceAgrees(doc)
  BY <1>1, <1>2, <1>3, AnswerFinds, MeetingsAssumption DEF AnswerTangles, PlaceAgrees
<1>5. RequestEnds(r)
  <2>1. CASE Done(r)
    BY <2>1, DoneEnds DEF CalendarInv
  <2>2. CASE handling' = [q \in MeetRequests |->
               IF q = r THEN NoHandling
               ELSE IF handling[q].about = m THEN [handling[q] EXCEPT !.stale = TRUE]
               ELSE handling[q]]
    <3>1. NoHandling \in Handling /\ NoHandling.stage = "idle" /\ NoHandling.about = None
      BY DEF NoHandling, Handling, Parties
    <3>2. ASSUME NEW q \in MeetRequests
          PROVE  LET h == [handling[q] EXCEPT !.stale = TRUE] IN
                 /\ h \in Handling /\ handling[q] \in Handling
                 /\ h.stage = handling[q].stage /\ h.about = handling[q].about
                 /\ h.host = handling[q].host /\ h.booker = handling[q].booker
                 /\ h.start = handling[q].start
      BY DEF CalendarInv, MeetingsTypeOK, Handling, BookingStages, AnswerStages
    <3> HIDE DEF m
    <3> QED
      BY <2>2, <3>1, <3>2 DEF RequestEnds, SameErrand
  <2> QED
    BY <2>1, <2>2 DEF SaveCounter
<1>6. UNCHANGED meeting \/ SaveMeeting(m, doc)
  BY DEF SaveCounter
<1> HIDE DEF doc
<1> QED
  BY <1>1, <1>3, <1>4, <1>5, <1>6, AnswerFinds, AnswerSaved DEF AnswerTangles

LEMMA VenueAgreed ==
  ASSUME CalendarInv, NEW r \in MeetRequests, SaveAgreed(r)
  PROVE  CalendarInv'
<1> DEFINE m == handling[r].about
           doc == [meeting[m] EXCEPT !.status = "CONFIRMED", !.awaitingFrom = None,
                                     !.answered = "ACCEPTED"]
<1>1. handling[r].stage \in AnswerStages /\ AnswerTangles(m) /\ UNCHANGED <<hours, now>> /\ RequestEnds(r)
  BY DoneEnds DEF SaveAgreed, AnswerStages, CalendarInv
<1>2. /\ doc \in MeetingDoc /\ doc.start = meeting[m].start /\ doc.host = meeting[m].host
      /\ doc.status = "CONFIRMED" /\ doc.office = meeting[m].office
      /\ doc.awaitingFrom = None /\ doc.answered = "ACCEPTED"
  BY <1>1, AnswerFinds DEF MeetingDoc, Blocking
<1>3. ~tangled' => Holds(m) /\ PlaceAgrees(doc)
  BY <1>1, <1>2, AnswerFinds DEF AnswerTangles, PlaceAgrees
<1>4. UNCHANGED meeting \/ SaveMeeting(m, doc)
  BY DEF SaveAgreed
<1> HIDE DEF doc
<1> QED
  BY <1>1, <1>2, <1>3, <1>4, AnswerFinds, AnswerSaved DEF AnswerTangles

LEMMA OfficeChosen ==
  ASSUME CalendarInv, NEW r \in MeetRequests, SaveOffice(r)
  PROVE  CalendarInv'
<1> DEFINE m == handling[r].about
           doc == [meeting[m] EXCEPT !.status = "CONFIRMED", !.awaitingFrom = None,
                                     !.office = TRUE, !.answered = "REJECTED"]
<1>1. handling[r].stage \in AnswerStages /\ AnswerTangles(m) /\ UNCHANGED <<hours, now>> /\ RequestEnds(r)
  BY DoneEnds DEF SaveOffice, AnswerStages, CalendarInv
<1>2. /\ doc \in MeetingDoc /\ doc.start = meeting[m].start /\ doc.host = meeting[m].host
      /\ doc.status = "CONFIRMED" /\ doc.office = TRUE
      /\ doc.awaitingFrom = None /\ doc.answered = "REJECTED"
  BY <1>1, AnswerFinds DEF MeetingDoc, Blocking
<1>3. ~tangled' => Holds(m) /\ PlaceAgrees(doc)
  BY <1>1, <1>2, AnswerFinds DEF AnswerTangles, PlaceAgrees
<1>4. UNCHANGED meeting \/ SaveMeeting(m, doc)
  BY DEF SaveOffice
<1> HIDE DEF doc
<1> QED
  BY <1>1, <1>2, <1>3, <1>4, AnswerFinds, AnswerSaved DEF AnswerTangles

LEMMA MeetingCalledOff ==
  ASSUME CalendarInv, NEW r \in MeetRequests, SaveCancelled(r)
  PROVE  CalendarInv'
<1> DEFINE m == handling[r].about
           doc == [meeting[m] EXCEPT !.status = "CANCELLED", !.awaitingFrom = None]
<1>1. handling[r].stage \in AnswerStages /\ UNCHANGED <<hours, now, tangled>> /\ RequestEnds(r)
  BY DoneEnds DEF SaveCancelled, AnswerStages, CalendarInv
<1>2. /\ doc \in MeetingDoc /\ doc.start = meeting[m].start /\ doc.host = meeting[m].host
      /\ doc.status = "CANCELLED"
  BY <1>1, AnswerFinds DEF MeetingDoc
<1>3. doc.status \notin Blocking
  BY <1>2 DEF Blocking
<1>4. SaveMeeting(m, doc) /\ tangled \in BOOLEAN
  BY DEF SaveCancelled, CalendarInv, MeetingsTypeOK
<1> HIDE DEF doc
<1> QED
  BY <1>1, <1>2, <1>3, <1>4, AnswerSaved

\* The calendar and the clock change nothing that was promised.
LEMMA CalendarAside ==
  ASSUME CalendarInv, UNCHANGED <<meeting, handling, tangled>>,
         hours' \in [Hosts -> OpenHours \cup {None}], now' \in 0..LastNow
  PROVE  CalendarInv'
<1>1. MeetingsTypeOK' /\ MeetingsFilled'
  BY DEF CalendarInv, MeetingsTypeOK, MeetingsFilled
<1>2. ~tangled => Untangled'
  BY DEF CalendarInv, Untangled, Apart, TimeParted, Wants, Holds
<1> QED
  BY <1>1, <1>2 DEF CalendarInv

LEMMA CalendarSteps == CalendarInv /\ [MeetingsNext]_meetingVars => CalendarInv'
<1> SUFFICES ASSUME CalendarInv, [MeetingsNext]_meetingVars PROVE CalendarInv'
  OBVIOUS
<1>1. ASSUME NEW a \in Hosts, NEW rules \in OpenHours \cup {None}, SaveAvailability(a, rules)
      PROVE  CalendarInv'
  <2>1. hours' \in [Hosts -> OpenHours \cup {None}] /\ now' \in 0..LastNow
    BY <1>1 DEF SaveAvailability, CalendarInv, MeetingsTypeOK
  <2> QED
    BY <1>1, <2>1, CalendarAside DEF SaveAvailability
<1>2. ASSUME NEW r \in MeetRequests,
             CheckClash(r) \/ InsertMeeting(r) \/ SaveCounter(r) \/ SaveAgreed(r) \/ SaveOffice(r)
             \/ SaveCancelled(r) \/ SaveMoved(r)
      PROVE  CalendarInv'
  BY <1>2, ChecksClash, BookingInserted, VenueCountered, VenueAgreed, OfficeChosen, MeetingCalledOff, MoveSaved
<1>3. ASSUME NEW r \in MeetRequests, NEW m \in Meetings, NEW party \in Parties,
             ProposeVenue(r, m, party) \/ AcceptVenue(r, m, party)
      PROVE  CalendarInv'
  BY <1>3, BeginsAnswering DEF ProposeVenue, AcceptVenue, CanAnswer, AnswerStages
<1>4. ASSUME NEW r \in MeetRequests, NEW m \in Meetings, ChooseOffice(r, m) \/ CancelMeeting(r, m)
      PROVE  CalendarInv'
  <2>1. "LAND_OWNER" \in Parties
    BY DEF Parties
  <2> QED
    BY <1>4, <2>1, BeginsAnswering DEF ChooseOffice, CancelMeeting, Ahead, AnswerStages
<1>5. ASSUME PassTime PROVE CalendarInv'
  <2>1. hours' \in [Hosts -> OpenHours \cup {None}] /\ now' \in 0..LastNow
    BY <1>5, MeetingsAssumption DEF PassTime, CalendarInv, MeetingsTypeOK
  <2> QED
    BY <1>5, <2>1, CalendarAside DEF PassTime
<1>6. ASSUME UNCHANGED meetingVars PROVE CalendarInv'
  <2>1. hours' \in [Hosts -> OpenHours \cup {None}] /\ now' \in 0..LastNow
    BY <1>6 DEF meetingVars, CalendarInv, MeetingsTypeOK
  <2> QED
    BY <1>6, <2>1, CalendarAside DEF meetingVars
<1> QED
  BY <1>1, <1>2, <1>3, <1>4, <1>5, <1>6, BookingBegins, MoveBegins DEF MeetingsNext

\* The calendars, the meetings and the requests about them keep their types.
THEOREM MeetingsTyped == MeetingsSpec => []MeetingsTypeOK
<1>1. CalendarInv => MeetingsTypeOK
  BY DEF CalendarInv
<1> QED
  BY CalendarBegins, CalendarSteps, <1>1, PTL DEF MeetingsSpec

\* However many requests book, move, settle and cancel together, an architect is not promised
\* to two meetings at once, and a meeting says of its place what was last agreed, except after
\* the crossings the model names (meetings.controller.ts bookMeeting, rescheduleMeeting).
THEOREM CalendarIsKept == MeetingsSpec => []CalendarHolds
<1>1. CalendarInv => CalendarHolds
  BY DEF CalendarInv, CalendarHolds, Untangled, Apart, PlaceAgrees
<1> QED
  BY CalendarBegins, CalendarSteps, <1>1, PTL DEF MeetingsSpec

-----------------------------------------------------------------------------
(* Calls: the inductive invariant *)

On(h, c) == handler[h].call = c
OnCall == {"dialling", "ringing", "accepting", "asking", "reading", "stamping"}
Final == {"REJECTED", "MISSED", "ENDED", "CANCELLED"}
Rung == [status |-> "RINGING", answered |-> FALSE, ended |-> FALSE]

\* What an event finds, whatever has clashed: a call that is dialled is alone with its event.
EventSound(h) ==
  LET e == handler[h] IN
  /\ e.stage \in OnCall <=> e.call # None
  /\ e.stage \in {"idle", "dialling", "ringing", "accepting"} => ~e.sweeps
  /\ e.stage = "dialling" => row[e.call] = None
  /\ e.stage = "ringing" => row[e.call] = Rung
  /\ e.stage \in OnCall \ {"dialling"} => row[e.call] # None
  /\ e.stage \in {"dialling", "ringing"} =>
       e.call \notin active /\ \A g \in Handlers \ {h} : ~On(g, e.call)
  /\ e.stage \in {"reading", "stamping"} => e.status \in Final

\* How the record, the map and the events on a call agree while it goes on and after: it is
\* in the map until the first event that ends it, which sees to the record.
CallSound(c) ==
  /\ row[c].answered <=> row[c].status \in {"ACCEPTED", "ENDED"}
  /\ row[c].ended <=> row[c].status \in Final
  /\ c \in active =>
       /\ ~row[c].ended /\ ~(Accepting(c) /\ Ending(c))
       /\ \A h \in Handlers : On(h, c) => handler[h].stage \in {"accepting", "asking"}
  /\ c \notin active =>
       /\ ~row[c].ended => \E h \in Handlers : On(h, c) /\ handler[h].stage \in {"reading", "stamping", "ringing"}
       /\ \A h \in Handlers : On(h, c) =>
            /\ handler[h].stage # "accepting"
            /\ handler[h].stage = "stamping" \/ (handler[h].stage = "reading" /\ ~row[c].ended) =>
                 (handler[h].status = "ENDED" <=> row[c].answered)

\* Who is gone has a sweep under way while a call can be signalled on, and dials none.
Swept ==
  /\ \A p \in People \ online : active \subseteq clashed \/ \E h \in Handlers : handler[h].sweeps /\ handler[h].by = p
  /\ \A h \in Handlers : handler[h].stage \in {"dialling", "ringing"} =>
       handler[h].call \in clashed \/ "caller" \in online

CallsInv ==
  /\ CallsTypeOK
  /\ \A h \in Handlers : EventSound(h)
  /\ \A c \in active : row[c] # None
  /\ \A c \in CallIds \ clashed : row[c] # None => CallSound(c)
  /\ Swept

-----------------------------------------------------------------------------
(* Calls: one event, one call *)

Event == [stage : HandlerStages, call : CallIds \cup {None}, by : People \cup {None},
          status : CallStatus \cup {None}, sweeps : BOOLEAN]

LEMMA NoEventIsOne ==
  NoEvent \in Event /\ NoEvent.stage = "idle" /\ NoEvent.call = None /\ ~NoEvent.sweeps
BY DEF NoEvent, Event, HandlerStages

\* Handler h goes on with event e.
Becomes(h, e) == e \in Event /\ handler' = [handler EXCEPT ![h] = e]

LEMMA EventStepped ==
  ASSUME CallsTypeOK, NEW h \in Handlers, NEW e, Becomes(h, e)
  PROVE  /\ handler' \in [Handlers -> Event] /\ handler'[h] = e
         /\ \A g \in Handlers \ {h} : handler'[g] = handler[g]
BY DEF Becomes, CallsTypeOK, Event

EventOf(h, stage, c, by, status) ==
  [stage |-> stage, call |-> c, by |-> by, status |-> status, sweeps |-> handler[h].sweeps]

LEMMA EventHandled ==
  ASSUME CallsTypeOK, NEW h \in Handlers, NEW stage \in HandlerStages, NEW c \in CallIds \cup {None},
         NEW by \in People \cup {None}, NEW status \in CallStatus \cup {None},
         HandleEvent(h, stage, c, by, status)
  PROVE  LET e == EventOf(h, stage, c, by, status) IN
         /\ Becomes(h, e)
         /\ e.stage = stage /\ e.call = c /\ e.by = by /\ e.status = status
         /\ e.sweeps = handler[h].sweeps
<1> DEFINE e == EventOf(h, stage, c, by, status)
<1>1. handler[h].sweeps \in BOOLEAN
  BY DEF CallsTypeOK
<1>2. /\ e \in Event
      /\ e.stage = stage /\ e.call = c /\ e.by = by /\ e.status = status
      /\ e.sweeps = handler[h].sweeps
  BY <1>1 DEF EventOf, Event
<1>3. handler' = [handler EXCEPT ![h] = e]
  BY DEF HandleEvent, EventOf
<1> QED
  BY <1>2, <1>3 DEF Becomes

DoneOf(h) == IF handler[h].sweeps THEN [NoEvent EXCEPT !.stage = "sweeping", !.by = handler[h].by,
                                                       !.sweeps = TRUE]
             ELSE NoEvent

LEMMA EventDoneWith ==
  ASSUME CallsTypeOK, NEW h \in Handlers, EventDone(h)
  PROVE  LET e == DoneOf(h) IN
         /\ Becomes(h, e) /\ e.call = None
         /\ e.stage \in {"idle", "sweeping"} /\ (e.stage = "idle" => ~e.sweeps)
         /\ handler[h].sweeps => e.sweeps /\ e.by = handler[h].by
<1> DEFINE e == DoneOf(h)
<1>1. handler[h].by \in People \cup {None}
  BY DEF CallsTypeOK
<1>2. /\ e \in Event /\ e.call = None
      /\ e.stage \in {"idle", "sweeping"} /\ (e.stage = "idle" => ~e.sweeps)
      /\ handler[h].sweeps => e.sweeps /\ e.by = handler[h].by
  BY <1>1 DEF DoneOf, NoEvent, Event, HandlerStages
<1>3. handler' = [handler EXCEPT ![h] = e]
  BY DEF EventDone, DoneOf
<1> QED
  BY <1>2, <1>3 DEF Becomes

\* A step of handler h that concerns no call but c leaves the others as they are.
LEMMA OtherCalls ==
  ASSUME CallsTypeOK, NEW h \in Handlers, NEW e, Becomes(h, e), NEW c, NEW d \in CallIds \ {c},
         handler[h].call \in {c, None}, e.call \in {c, None},
         row'[d] = row[d], d \in active' <=> d \in active, CallSound(d)
  PROVE  CallSound(d)'
<1>1. \A g \in Handlers : /\ On(g, d)' <=> On(g, d)
                          /\ On(g, d) => handler'[g] = handler[g]
  BY EventStepped, CallsAssumption DEF On
<1>2. /\ Accepting(d)' <=> Accepting(d)
      /\ Ending(d)' <=> Ending(d)
  BY <1>1 DEF Accepting, Ending, On, EventAt
<1> QED
  BY <1>1, <1>2 DEF CallSound

LEMMA OneCall ==
  ASSUME CallsInv, NEW h \in Handlers, NEW e, Becomes(h, e), NEW c \in CallIds \cup {None},
         handler[h].call \in {c, None}, e.call \in {c, None},
         \A g \in Handlers \ {h} : handler[g].stage \in {"dialling", "ringing"} => ~On(g, c),
         row' \in [CallIds -> CallRow \cup {None}],
         \A d \in CallIds \ {c} : row'[d] = row[d],
         c \in CallIds => /\ row[c] # None => row'[c] # None
                          /\ c \in active' => row'[c] # None
                          /\ row'[c] # None /\ c \notin clashed' => CallSound(c)',
         active' \ {c} = active \ {c}, active' \subseteq CallIds,
         c \in active' => c \in active \cup clashed' \/ online = People,
         clashed \subseteq clashed', clashed' \subseteq CallIds,
         EventSound(h)',
         handler[h].sweeps => \/ e.sweeps /\ e.by = handler[h].by
                              \/ handler[h].by \in online \/ active' = {},
         e.stage \in {"dialling", "ringing"} => c \in clashed' \/ "caller" \in online,
         UNCHANGED <<online, outages>>
  PROVE  CallsInv'
<1> USE DEF CallsInv
<1>1. /\ handler' \in [Handlers -> Event] /\ handler'[h] = e
      /\ \A g \in Handlers \ {h} : handler'[g] = handler[g]
  BY EventStepped
<1>2. CallsTypeOK'
  BY <1>1 DEF CallsTypeOK, Event
<1>3. \A d \in CallIds : /\ row[d] # None => row'[d] # None
                         /\ d \in active' => row'[d] # None
  <2> SUFFICES ASSUME NEW d \in CallIds
               PROVE  /\ row[d] # None => row'[d] # None
                      /\ d \in active' => row'[d] # None
    OBVIOUS
  <2>1. CASE d = c
    BY <2>1
  <2>2. CASE d # c
    BY <2>2
  <2> QED
    BY <2>1, <2>2
<1>4. ASSUME NEW g \in Handlers PROVE EventSound(g)'
  <2>1. CASE g = h
    BY <2>1
  <2>2. CASE g # h
    <3>1. EventSound(g) /\ handler'[g] = handler[g] /\ handler[g].call \in CallIds \cup {None}
      BY <1>1, <2>2 DEF CallsTypeOK
    <3>2. ASSUME handler[g].stage \in {"dialling", "ringing"}
          PROVE  /\ handler[g].call \in CallIds \ {c} /\ handler[g].call # None
                 /\ row'[handler[g].call] = row[handler[g].call]
                 /\ handler[g].call \notin active'
                 /\ \A o \in Handlers \ {g} : ~On(o, handler[g].call)'
      <4>1. handler[g].call \in CallIds \ {c} /\ handler[g].call # None
        BY <2>2, <3>1, <3>2 DEF EventSound, OnCall, On
      <4>2. handler[g].call \notin active'
        BY <3>1, <3>2, <4>1 DEF EventSound
      <4>3. \A o \in Handlers \ {g} : ~On(o, handler[g].call)'
        BY <1>1, <3>1, <3>2, <4>1 DEF EventSound, On
      <4> QED
        BY <4>1, <4>2, <4>3
    <3>3. handler[g].stage \in OnCall \ {"dialling"} => row'[handler[g].call] # None
      BY <1>3, <3>1 DEF EventSound, OnCall
    <3>4. handler'[g].stage \in {"dialling", "ringing"} =>
            \A o \in Handlers \ {g} : handler'[o].call # handler'[g].call
      BY <3>1, <3>2 DEF On
    <3> QED
      BY <3>1, <3>2, <3>3, <3>4 DEF EventSound
  <2> QED
    BY <2>1, <2>2
<1>5. ASSUME NEW d \in CallIds \ clashed', row'[d] # None PROVE CallSound(d)'
  <2>1. CASE d = c
    BY <1>5, <2>1
  <2>2. CASE d # c
    BY <1>5, <2>2, OtherCalls
  <2> QED
    BY <2>1, <2>2
<1>6. Swept'
  <2>1. ASSUME NEW p \in People \ online'
        PROVE  active' \subseteq clashed' \/ \E g \in Handlers : handler'[g].sweeps /\ handler'[g].by = p
    <3>1. CASE active \subseteq clashed
      BY <2>1, <3>1
    <3>2. ASSUME NEW g \in Handlers, handler[g].sweeps, handler[g].by = p
          PROVE  active' \subseteq clashed' \/ \E o \in Handlers : handler'[o].sweeps /\ handler'[o].by = p
      <4>1. CASE g = h
        BY <1>1, <2>1, <3>2, <4>1
      <4>2. CASE g # h
        BY <1>1, <3>2, <4>2
      <4> QED
        BY <4>1, <4>2
    <3> QED
      BY <2>1, <3>1, <3>2 DEF Swept
  <2>2. ASSUME NEW g \in Handlers, handler'[g].stage \in {"dialling", "ringing"}
        PROVE  handler'[g].call \in clashed' \/ "caller" \in online'
    <3>1. CASE g = h
      <4>1. e.call = c
        BY <1>1, <2>2, <3>1 DEF EventSound, OnCall
      <4> QED
        BY <1>1, <2>2, <3>1, <4>1
    <3>2. CASE g # h
      BY <1>1, <2>2, <3>2 DEF Swept
    <3> QED
      BY <3>1, <3>2
  <2> QED
    BY <2>1, <2>2 DEF Swept
<1> QED
  BY <1>2, <1>3, <1>4, <1>5, <1>6 DEF CallsTypeOK

-----------------------------------------------------------------------------
(* Calls: every event *)

\* What a handler of an event finds.
LEMMA EventFinds ==
  ASSUME CallsInv, NEW h \in Handlers
  PROVE  /\ handler[h] \in Event
         /\ handler[h].stage \in {"idle", "leaving", "sweeping"} => handler[h].call = None
         /\ handler[h].stage = "idle" => ~handler[h].sweeps
         /\ handler[h].stage \in OnCall =>
              /\ handler[h].call \in CallIds /\ handler[h].call # None
              /\ \A g \in Handlers \ {h} :
                   handler[g].stage \in {"dialling", "ringing"} => ~On(g, handler[h].call)
<1>1. EventSound(h) /\ handler[h] \in Event
  BY DEF CallsInv, CallsTypeOK, Event
<1>2. ASSUME NEW g \in Handlers \ {h}, handler[g].stage \in {"dialling", "ringing"},
             On(g, handler[h].call)
      PROVE  FALSE
  <2>1. EventSound(g) /\ h \in Handlers \ {g} /\ handler[g].call = handler[h].call
    BY <1>2 DEF CallsInv, On
  <2>2. ~On(h, handler[g].call)
    BY <1>2, <2>1 DEF EventSound
  <2> QED
    BY <2>1, <2>2 DEF On
<1> QED
  BY <1>1, <1>2 DEF EventSound, OnCall, Event

LEMMA CallDialled ==
  ASSUME CallsInv, NEW h \in Handlers, NEW c \in CallIds, Dial(h, c)
  PROVE  CallsInv'
<1> DEFINE e == EventOf(h, "dialling", c, "caller", None)
<1>1. /\ handler[h].stage = "idle" /\ "caller" \in online /\ row[c] = None
      /\ \A g \in Handlers : ~On(g, c)
      /\ UNCHANGED <<row, active, online, outages, clashed>>
  BY DEF Dial, EventAt, On
<1>2. /\ Becomes(h, e) /\ e.stage = "dialling" /\ e.call = c /\ e.sweeps = handler[h].sweeps
  BY EventHandled DEF Dial, CallsInv, HandlerStages, People
<1> HIDE DEF e
<1>3. handler[h].call = None /\ ~handler[h].sweeps
  BY <1>1, EventFinds
<1>4. c \notin active
  BY <1>1 DEF CallsInv
<1>5. EventSound(h)'
  BY <1>1, <1>2, <1>3, <1>4, EventStepped, CallsAssumption DEF EventSound, OnCall, On, CallsInv
<1> QED
  BY <1>1, <1>2, <1>3, <1>4, <1>5, OneCall DEF CallsInv, CallsTypeOK

LEMMA CallCreated ==
  ASSUME CallsInv, NEW h \in Handlers, CreateCall(h)
  PROVE  CallsInv'
<1>0. PICK c : c = handler[h].call
  OBVIOUS
<1> DEFINE e == EventOf(h, "ringing", c, "caller", None)
<1>1. /\ handler[h].stage = "dialling" /\ row' = [row EXCEPT ![c] = Rung]
      /\ HandleEvent(h, "ringing", c, "caller", None)
      /\ UNCHANGED <<active, online, outages, clashed>>
  BY <1>0 DEF CreateCall, EventAt, Rung
<1>2. /\ c \in CallIds
      /\ \A g \in Handlers \ {h} : handler[g].stage \in {"dialling", "ringing"} => ~On(g, c)
  BY <1>0, <1>1, EventFinds DEF OnCall
<1>3. /\ Becomes(h, e) /\ e.stage = "ringing" /\ e.call = c /\ e.sweeps = handler[h].sweeps
  BY <1>1, <1>2, EventHandled DEF CallsInv, HandlerStages, People
<1> HIDE DEF e
<1>4. /\ ~handler[h].sweeps /\ c \notin active /\ \A g \in Handlers \ {h} : ~On(g, c)
      /\ c \in clashed \/ "caller" \in online
  BY <1>0, <1>1 DEF CallsInv, EventSound, Swept
<1>5. Rung \in CallRow /\ Rung # None /\ Rung.status = "RINGING" /\ ~Rung.answered /\ ~Rung.ended
  <2>1. Rung \in CallRow
    BY DEF Rung, CallRow, CallStatus
  <2> QED
    BY <2>1, CallsAssumption DEF Rung
<1>6. row' \in [CallIds -> CallRow \cup {None}] /\ row'[c] = Rung
      /\ \A d \in CallIds \ {c} : row'[d] = row[d]
  BY <1>1, <1>2, <1>5 DEF CallsInv, CallsTypeOK
<1>7. /\ handler'[h] = e /\ \A g \in Handlers \ {h} : handler'[g] = handler[g]
  BY <1>3, EventStepped DEF CallsInv
<1>8. EventSound(h)'
  BY <1>1, <1>2, <1>3, <1>4, <1>5, <1>6, <1>7, CallsAssumption DEF EventSound, OnCall, On
<1>9. CallSound(c)'
  BY <1>1, <1>3, <1>4, <1>5, <1>6, <1>7 DEF CallSound, On, Final
<1> QED
  BY <1>0, <1>1, <1>2, <1>3, <1>4, <1>5, <1>6, <1>8, <1>9, OneCall DEF CallsInv, CallsTypeOK

LEMMA CallRings ==
  ASSUME CallsInv, NEW h \in Handlers, Ring(h)
  PROVE  CallsInv'
<1>0. PICK c : c = handler[h].call
  OBVIOUS
<1>1. handler[h].stage = "ringing" /\ UNCHANGED <<row, online, outages, clashed>>
  BY DEF Ring, EventAt
<1>2. /\ c \in CallIds /\ c # None
      /\ \A g \in Handlers \ {h} : handler[g].stage \in {"dialling", "ringing"} => ~On(g, c)
  BY <1>0, <1>1, EventFinds DEF OnCall
<1>3. /\ ~handler[h].sweeps /\ c \notin active /\ \A g \in Handlers \ {h} : ~On(g, c)
      /\ c \in clashed \/ "caller" \in online
      /\ row[c] = Rung /\ row[c] # None
  BY <1>0, <1>1 DEF CallsInv, EventSound, Swept, OnCall
<1>4. Rung.status = "RINGING" /\ Rung.answered = FALSE /\ Rung.ended = FALSE
  BY DEF Rung
<1>5. CASE /\ "callee" \in online /\ active' = active \cup {c}
           /\ handler' = [handler EXCEPT ![h] = NoEvent]
  <2>1. Becomes(h, NoEvent)
    BY <1>5, NoEventIsOne DEF Becomes
  <2>2. /\ handler'[h] = NoEvent /\ \A g \in Handlers \ {h} : handler'[g] = handler[g]
    BY <2>1, EventStepped DEF CallsInv
  <2>3. EventSound(h)'
    BY <2>2, NoEventIsOne DEF EventSound, OnCall
  <2>4. \A g \in Handlers : ~On(g, c)'
    BY <1>2, <1>3, <2>2, NoEventIsOne DEF On
  <2>5. CallSound(c)'
    BY <1>1, <1>3, <1>4, <1>5, <2>4 DEF CallSound, On, Final, Accepting
  <2>6. c \in clashed \/ online = People
    BY <1>3, <1>5 DEF People, CallsInv, CallsTypeOK
  <2> QED
    BY <1>0, <1>1, <1>2, <1>3, <1>5, <2>1, <2>3, <2>5, <2>6, NoEventIsOne, OneCall
       DEF CallsInv, CallsTypeOK
<1>6. CASE HandleEvent(h, "reading", c, "caller", "MISSED") /\ UNCHANGED active
  <2> DEFINE e == EventOf(h, "reading", c, "caller", "MISSED")
  <2>1. /\ Becomes(h, e) /\ e.stage = "reading" /\ e.call = c /\ e.status = "MISSED"
        /\ e.sweeps = handler[h].sweeps
    BY <1>2, <1>6, EventHandled DEF CallsInv, HandlerStages, People, CallStatus
  <2> HIDE DEF e
  <2>2. /\ handler'[h] = e /\ \A g \in Handlers \ {h} : handler'[g] = handler[g]
    BY <2>1, EventStepped DEF CallsInv
  <2>3. EventSound(h)'
    BY <1>1, <1>2, <1>3, <1>6, <2>1, <2>2 DEF EventSound, OnCall, Final
  <2>5. CallSound(c)'
    BY <1>1, <1>2, <1>3, <1>4, <1>6, <2>1, <2>2 DEF CallSound, On, Final
  <2> QED
    BY <1>0, <1>1, <1>2, <1>3, <1>6, <2>1, <2>3, <2>5, OneCall DEF CallsInv, CallsTypeOK
<1> QED
  BY <1>0, <1>5, <1>6 DEF Ring

\* An event on a call in the map: the call is on record, and nobody dials it.
LEMMA ActiveFinds ==
  ASSUME CallsInv, NEW c \in active
  PROVE  /\ c \in CallIds /\ row[c] \in CallRow /\ row[c] # None
         /\ \A g \in Handlers : handler[g].stage \in {"dialling", "ringing"} => ~On(g, c)
<1>1. c \in CallIds /\ row[c] # None
  BY DEF CallsInv, CallsTypeOK
<1>2. ASSUME NEW g \in Handlers, handler[g].stage \in {"dialling", "ringing"}, On(g, c) PROVE FALSE
  BY <1>2 DEF CallsInv, EventSound, On
<1> QED
  BY <1>1, <1>2 DEF CallsInv, CallsTypeOK

LEMMA CallAccepted ==
  ASSUME CallsInv, NEW h \in Handlers, NEW c \in CallIds, Accept(h, c)
  PROVE  CallsInv'
<1> DEFINE e == EventOf(h, "accepting", c, "callee", None)
<1>1. /\ handler[h].stage = "idle" /\ c \in active
      /\ clashed' = IF Ending(c) THEN clashed \cup {c} ELSE clashed
      /\ UNCHANGED <<row, active, online, outages>>
  BY DEF Accept, EventAt
<1>2. /\ Becomes(h, e) /\ e.stage = "accepting" /\ e.call = c /\ e.sweeps = handler[h].sweeps
  BY EventHandled DEF Accept, CallsInv, HandlerStages, People
<1> HIDE DEF e
<1>3. handler[h].call = None /\ ~handler[h].sweeps
  BY <1>1, EventFinds
<1>4. /\ handler'[h] = e /\ \A g \in Handlers \ {h} : handler'[g] = handler[g]
  BY <1>2, EventStepped DEF CallsInv
<1>5. EventSound(h)'
  BY <1>1, <1>2, <1>3, <1>4, ActiveFinds, CallsAssumption DEF EventSound, OnCall
<1>6. ASSUME c \notin clashed' PROVE CallSound(c)'
  <2>1. CallSound(c) /\ ~Ending(c)
    BY <1>1, <1>6, ActiveFinds DEF CallsInv
  <2>2. ~Ending(c)'
    BY <1>2, <1>4, <2>1 DEF Ending
  <2>3. \A g \in Handlers : On(g, c)' => handler'[g].stage \in {"accepting", "asking"}
    BY <1>1, <1>2, <1>4, <2>1 DEF CallSound, On
  <2> QED
    BY <1>1, <2>1, <2>2, <2>3 DEF CallSound
<1> QED
  BY <1>1, <1>2, <1>3, <1>5, <1>6, ActiveFinds, OneCall DEF CallsInv, CallsTypeOK

LEMMA AcceptedSaved ==
  ASSUME CallsInv, NEW h \in Handlers, SaveAccepted(h)
  PROVE  CallsInv'
<1>0. PICK c : c = handler[h].call
  OBVIOUS
<1> DEFINE doc == [row[c] EXCEPT !.status = "ACCEPTED", !.answered = TRUE]
<1>1. /\ handler[h].stage = "accepting" /\ row' = [row EXCEPT ![c] = doc]
      /\ handler' = [handler EXCEPT ![h] = NoEvent] /\ UNCHANGED <<active, online, outages, clashed>>
  BY <1>0 DEF SaveAccepted, EventAt
<1>2. /\ c \in CallIds /\ On(h, c) /\ c # None
      /\ \A g \in Handlers \ {h} : handler[g].stage \in {"dialling", "ringing"} => ~On(g, c)
  BY <1>0, <1>1, EventFinds DEF OnCall, On
<1>3. ~handler[h].sweeps /\ row[c] # None /\ row[c] \in CallRow
  BY <1>0, <1>1, <1>2 DEF CallsInv, EventSound, OnCall, CallsTypeOK
<1>4. /\ doc \in CallRow /\ doc # None
      /\ doc.status = "ACCEPTED" /\ doc.answered = TRUE /\ doc.ended = row[c].ended
  <2>1. /\ doc \in CallRow
        /\ doc.status = "ACCEPTED" /\ doc.answered = TRUE /\ doc.ended = row[c].ended
    BY <1>3 DEF CallRow, CallStatus
  <2> HIDE DEF doc
  <2> QED
    BY <2>1, CallsAssumption
<1> HIDE DEF doc
<1>5. row' \in [CallIds -> CallRow \cup {None}] /\ row'[c] = doc
      /\ \A d \in CallIds \ {c} : row'[d] = row[d]
  BY <1>1, <1>2, <1>4 DEF CallsInv, CallsTypeOK
<1>6. Becomes(h, NoEvent)
  BY <1>1, NoEventIsOne DEF Becomes
<1>7. /\ handler'[h] = NoEvent /\ \A g \in Handlers \ {h} : handler'[g] = handler[g]
  BY <1>6, EventStepped DEF CallsInv
<1>8. EventSound(h)'
  BY <1>7, NoEventIsOne DEF EventSound, OnCall
<1>9. ASSUME c \notin clashed PROVE CallSound(c)'
  <2>1. CallSound(c)
    BY <1>2, <1>3, <1>9 DEF CallsInv
  <2>2. c \in active
    BY <1>1, <1>2, <2>1 DEF CallSound
  <2>3. ~row[c].ended /\ ~Ending(c)
    BY <1>1, <1>2, <2>1, <2>2 DEF CallSound, Accepting, EventAt, On
  <2>4. \A g \in Handlers : On(g, c)' => g # h /\ On(g, c) /\ handler'[g] = handler[g]
    BY <1>2, <1>7, NoEventIsOne DEF On
  <2>5. ~Ending(c)'
    BY <2>3, <2>4 DEF Ending, On
  <2>6. \A g \in Handlers : On(g, c)' => handler'[g].stage \in {"accepting", "asking"}
    BY <2>1, <2>2, <2>4 DEF CallSound
  <2> QED
    BY <1>1, <1>4, <1>5, <2>2, <2>3, <2>5, <2>6 DEF CallSound, Final
<1> QED
  BY <1>0, <1>1, <1>2, <1>3, <1>4, <1>5, <1>6, <1>8, <1>9, NoEventIsOne, OneCall DEF CallsInv, CallsTypeOK

\* A call begins to end: it is asked whether it was answered.
LEMMA CallAsked ==
  ASSUME CallsInv, NEW h \in Handlers, NEW c \in active, NEW p \in People \cup {None},
         handler[h].call = None, handler[h].sweeps => p = handler[h].by,
         HandleEvent(h, "asking", c, p, None),
         clashed' = (IF Accepting(c) THEN clashed \cup {c} ELSE clashed),
         UNCHANGED <<row, active, online, outages>>
  PROVE  CallsInv'
<1> DEFINE e == EventOf(h, "asking", c, p, None)
<1>1. /\ Becomes(h, e) /\ e.stage = "asking" /\ e.call = c /\ e.by = p /\ e.sweeps = handler[h].sweeps
  BY EventHandled, ActiveFinds DEF CallsInv, HandlerStages
<1> HIDE DEF e
<1>2. /\ handler'[h] = e /\ \A g \in Handlers \ {h} : handler'[g] = handler[g]
  BY <1>1, EventStepped DEF CallsInv
<1>3. EventSound(h)'
  BY <1>1, <1>2, ActiveFinds, CallsAssumption DEF EventSound, OnCall
<1>4. ASSUME c \notin clashed' PROVE CallSound(c)'
  <2>1. CallSound(c) /\ ~Accepting(c)
    BY <1>4, ActiveFinds DEF CallsInv
  <2>2. ~Accepting(c)'
    BY <1>1, <1>2, <2>1 DEF Accepting, EventAt
  <2>3. \A g \in Handlers : On(g, c)' => handler'[g].stage \in {"accepting", "asking"}
    BY <1>1, <1>2, <2>1 DEF CallSound, On
  <2> QED
    BY <2>1, <2>2, <2>3 DEF CallSound
<1>5. clashed \subseteq clashed' /\ clashed' \subseteq CallIds
  BY ActiveFinds DEF CallsInv, CallsTypeOK
<1> QED
  BY <1>1, <1>3, <1>4, <1>5, ActiveFinds, OneCall DEF CallsInv, CallsTypeOK

\* The first or a later event ends it.
LEMMA CallFinalized ==
  ASSUME CallsInv, NEW h \in Handlers, NEW c \in CallIds, NEW by \in People \cup {None}, NEW status \in Final,
         row[c] \in CallRow, row[c] # None, handler[h].call \in {c, None}, c \in active \/ On(h, c),
         handler[h].sweeps => by = handler[h].by,
         \A g \in Handlers \ {h} : handler[g].stage \in {"dialling", "ringing"} => ~On(g, c),
         status = "ENDED" => row[c].status = "ACCEPTED",
         Finalize(h, c, by, status), UNCHANGED <<row, online, outages>>
  PROVE  CallsInv'
<1> DEFINE e == EventOf(h, "reading", c, by, status)
<1>1. /\ active' = active \ {c}
      /\ clashed' = IF Accepting(c) \/ (row[c].status = "ACCEPTED" /\ status # "ENDED")
                    THEN clashed \cup {c} ELSE clashed
  BY DEF Finalize
<1>2. /\ Becomes(h, e) /\ e.stage = "reading" /\ e.call = c /\ e.by = by /\ e.status = status
      /\ e.sweeps = handler[h].sweeps
  BY EventHandled DEF CallsInv, HandlerStages, Finalize, Final, CallStatus
<1> HIDE DEF e
<1>3. /\ handler'[h] = e /\ \A g \in Handlers \ {h} : handler'[g] = handler[g]
  BY <1>2, EventStepped DEF CallsInv
<1>4. EventSound(h)'
  BY <1>2, <1>3, CallsAssumption DEF EventSound, OnCall
<1>5. ASSUME c \notin clashed' PROVE CallSound(c)'
  <2>1. CallSound(c) /\ ~Accepting(c) /\ (row[c].status = "ACCEPTED" => status = "ENDED")
    BY <1>1, <1>5 DEF CallsInv
  <2>2. ASSUME ~row[c].ended PROVE status = "ENDED" <=> row[c].answered
    BY <2>1, <2>2 DEF CallSound, Final, CallRow, CallStatus
  <2>3. ASSUME NEW g \in Handlers, On(g, c)'
        PROVE  /\ handler'[g].stage # "accepting"
               /\ handler'[g].stage = "stamping" \/ (handler'[g].stage = "reading" /\ ~row[c].ended) =>
                    (handler'[g].status = "ENDED" <=> row[c].answered)
    <3>1. CASE g = h
      BY <1>2, <1>3, <2>2, <3>1
    <3>2. CASE g # h
      <4>1. On(g, c) /\ handler'[g] = handler[g]
        BY <1>3, <2>3, <3>2 DEF On
      <4>2. CASE c \in active
        BY <2>1, <4>1, <4>2 DEF CallSound, Accepting, On, EventAt
      <4>3. CASE c \notin active
        BY <2>1, <4>1, <4>3 DEF CallSound
      <4> QED
        BY <4>2, <4>3
    <3> QED
      BY <3>1, <3>2
  <2>4. On(h, c)' /\ handler'[h].stage = "reading"
    BY <1>2, <1>3 DEF On
  <2> QED
    BY <1>1, <2>1, <2>3, <2>4 DEF CallSound
<1>6. clashed \subseteq clashed' /\ clashed' \subseteq CallIds
  BY <1>1 DEF CallsInv, CallsTypeOK
<1> QED
  BY <1>1, <1>2, <1>4, <1>5, <1>6, OneCall DEF CallsInv, CallsTypeOK

LEMMA CallRejected ==
  ASSUME CallsInv, NEW h \in Handlers, NEW c \in CallIds, Reject(h, c) \/ Cancel(h, c)
  PROVE  CallsInv'
<1>1. /\ handler[h].stage = "idle" /\ c \in active /\ UNCHANGED <<row, online, outages>>
  BY DEF Reject, Cancel, EventAt
<1>2. handler[h].call = None /\ ~handler[h].sweeps
  BY <1>1, EventFinds
<1>3. PICK by \in People, status \in Final \ {"ENDED"} : Finalize(h, c, by, status)
  BY DEF Reject, Cancel, People, Final
<1> QED
  BY <1>1, <1>2, <1>3, ActiveFinds, CallFinalized

LEMMA StatusAsked ==
  ASSUME CallsInv, NEW h \in Handlers, AskStatus(h)
  PROVE  CallsInv'
<1>0. PICK c : c = handler[h].call
  OBVIOUS
<1>1. PICK status : status = IF row[c].status = "ACCEPTED" THEN "ENDED" ELSE Unanswered(h)
  OBVIOUS
<1>2. /\ handler[h].stage = "asking" /\ Finalize(h, c, handler[h].by, status)
      /\ UNCHANGED <<row, online, outages>>
  BY <1>0, <1>1 DEF AskStatus, EventAt
<1>3. /\ c \in CallIds /\ On(h, c) /\ handler[h].by \in People \cup {None}
      /\ \A g \in Handlers \ {h} : handler[g].stage \in {"dialling", "ringing"} => ~On(g, c)
  BY <1>0, <1>2, EventFinds DEF OnCall, On, Event
<1>4. row[c] # None /\ row[c] \in CallRow
  BY <1>0, <1>2, <1>3 DEF CallsInv, EventSound, OnCall, CallsTypeOK
<1>5. status \in Final /\ (status = "ENDED" => row[c].status = "ACCEPTED")
  BY <1>1 DEF Unanswered, Final
<1> QED
  BY <1>0, <1>2, <1>3, <1>4, <1>5, CallFinalized

LEMMA CallRead ==
  ASSUME CallsInv, NEW h \in Handlers, ReadCall(h)
  PROVE  CallsInv'
<1>0. PICK c : c = handler[h].call
  OBVIOUS
<1>1. handler[h].stage = "reading" /\ UNCHANGED <<row, active, online, outages, clashed>>
  BY DEF ReadCall, EventAt
<1>2. /\ c \in CallIds /\ On(h, c) /\ c # None /\ handler[h] \in Event
      /\ \A g \in Handlers \ {h} : handler[g].stage \in {"dialling", "ringing"} => ~On(g, c)
  BY <1>0, <1>1, EventFinds DEF OnCall, On
<1>3. row[c] # None /\ handler[h].status \in Final
  BY <1>0, <1>1, <1>2 DEF CallsInv, EventSound, OnCall
<1>4. ASSUME c \notin clashed PROVE CallSound(c) /\ c \notin active
  <2>1. CallSound(c)
    BY <1>2, <1>3, <1>4 DEF CallsInv
  <2>2. c \notin active
    BY <1>1, <1>2, <2>1 DEF CallSound
  <2> QED
    BY <2>1, <2>2
<1>5. CASE row[c].ended /\ EventDone(h)
  <2> DEFINE e == DoneOf(h)
  <2>1. /\ Becomes(h, e) /\ e.call = None
        /\ e.stage \in {"idle", "sweeping"} /\ (e.stage = "idle" => ~e.sweeps)
        /\ handler[h].sweeps => e.sweeps /\ e.by = handler[h].by
    BY <1>5, EventDoneWith DEF CallsInv
  <2> HIDE DEF e
  <2>2. /\ handler'[h] = e /\ \A g \in Handlers \ {h} : handler'[g] = handler[g]
    BY <2>1, EventStepped DEF CallsInv
  <2>3. EventSound(h)'
    BY <2>1, <2>2 DEF EventSound, OnCall
  <2>4. ASSUME c \notin clashed PROVE CallSound(c)'
    <3>1. \A g \in Handlers : On(g, c)' => On(g, c) /\ handler'[g] = handler[g]
      BY <1>2, <2>1, <2>2 DEF On
    <3> QED
      BY <1>1, <1>4, <1>5, <2>4, <3>1 DEF CallSound
  <2> QED
    BY <1>0, <1>1, <1>2, <1>3, <2>1, <2>3, <2>4, OneCall DEF CallsInv, CallsTypeOK
<1>6. CASE ~row[c].ended /\ HandleEvent(h, "stamping", c, handler[h].by, handler[h].status)
  <2> DEFINE e == EventOf(h, "stamping", c, handler[h].by, handler[h].status)
  <2>1. /\ Becomes(h, e) /\ e.stage = "stamping" /\ e.call = c /\ e.by = handler[h].by
        /\ e.status = handler[h].status /\ e.sweeps = handler[h].sweeps
    BY <1>2, <1>6, EventHandled DEF CallsInv, HandlerStages, Event
  <2> HIDE DEF e
  <2>2. /\ handler'[h] = e /\ \A g \in Handlers \ {h} : handler'[g] = handler[g]
    BY <2>1, EventStepped DEF CallsInv
  <2>3. EventSound(h)'
    BY <1>1, <1>2, <1>3, <2>1, <2>2 DEF EventSound, OnCall
  <2>4. ASSUME c \notin clashed PROVE CallSound(c)'
    <3>1. \A g \in Handlers \ {h} : On(g, c)' => On(g, c) /\ handler'[g] = handler[g]
      BY <2>2 DEF On
    <3>2. handler[h].status = "ENDED" <=> row[c].answered
      BY <1>1, <1>2, <1>4, <1>6, <2>4 DEF CallSound
    <3>3. On(h, c)'
      BY <2>1, <2>2 DEF On
    <3> QED
      BY <1>1, <1>4, <1>6, <2>1, <2>2, <2>4, <3>1, <3>2, <3>3 DEF CallSound
  <2> QED
    BY <1>0, <1>1, <1>2, <1>3, <2>1, <2>3, <2>4, OneCall DEF CallsInv, CallsTypeOK
<1> QED
  BY <1>0, <1>5, <1>6 DEF ReadCall

LEMMA CallStamped ==
  ASSUME CallsInv, NEW h \in Handlers, StampCall(h)
  PROVE  CallsInv'
<1>0. PICK c : c = handler[h].call
  OBVIOUS
<1> DEFINE doc == [row[c] EXCEPT !.status = handler[h].status, !.ended = TRUE]
           e == DoneOf(h)
<1>1. /\ handler[h].stage = "stamping" /\ row' = [row EXCEPT ![c] = doc] /\ EventDone(h)
      /\ UNCHANGED <<active, online, outages, clashed>>
  BY <1>0 DEF StampCall, EventAt
<1>2. /\ c \in CallIds /\ On(h, c) /\ c # None
      /\ \A g \in Handlers \ {h} : handler[g].stage \in {"dialling", "ringing"} => ~On(g, c)
  BY <1>0, <1>1, EventFinds DEF OnCall, On
<1>3. row[c] # None /\ row[c] \in CallRow /\ handler[h].status \in Final
  BY <1>0, <1>1, <1>2 DEF CallsInv, EventSound, OnCall, CallsTypeOK
<1>4. /\ doc \in CallRow /\ doc # None
      /\ doc.status = handler[h].status /\ doc.answered = row[c].answered /\ doc.ended = TRUE
  <2>1. /\ doc \in CallRow
        /\ doc.status = handler[h].status /\ doc.answered = row[c].answered /\ doc.ended = TRUE
    BY <1>3 DEF CallRow, CallStatus, Final
  <2> HIDE DEF doc
  <2> QED
    BY <2>1, CallsAssumption
<1>5. /\ Becomes(h, e) /\ e.call = None
      /\ e.stage \in {"idle", "sweeping"} /\ (e.stage = "idle" => ~e.sweeps)
      /\ handler[h].sweeps => e.sweeps /\ e.by = handler[h].by
  BY <1>1, EventDoneWith DEF CallsInv
<1> HIDE DEF doc, e
<1>6. row' \in [CallIds -> CallRow \cup {None}] /\ row'[c] = doc
      /\ \A d \in CallIds \ {c} : row'[d] = row[d]
  BY <1>1, <1>2, <1>4 DEF CallsInv, CallsTypeOK
<1>7. /\ handler'[h] = e /\ \A g \in Handlers \ {h} : handler'[g] = handler[g]
  BY <1>5, EventStepped DEF CallsInv
<1>8. EventSound(h)'
  BY <1>5, <1>7 DEF EventSound, OnCall
<1>9. ASSUME c \notin clashed PROVE CallSound(c)'
  <2>1. CallSound(c)
    BY <1>2, <1>3, <1>9 DEF CallsInv
  <2>2. c \notin active /\ (handler[h].status = "ENDED" <=> row[c].answered)
    BY <1>1, <1>2, <2>1 DEF CallSound
  <2>3. \A g \in Handlers : On(g, c)' => On(g, c) /\ handler'[g] = handler[g]
    BY <1>2, <1>5, <1>7 DEF On
  <2>4. \A g \in Handlers : On(g, c)' =>
          /\ handler'[g].stage # "accepting"
          /\ handler'[g].stage = "stamping" => (handler'[g].status = "ENDED" <=> doc.answered)
    BY <1>4, <2>1, <2>2, <2>3 DEF CallSound
  <2>5. doc.answered <=> doc.status \in {"ACCEPTED", "ENDED"}
    BY <1>3, <1>4, <2>2 DEF Final
  <2> QED
    BY <1>1, <1>3, <1>4, <1>6, <2>2, <2>4, <2>5 DEF CallSound
<1> QED
  BY <1>0, <1>1, <1>2, <1>3, <1>4, <1>5, <1>6, <1>8, <1>9, OneCall DEF CallsInv, CallsTypeOK

LEMMA CallHungUp ==
  ASSUME CallsInv, NEW h \in Handlers, NEW c \in CallIds, NEW p \in People, HangUp(h, c, p)
  PROVE  CallsInv'
<1>1. handler[h].stage = "idle" /\ c \in active
  BY DEF HangUp, EventAt
<1>2. handler[h].call = None /\ ~handler[h].sweeps
  BY <1>1, EventFinds
<1> QED
  BY <1>1, <1>2, CallAsked DEF HangUp

\* A disconnect comes back for the next call, or finds nothing to do.
LEMMA CallSwept ==
  ASSUME CallsInv, NEW h \in Handlers, Sweep(h) \/ Leave(h)
  PROVE  CallsInv'
<1>1. /\ handler[h].stage \in {"leaving", "sweeping"}
      /\ UNCHANGED <<row, active, online, outages>>
  BY DEF Sweep, Leave, EventAt
<1>2. handler[h].call = None /\ handler[h] \in Event
  BY <1>1, EventFinds
<1>3. CASE \E c \in active :
             /\ HandleEvent(h, "asking", c, handler[h].by, None)
             /\ clashed' = IF Accepting(c) THEN clashed \cup {c} ELSE clashed
  <2>1. handler[h].by \in People \cup {None}
    BY <1>2 DEF Event
  <2> QED
    BY <1>1, <1>2, <1>3, <2>1, CallAsked
<1>4. ASSUME NEW e, Becomes(h, e), e.call = None, UNCHANGED clashed,
             e.stage \in {"idle", "sweeping"}, e.stage = "idle" => ~e.sweeps,
             handler[h].sweeps => \/ e.sweeps /\ e.by = handler[h].by
                                  \/ handler[h].by \in online \/ active = {}
      PROVE  CallsInv'
  <2>1. handler'[h] = e
    BY <1>4, EventStepped DEF CallsInv
  <2>2. EventSound(h)'
    BY <1>4, <2>1 DEF EventSound, OnCall
  <2>3. \A g \in Handlers \ {h} : handler[g].stage \in {"dialling", "ringing"} => ~On(g, None)
    BY EventFinds DEF OnCall, On
  <2>4. None \notin CallIds /\ None \notin active
    BY CallsAssumption DEF CallsInv, CallsTypeOK
  <2> QED
    BY <1>1, <1>2, <1>4, <2>2, <2>3, <2>4, OneCall DEF CallsInv, CallsTypeOK
<1>5. CASE /\ handler' = [handler EXCEPT ![h] = NoEvent] /\ UNCHANGED clashed
           /\ active = {} \/ handler[h].by \in online
  BY <1>4, <1>5, NoEventIsOne DEF Becomes
<1>6. CASE /\ handler' = [handler EXCEPT ![h] = [handler[h] EXCEPT !.stage = "sweeping"]]
           /\ UNCHANGED clashed
  <2> DEFINE e == [handler[h] EXCEPT !.stage = "sweeping"]
  <2>1. /\ e \in Event /\ e.stage = "sweeping" /\ e.call = None /\ e.sweeps = handler[h].sweeps
        /\ e.by = handler[h].by
    BY <1>2 DEF Event, HandlerStages
  <2>2. Becomes(h, e)
    BY <1>6, <2>1 DEF Becomes
  <2> HIDE DEF e
  <2> QED
    BY <1>4, <1>6, <2>1, <2>2
<1> QED
  BY <1>3, <1>5, <1>6 DEF Sweep, Leave

\* Somebody comes online.
LEMMA PartyConnects ==
  ASSUME CallsInv, NEW p \in People, Connect(p)
  PROVE  CallsInv'
<1>1. online' = online \cup {p} /\ UNCHANGED <<row, active, handler, outages, clashed>>
  BY DEF Connect
<1>2. CallsTypeOK' /\ Swept'
  BY <1>1 DEF CallsInv, CallsTypeOK, Swept
<1>3. /\ \A h \in Handlers : EventSound(h)' <=> EventSound(h)
      /\ \A c \in CallIds : CallSound(c)' <=> CallSound(c)
  BY <1>1 DEF EventSound, CallSound, Accepting, Ending, EventAt, On
<1> QED
  BY <1>1, <1>2, <1>3 DEF CallsInv, CallsTypeOK

\* Somebody's last tab goes: a sweep of their calls is under way, and none is dialled.
LEMMA PartyDisconnects ==
  ASSUME CallsInv, NEW h \in Handlers, NEW p \in People, Disconnect(h, p)
  PROVE  CallsInv'
<1> DEFINE e == [NoEvent EXCEPT !.stage = "leaving", !.by = p, !.sweeps = TRUE]
           dialled == {c \in CallIds : \E g \in Handlers :
                         handler[g].call = c /\ handler[g].stage \in {"dialling", "ringing"}}
<1>1. /\ handler[h].stage = "idle" /\ online' = online \ {p}
      /\ handler' = [handler EXCEPT ![h] = e] /\ clashed' = clashed \cup dialled
      /\ UNCHANGED <<row, active, outages>>
  BY DEF Disconnect, EventAt
<1>2. e \in Event /\ e.stage = "leaving" /\ e.call = None /\ e.by = p /\ e.sweeps
  BY DEF NoEvent, Event, HandlerStages
<1>3. Becomes(h, e)
  BY <1>1, <1>2 DEF Becomes
<1> HIDE DEF e
<1>4. /\ handler' \in [Handlers -> Event] /\ handler'[h] = e
      /\ \A g \in Handlers \ {h} : handler'[g] = handler[g]
  BY <1>3, EventStepped DEF CallsInv
<1>5. handler[h].call = None /\ ~handler[h].sweeps
  BY <1>1, EventFinds
<1>6. CallsTypeOK'
  BY <1>1, <1>4 DEF CallsInv, CallsTypeOK, Event
<1>7. ASSUME NEW g \in Handlers PROVE EventSound(g)'
  <2>1. CASE g = h
    BY <1>2, <1>4, <2>1 DEF EventSound, OnCall
  <2>2. CASE g # h
    <3>1. EventSound(g) /\ handler'[g] = handler[g]
      BY <1>4, <2>2 DEF CallsInv
    <3>2. ASSUME handler[g].stage \in {"dialling", "ringing"}
          PROVE  \A o \in Handlers \ {g} : handler'[o].call # handler[g].call
      BY <1>2, <1>4, <3>1, <3>2 DEF EventSound, OnCall, On
    <3>3. handler'[g].stage \in {"dialling", "ringing"} =>
            \A o \in Handlers \ {g} : handler'[o].call # handler'[g].call
      BY <3>1, <3>2
    <3> QED
      BY <1>1, <3>1, <3>3 DEF EventSound, On
  <2> QED
    BY <2>1, <2>2
<1>8. ASSUME NEW d \in CallIds \ clashed', row'[d] # None PROVE CallSound(d)'
  <2>1. CallSound(d) /\ d \in CallIds \ {None}
    BY <1>1, <1>8, CallsAssumption DEF CallsInv
  <2> QED
    BY <1>1, <1>2, <1>3, <1>5, <2>1, OtherCalls DEF CallsInv
<1>9. Swept'
  <2>1. ASSUME NEW q \in People \ online'
        PROVE  active' \subseteq clashed' \/ \E g \in Handlers : handler'[g].sweeps /\ handler'[g].by = q
    <3>1. CASE q = p
      BY <1>2, <1>4, <3>1
    <3>2. CASE q # p
      <4>1. q \in People \ online
        BY <1>1, <2>1, <3>2
      <4>2. active \subseteq clashed \/ \E g \in Handlers \ {h} : handler[g].sweeps /\ handler[g].by = q
        BY <1>5, <4>1 DEF CallsInv, Swept
      <4> QED
        BY <1>1, <1>4, <4>2
    <3> QED
      BY <3>1, <3>2
  <2>2. ASSUME NEW g \in Handlers, handler'[g].stage \in {"dialling", "ringing"}
        PROVE  handler'[g].call \in clashed'
    <3>1. g # h /\ handler'[g] = handler[g]
      BY <1>2, <1>4, <2>2
    <3>2. handler[g].call \in CallIds
      BY <2>2, <3>1, EventFinds DEF OnCall
    <3> QED
      BY <1>1, <2>2, <3>1, <3>2
  <2> QED
    BY <2>1, <2>2 DEF Swept
<1> QED
  BY <1>1, <1>6, <1>7, <1>8, <1>9 DEF CallsInv

LEMMA ServerRestarts ==
  ASSUME CallsInv, RestartServer
  PROVE  CallsInv'
<1>1. /\ outages < MaxCallRestarts /\ outages' = outages + 1
      /\ active' = {} /\ online' = {} /\ row' = row
      /\ clashed' = clashed \cup {c \in CallIds : row[c] # None /\ ~row[c].ended}
      /\ handler' = [h \in Handlers |-> NoEvent]
  BY DEF RestartServer
<1>2. CallsTypeOK'
  <2>1. handler' \in [Handlers -> Event]
    BY <1>1, NoEventIsOne
  <2>2. outages' \in 0..MaxCallRestarts
    BY <1>1, CallsAssumption DEF CallsInv, CallsTypeOK
  <2> QED
    BY <1>1, <2>1, <2>2 DEF CallsInv, CallsTypeOK, Event
<1>3. \A h \in Handlers : EventSound(h)'
  BY <1>1, NoEventIsOne DEF EventSound, OnCall
<1>4. ASSUME NEW c \in CallIds \ clashed', row'[c] # None PROVE CallSound(c)'
  <2>1. CallSound(c) /\ row[c].ended
    BY <1>1, <1>4 DEF CallsInv
  <2>2. \A h \in Handlers : ~On(h, c)'
    BY <1>1, NoEventIsOne, CallsAssumption DEF On
  <2> QED
    BY <1>1, <2>1, <2>2 DEF CallSound
<1>5. Swept'
  BY <1>1, NoEventIsOne DEF Swept
<1> QED
  BY <1>1, <1>2, <1>3, <1>4, <1>5 DEF CallsInv

LEMMA CallsBegin == CallsInit => CallsInv
<1> SUFFICES ASSUME CallsInit PROVE CallsInv
  OBVIOUS
<1>1. handler \in [Handlers -> Event] /\ \A h \in Handlers : handler[h] = NoEvent
  BY NoEventIsOne DEF CallsInit
<1>2. CallsTypeOK
  <2>1. outages \in 0..MaxCallRestarts
    BY CallsAssumption DEF CallsInit
  <2> QED
    BY <1>1, <2>1 DEF CallsInit, CallsTypeOK, Event
<1>3. /\ \A h \in Handlers : EventSound(h)
      /\ \A c \in CallIds : row[c] = None
      /\ active = {}
  BY <1>1, NoEventIsOne DEF CallsInit, EventSound, OnCall
<1>4. Swept
  BY <1>1, NoEventIsOne DEF CallsInit, Swept
<1> QED
  BY <1>2, <1>3, <1>4 DEF CallsInv

LEMMA CallsStay == CallsInv /\ UNCHANGED callVars => CallsInv'
BY DEF CallsInv, callVars, CallsTypeOK, EventSound, CallSound, Accepting, Ending, EventAt, On, Swept

LEMMA CallsSteps == CallsInv /\ [CallsNext]_callVars => CallsInv'
<1> SUFFICES ASSUME CallsInv, [CallsNext]_callVars PROVE CallsInv'
  OBVIOUS
<1>1. ASSUME NEW h \in Handlers,
             CreateCall(h) \/ Ring(h) \/ SaveAccepted(h) \/ ReadCall(h) \/ StampCall(h)
             \/ AskStatus(h) \/ Leave(h) \/ Sweep(h)
      PROVE  CallsInv'
  BY <1>1, CallCreated, CallRings, AcceptedSaved, CallRead, CallStamped, StatusAsked, CallSwept
<1>2. ASSUME NEW h \in Handlers, NEW c \in CallIds,
             Dial(h, c) \/ Accept(h, c) \/ Reject(h, c) \/ Cancel(h, c)
      PROVE  CallsInv'
  BY <1>2, CallDialled, CallAccepted, CallRejected
<1> QED
  BY <1>1, <1>2, CallHungUp, PartyDisconnects, PartyConnects, ServerRestarts, CallsStay DEF CallsNext

\* The calls, their events and who is online keep their types.
THEOREM CallsTyped == CallsSpec => []CallsTypeOK
<1>1. CallsInv => CallsTypeOK
  BY DEF CallsInv
<1> QED
  BY CallsBegin, CallsSteps, <1>1, PTL DEF CallsSpec

\* However the events of the two browsers interleave, the routing map and the durable record
\* agree on every call whose events are through, except on those the model names
\* (signaling.ts finalize, handleDisconnect).
THEOREM CallsAgree == CallsSpec => []RecordAndMapAgree
<1>1. CallsInv => RecordAndMapAgree
  <2> SUFFICES ASSUME CallsInv, NEW c \in CallIds \ clashed, row[c] # None,
                      \A h \in Handlers : handler[h].call # c
               PROVE  /\ c \in active <=> ~row[c].ended
                      /\ row[c].ended <=> row[c].status \notin {"RINGING", "ACCEPTED"}
                      /\ row[c].answered <=> row[c].status \in {"ACCEPTED", "ENDED"}
                      /\ (c \in active /\ \A h \in Handlers : ~handler[h].sweeps) => online = People
    BY DEF RecordAndMapAgree
  <2>1. CallSound(c) /\ row[c] \in CallRow
    BY DEF CallsInv, CallsTypeOK
  <2>2. c \in active <=> ~row[c].ended
    BY <2>1 DEF CallSound, On
  <2>3. row[c].ended <=> row[c].status \notin {"RINGING", "ACCEPTED"}
    BY <2>1 DEF CallSound, CallRow, CallStatus, Final
  <2>4. row[c].answered <=> row[c].status \in {"ACCEPTED", "ENDED"}
    BY <2>1 DEF CallSound
  <2>5. (c \in active /\ \A h \in Handlers : ~handler[h].sweeps) => online = People
    BY DEF CallsInv, Swept, CallsTypeOK
  <2> QED
    BY <2>2, <2>3, <2>4, <2>5
<1> QED
  BY CallsBegin, CallsSteps, <1>1, PTL DEF CallsSpec
=============================================================================
