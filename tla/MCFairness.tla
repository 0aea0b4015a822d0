----------------------------- MODULE MCFairness -----------------------------
(* What must eventually happen, in two components that share no state: the *)
(* rotation of the keys, and a design contract while one tab of each party *)
(* is open.  `part` says which of them a behaviour is about.               *)
EXTENDS KeyRotation, DesignContract, TLC

CONSTANTS client, designer

VARIABLE part

\* Who sends the requests on the design contract: one tab a party.
RoleOf == (client :> "client") @@ (designer :> "architect")

fairnessVars == <<part, rotationVars, vars>>

InRotation == part = "rotation" /\ UNCHANGED <<part, vars>>
InDesign   == part = "design" /\ UNCHANGED <<part, rotationVars>>

FairnessInit ==
  /\ part \in {"rotation", "design"}
  /\ RotationInit
  /\ part = "design" => doc = [d \in Docs |-> [key |-> 0, readable |-> TRUE, content |-> 0]]
  /\ Init

\* One rotation meets an edit, or it meets refused batches and restarts.
FairnessNext ==
  \/ \E u \in Runs : InRotation /\ DriverStep(u)
  \/ \E u \in Runs : InRotation /\ edits = 0 /\ RefuseBatch(u)
  \/ \E a \in Admins : InRotation /\ AskRotation(a)
  \/ \E a \in Admins : InRotation /\ AdminStep(a)
  \/ \E a \in Admins, u \in Runs : InRotation /\ AskResume(a, u)
  \/ \E a \in Admins, u \in Runs : InRotation /\ AskVerify(a, u)
  \/ \E d \in Docs : InRotation /\ errors = 0 /\ restarts = 0 /\ EditDocument(d)
  \/ \E d \in Docs : InRotation /\ RepairDocument(d)
  \/ InRotation /\ edits = 0 /\ Restart
  \/ \E r \in Requests : InDesign /\ Start(r)
  \/ \E r \in Requests : InDesign /\ Continue(r)
  \/ InDesign /\ EngageAnother
  \/ InDesign /\ RaiseDispute
  \/ InDesign /\ WithdrawDispute

\* RotationFairness, and that of DesignContract's FairSpec, while each is the subject.
FairnessSpec ==
  /\ FairnessInit /\ [][FairnessNext]_fairnessVars
  /\ \A u \in Runs : WF_fairnessVars(InRotation /\ DriverStep(u))
  /\ \A a \in Admins : WF_fairnessVars(InRotation /\ AdminStep(a))
  /\ \A u \in Runs : SF_fairnessVars(InRotation /\ \E a \in Admins : AskResume(a, u))
  /\ \A r \in Requests : WF_fairnessVars(InDesign /\ Continue(r))
=============================================================================
