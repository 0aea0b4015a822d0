---------------------------- MODULE MCTendering ----------------------------
(* Small instances of Tendering for TLC. *)
EXTENDS Tendering, TLC

CONSTANTS desk, tab, board

\* The owner's two requests, and one of a contractor or a visitor.
TwoSides == [r \in Requests |->
  IF r \in {desk, tab} THEN {"owner"} ELSE Bidders \cup {"visitor"}]

\* The second tab asks while the first is waiting, and nobody beside them.
Sends(r) ==
  /\ r = tab => at[desk] # "idle" /\ at[board] = "idle"
  /\ r = board => at[tab] = "idle"

TwoNext ==
  \/ \E r \in Requests : Sends(r) /\ Start(r)
  \/ \E r \in Requests : Continue(r) \/ Die(r)
  \/ \E t \in Tenders : SweepOverdue(t)

TwoSpec == Init /\ [][TwoNext]_vars

\* The second tab, up to an award and a death.
Followed ==
  /\ raced = {}
  /\ at[tab] # "idle" => interrupted = {} /\ contract = None

Symmetry == Permutations(Tenders) \cup Permutations(Bidders)
=============================================================================
