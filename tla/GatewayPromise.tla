--------------------------- MODULE GatewayPromise ---------------------------
(***************************************************************************)
(* What online payment promises the two sides, with no word of how:        *)
(* a session is a request for one sum; the gateway may take that sum, or   *)
(* less, from the payer once; and the platform writes the sum into the     *)
(* ledger of the thing being paid for at most once, and only after it was  *)
(* taken, in this session or, if a notification was misdirected, in        *)
(* another.                                                                *)
(* PaymentGateway.tla is the detailed specification that implements it.    *)
(***************************************************************************)
EXTENDS Naturals

CONSTANT Sessions      \* the payment sessions, one per attempt at paying

VARIABLES
  took,                \* what the gateway took from the payer: nothing, part of it, all
  credited,            \* how many ledger entries the session has produced
  misdirected          \* sessions vouched for by what was taken in another one

Init ==
  /\ took = [s \in Sessions |-> "nothing"]
  /\ credited = [s \in Sessions |-> 0]
  /\ misdirected = {}

Take(s) ==
  /\ took[s] = "nothing"
  /\ \E sum \in {"part", "all"} : took' = [took EXCEPT ![s] = sum]
  /\ UNCHANGED <<credited, misdirected>>

Misdirect(s) ==
  /\ \E v \in Sessions \ {s} : took[v] # "nothing"
  /\ misdirected' = misdirected \cup {s}
  /\ UNCHANGED <<took, credited>>

Credit(s) ==
  /\ took[s] = "all" \/ s \in misdirected
  /\ credited[s] = 0
  /\ credited' = [credited EXCEPT ![s] = 1]
  /\ UNCHANGED <<took, misdirected>>

Next == \E s \in Sessions : Take(s) \/ Misdirect(s) \/ Credit(s)

Spec == Init /\ [][Next]_<<took, credited, misdirected>>
=============================================================================
