-------------------------- MODULE MCPaymentGateway --------------------------
(* Small instances of PaymentGateway for TLC. *)
EXTENDS PaymentGateway, FiniteSets, TLC

CONSTANTS concept, escrow, engineer, milestone, order

\* One target of each kind.
OfEachKind ==
  LET kind == (concept :> "CONTRACT_CONCEPT_FEE") @@ (escrow :> "CONTRACT_ESCROW")
              @@ (engineer :> "STRUCTURAL_ESCROW") @@ (milestone :> "MILESTONE_ESCROW")
              @@ (order :> "MARKET_ORDER")
  IN  [t \in Targets |-> kind[t]]

\* An order costs less than the rest: the val_id of a stage's deposit covers it, not the
\* reverse.
OrderCostsLess == [t \in Targets |-> IF t = order THEN 1 ELSE 2]

\* What a death leaves undone, and what an IPN settles on another's charge, are followed in
\* one session at a time, and the latter while nobody has paid by hand.
Followed ==
  /\ Cardinality({s \in Sessions : lost[s] # "nothing" \/ s \in misdirected}) <= 1
  /\ misdirected = {} \/ \A t \in Targets : ledger[t][Manual] = 0

\* Sessions and requests are interchangeable in every safety property.
Symmetry == Permutations(Sessions) \cup Permutations(Requests)
=============================================================================
