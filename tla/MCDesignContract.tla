-------------------------- MODULE MCDesignContract --------------------------
(* Small instances of DesignContract for TLC.  `cast` says whose requests a *)
(* behaviour is about.                                                      *)
EXTENDS DesignContract

CONSTANTS payer, reviewer, canceller, designer, gateway, tab, laptop

VARIABLE cast

\* Each request of the run with the person who sends it.
RoleOf == [r \in Requests |->
  CASE r = tab -> "client"
    [] r = payer -> "payer"
    [] r = reviewer -> "reviewer"
    [] r = canceller -> "canceller"
    [] r \in {designer, laptop} -> "architect"
    [] r = gateway -> "gateway"]

\* Everybody once; or the client's second tab and the architect's, the gateway apart.
Casts == {{payer, gateway, reviewer, canceller, designer},
          {payer, reviewer, tab, designer, laptop}}

CastInit == Init /\ cast \in {c \cap Requests : c \in Casts}

CastNext ==
  /\ UNCHANGED cast
  /\ \/ \E r \in cast : Start(r)
     \/ \E r \in Requests : Continue(r)
     \/ \E r \in Requests : Die(r)
     \/ EngageAnother
     \/ RaiseDispute
     \/ WithdrawDispute

CastSpec == CastInit /\ [][CastNext]_<<cast, vars>>

\* Until two submissions or two decisions have met.
Followed == ~queued /\ ~redecided
=============================================================================
