--------------------------- MODULE MCBuildEscrow ----------------------------
(* Small instances of BuildEscrow for TLC. *)
EXTENDS BuildEscrow, TLC

CONSTANTS owner, gateway, contractor, engineer, supervisor

\* One request of each party at a time.
OneEach == [r \in Requests |->
  CASE r = owner -> "owner"
    [] r = gateway -> "gateway"
    [] r = contractor -> "contractor"
    [] r = engineer -> "engineer"
    [] r = supervisor -> "supervisor"]

\* The stages are interchangeable.
Symmetry == Permutations(Stages)
=============================================================================
