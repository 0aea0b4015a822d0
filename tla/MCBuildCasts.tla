--------------------------- MODULE MCBuildCasts -----------------------------
(***************************************************************************)
(* BuildEscrow with four casts in one run, on two stages.  One request of  *)
(* each party, paying by hand and through the gateway; the same by hand,   *)
(* with one stage that is disputed; the owner and two supervisors on it;   *)
(* or two requests of each party: two tabs, two people on the site, an     *)
(* engineer and an administrator.                                          *)
(***************************************************************************)
EXTENDS MCBuildEscrow

CONSTANTS tab, crew, admin, deputy

VARIABLE cast   \* which of them: nothing the program knows

TwoEach == [r \in Requests |->
  CASE r \in {owner, tab} -> "owner"
    [] r = gateway -> "gateway"
    [] r \in {contractor, crew} -> "contractor"
    [] r \in {engineer, admin} -> "engineer"
    [] r \in {supervisor, deputy} -> "supervisor"]

Cast ==
  CASE cast = "paying"   -> {owner, gateway, contractor, engineer}
    [] cast = "disputed" -> {owner, supervisor, contractor, engineer}
    [] cast = "appealed" -> {owner, supervisor, deputy}
    [] cast = "doubled"  -> {owner, tab, contractor, crew, engineer, admin}

\* A party's two requests are alike: the second is sent while the first is under way.
Sends(r) ==
  /\ r = tab => at[owner] # "idle"
  /\ r = crew => at[contractor] # "idle"
  /\ r = admin => at[engineer] # "idle"
  /\ r = deputy => at[supervisor] # "idle"

Filed(d) == dispute[d] # None \/ \E r \in Requests : about[r] = d

Touched(m) == stage[m].status # "PENDING" \/ \E r \in Requests : on[r] = m

\* Where each cast is followed to.
Followed ==
  /\ cast \in {"disputed", "appealed"} => Cardinality({m \in Stages : Touched(m)}) <= 1
  /\ cast \in {"paying", "doubled"} => \A d \in Disputes : ~Filed(d)
  /\ contested = {}
  /\ cast \in {"disputed", "appealed"} => \A r \in Requests : at[r] # "editing"
  /\ cast = "doubled" =>
       /\ rivals = {} /\ ~crossed /\ interrupted = {}
       /\ Cardinality({m \in Stages : paidIn[m] > Amount}) <= 1

CastInit == Init /\ cast \in {"paying", "disputed", "appealed", "doubled"}

CastNext ==
  \/ \E r \in Cast : Sends(r) /\ Start(r) /\ UNCHANGED cast
  \/ \E r \in Cast : Continue(r) /\ UNCHANGED cast
  \/ \E r \in Cast : Die(r) /\ UNCHANGED cast

CastSpec == CastInit /\ [][CastNext]_<<vars, cast>>
=============================================================================
