------------------------------ MODULE Handover ------------------------------
(***************************************************************************)
(* The handover of a finished building: the owner records the package,     *)
(* edits it while certificates arrive, and accepts it, which completes the *)
(* project (controllers/handover.controller.ts, models/Handover.ts).  The  *)
(* project is also completed by its last release                           *)
(* (controllers/build.controller.ts) and by the owner                      *)
(* (controllers/projects.controller.ts).                                   *)
(***************************************************************************)
EXTENDS Naturals, FiniteSets, Nothing

CONSTANTS
  HandoverTabs,   \* the owner's requests that can be under way together
  Packages        \* what the owner may put down, a list of warranties

ASSUME HandoverAssumption ==
  /\ None \notin Packages
  /\ None \notin [package : Packages, certificate : BOOLEAN, accepted : BOOLEAN]

BuildingStatus == {"PERMIT_STAGE", "UNDER_CONSTRUCTION", "COMPLETED", "ARCHIVED"}

VARIABLES
  building,   \* Project.status
  package,    \* Handover: the package, whether the occupancy certificate is in, acceptedByOwner
  tab,        \* each request: how far, what it writes, the project's status it loaded
  \* --- history, read by no action
  receipt,    \* what the owner had read when accepting
  jostled     \* an acceptance met an edit, another one, the end of the project or of its process

handoverVars == <<building, package, tab, receipt, jostled>>

NoTab == [stage |-> "idle", package |-> None, certificate |-> FALSE, building |-> "PERMIT_STAGE"]

HandoverTypeOK ==
  /\ building \in BuildingStatus
  /\ package \in [package : Packages, certificate : BOOLEAN, accepted : BOOLEAN] \cup {None}
  /\ tab \in [HandoverTabs -> [stage : {"idle", "saving", "accepting", "completing"},
                               package : Packages \cup {None}, certificate : BOOLEAN,
                               building : BuildingStatus]]
  /\ receipt \in Packages \cup {None}
  /\ jostled \in BOOLEAN

HandoverInit ==
  /\ building = "PERMIT_STAGE"
  /\ package = None
  /\ tab = [r \in HandoverTabs |-> NoTab]
  /\ receipt = None
  /\ jostled = FALSE

TabOpens(r, next) == tab[r].stage = "idle" /\ tab' = [tab EXCEPT ![r] = next]
TabCloses(r) == tab' = [tab EXCEPT ![r] = NoTab]
AnyTab(stages) == \E r \in HandoverTabs : tab[r].stage \in stages

\* (mutant) An accepted package can be edited.
EditAnyTime(r, p, certificate) ==
  /\ TabOpens(r, [NoTab EXCEPT !.stage = "saving", !.package = p, !.certificate = certificate])
  /\ jostled' = (jostled \/ AnyTab({"accepting"}))
  /\ UNCHANGED <<building, package, receipt>>

\* PUT /api/projects/:id/handover, until it is accepted.
SaveHandover(r, p, certificate) ==
  /\ TabOpens(r, [NoTab EXCEPT !.stage = "saving", !.package = p, !.certificate = certificate])
  /\ package # None => ~package.accepted
  /\ jostled' = (jostled \/ AnyTab({"accepting"}))
  /\ UNCHANGED <<building, package, receipt>>

\* findOneAndUpdate asks for the project only, and leaves acceptedByOwner alone.  A link
\* to the certificate left blank is no field of the update: the one there stays.
UpsertPackage(r) ==
  /\ tab[r].stage = "saving"
  /\ package' = [package |-> tab[r].package,
                 certificate |-> tab[r].certificate \/ (package # None /\ package.certificate),
                 accepted |-> package # None /\ package.accepted]
  /\ TabCloses(r)
  /\ UNCHANGED <<building, receipt, jostled>>

\* POST /api/projects/:id/handover/accept.  The project was loaded first.
AcceptHandover(r) ==
  /\ package # None
  /\ TabOpens(r, [NoTab EXCEPT !.stage = "accepting", !.package = package.package,
                               !.building = building])
  /\ ~package.accepted /\ package.certificate
  /\ jostled' = (jostled \/ AnyTab({"saving", "accepting", "completing"}))
  /\ UNCHANGED <<building, package, receipt>>

SaveReceipt(r) ==
  /\ tab[r].stage = "accepting"
  /\ package' = [package EXCEPT !.accepted = TRUE]
  /\ receipt' = tab[r].package
  /\ IF tab[r].building = "UNDER_CONSTRUCTION"
     THEN tab' = [tab EXCEPT ![r] = [tab[r] EXCEPT !.stage = "completing"]]
     ELSE TabCloses(r)
  /\ UNCHANGED <<building, jostled>>

CompleteBuilding(r) ==
  /\ tab[r].stage = "completing"
  /\ building' = "COMPLETED"
  /\ TabCloses(r)
  /\ UNCHANGED <<package, receipt, jostled>>

\* The process may end between the two saves.
TabDies(r) ==
  /\ tab[r].stage = "completing"
  /\ TabCloses(r)
  /\ jostled' = TRUE
  /\ UNCHANGED <<building, package, receipt>>

\* PATCH /api/projects/:id/status (OWNER_TRANSITIONS), read and written in one request.
nextStatus == [PERMIT_STAGE |-> "UNDER_CONSTRUCTION", UNDER_CONSTRUCTION |-> "COMPLETED",
               COMPLETED |-> "ARCHIVED"]
OwnerMoves ==
  /\ building \in DOMAIN nextStatus
  /\ building' = nextStatus[building]
  /\ jostled' = (jostled \/ AnyTab({"accepting", "completing"}))
  /\ UNCHANGED <<package, tab, receipt>>

\* releaseMilestone, when nothing is outstanding: whatever the project's status is by then.
LastRelease ==
  /\ building # "PERMIT_STAGE"
  /\ building' = "COMPLETED"
  /\ UNCHANGED <<package, tab, receipt, jostled>>

HandoverNext ==
  \/ \E r \in HandoverTabs : UpsertPackage(r) \/ AcceptHandover(r) \/ SaveReceipt(r)
       \/ CompleteBuilding(r) \/ TabDies(r)
  \/ \E r \in HandoverTabs, p \in Packages, c \in BOOLEAN : SaveHandover(r, p, c)
  \/ OwnerMoves \/ LastRelease

HandoverSpec == HandoverInit /\ [][HandoverNext]_handoverVars

-----------------------------------------------------------------------------
(* Properties *)

\* The package kept is the one the owner accepted, with its certificate; before, nothing
\* was accepted.  Excepted are acceptances that `jostled` names.
AcceptedIsKept ==
  ~jostled /\ package # None =>
    IF package.accepted THEN package.package = receipt /\ package.certificate
    ELSE receipt = None

=============================================================================
