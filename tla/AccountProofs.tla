--------------------------- MODULE AccountProofs ----------------------------
(***************************************************************************)
(* Proofs about one account, for any logins, requests, roles, addresses,   *)
(* links, submissions and tabs: a change of password or of role ends the   *)
(* logins opened before it, a verified address is one whose link was       *)
(* followed, the badge says what was decided of the last submission, and   *)
(* the tabs of one browser do not end the login they share.                *)
(*                                                                         *)
(* The argument for the logins: until a change is saved, whatever a login  *)
(* has read is still so; a save makes a racing login of every one under    *)
(* way; and every other one that it leaves behind is among those that the  *)
(* same request is about to end.                                           *)
(*                                                                         *)
(* The argument for the badge: a submission has the account to itself and  *)
(* a decision meets edits at most, so each handler still finds at its save *)
(* what it read, and only the last submission can be open.                 *)
(*                                                                         *)
(* The argument for the tabs: the answer to a rotation is the only one     *)
(* that carries the last token, and it comes before the grace is over, so  *)
(* until then every request has one of the last two tokens and is allowed. *)
(***************************************************************************)
EXTENDS Accounts, EmailLinks, Verification, Sessions, TLAPS

-----------------------------------------------------------------------------
(* Logins: the inductive invariant *)

\* A request is about to end every login.
EndingAll == \E c \in Changes : change[c].stage = "revokingAll"

\* A request is about to end login l, which is not its own.
EndingOthers(l) == \E c \in Changes : change[c].stage = "revokingOthers" /\ change[c].by # l

\* What login l has read and still relies on, and what it was opened with.
LoginCurrent(l) ==
  /\ UnderWay(l) => login[l].role = account.role
  /\ login[l].stage \in {"checked", "opening"} => undone \/ login[l].password = account.password
  /\ IsOpen(l) => /\ token[l] = account.role \/ EndingAll
                  /\ undone \/ login[l].password = account.password \/ EndingAll \/ EndingOthers(l)

RolesKnown == \A c \in Changes : change[c].stage = "savingRole" => change[c].role \in UserRoles

AInv ==
  /\ AccountsTypeOK
  /\ RolesKnown
  /\ \A l \in Logins \ racing : LoginCurrent(l)

Login == [stage : LoginStages, password : Nat, role : UserRoles \cup {None}]
Change == [stage : ChangeStages, by : Logins \cup {None}, role : UserRoles \cup {None}]

-----------------------------------------------------------------------------
(* Logins: type correctness *)

LEMMA AccountsTypedInit == AccountsInit => AccountsTypeOK
<1> SUFFICES ASSUME AccountsInit PROVE AccountsTypeOK
  OBVIOUS
<1>1. NoLogin \in Login /\ NoChange \in Change
  BY DEF NoLogin, NoChange, Login, Change, LoginStages, ChangeStages
<1>2. account \in [password : Nat, old : BOOLEAN, role : UserRoles]
  BY DEF AccountsInit
<1>3. login \in [Logins -> Login] /\ change \in [Changes -> Change]
  BY <1>1 DEF AccountsInit
<1> QED
  BY <1>2, <1>3 DEF AccountsInit, AccountsTypeOK, Login, Change

LEMMA AccountsTypedStep ==
  ASSUME AccountsTypeOK, RolesKnown, [OneAccount]_accountVars
  PROVE  AccountsTypeOK'
<1> USE DEF AccountsTypeOK
<1>0. login \in [Logins -> Login] /\ change \in [Changes -> Change]
  BY DEF Login, Change
<1>a. ASSUME NEW l \in Logins
      PROVE  /\ login[l] \in Login
             /\ login[l].password \in Nat /\ login[l].role \in UserRoles \cup {None}
  BY DEF Login
<1>b. ASSUME NEW e \in Login, NEW s \in LoginStages, NEW role \in UserRoles \cup {None}
      PROVE  [e EXCEPT !.stage = s] \in Login /\ [e EXCEPT !.stage = s, !.role = role] \in Login
  BY DEF Login
<1>c. NoChange \in Change
  BY DEF NoChange, Change, ChangeStages
<1>d. ASSUME NEW which, Revoke(which)
      PROVE  login' \in [Logins -> Login]
  <2>1. \A l \in Logins : [login[l] EXCEPT !.stage = "revoked"] \in Login
    BY <1>a, <1>b DEF LoginStages
  <2> QED
    BY <1>a, <1>d, <2>1 DEF Revoke
<1>1. ASSUME NEW l \in Logins, CheckPassword(l)
      PROVE  AccountsTypeOK'
  BY <1>1 DEF CheckPassword, LoginStages
<1>2. ASSUME NEW l \in Logins, UpgradeHash(l)
      PROVE  AccountsTypeOK'
  <2>0. [login[l] EXCEPT !.stage = "opening"] \in Login
    BY <1>a, <1>b DEF LoginStages
  <2>1. login' \in [Logins -> Login]
    BY <1>0, <1>2, <2>0 DEF UpgradeHash
  <2>2. account' \in [password : Nat, old : BOOLEAN, role : UserRoles]
    BY <1>2, <1>a DEF UpgradeHash
  <2>3. undone' \in BOOLEAN
    BY <1>2 DEF UpgradeHash
  <2> QED
    BY <1>2, <2>1, <2>2, <2>3 DEF UpgradeHash, Login
<1>3. ASSUME NEW l \in Logins, StartSession(l) \/ MintAccess(l)
      PROVE  AccountsTypeOK'
  <2>0. [login[l] EXCEPT !.stage = "open", !.role = None] \in Login
    BY <1>a, <1>b DEF LoginStages
  <2>1. login' \in [Logins -> Login]
    BY <1>0, <1>3, <2>0 DEF StartSession, MintAccess
  <2>2. token' \in [Logins -> UserRoles \cup {None}]
    BY <1>3, <1>a DEF StartSession, MintAccess
  <2> QED
    BY <1>3, <2>1, <2>2 DEF StartSession, MintAccess, Login
<1>4. ASSUME NEW l \in Logins, ReadForRefresh(l)
      PROVE  AccountsTypeOK'
  <2>1. account.role \in UserRoles
    OBVIOUS
  <2>0. [login[l] EXCEPT !.stage = "renewing", !.role = account.role] \in Login
    BY <1>a, <1>b, <2>1 DEF LoginStages
  <2>2. login' \in [Logins -> Login]
    BY <1>0, <1>4, <2>0 DEF ReadForRefresh
  <2> QED
    BY <1>4, <2>2 DEF ReadForRefresh, Login
<1>5. ASSUME NEW which \in SUBSET Logins, EndLogins(which)
      PROVE  AccountsTypeOK'
  BY <1>5, <1>d DEF EndLogins, Login
<1>6. ASSUME NEW c \in Changes, NEW l \in Logins, AskNewPassword(c, l)
      PROVE  AccountsTypeOK'
  BY <1>6 DEF AskNewPassword, ChangeStages
<1>7. ASSUME NEW c \in Changes, NEW role \in UserRoles, AskNewRole(c, role)
      PROVE  AccountsTypeOK'
  BY <1>7 DEF AskNewRole, ChangeStages
<1>8. ASSUME NEW c \in Changes, SavePassword(c)
      PROVE  AccountsTypeOK'
  <2>1. [change[c] EXCEPT !.stage = "revokingOthers"] \in Change
    BY DEF Change, ChangeStages
  <2>2. change' \in [Changes -> Change]
    BY <1>8, <2>1 DEF SavePassword, Change
  <2>0. passwords + 1 \in Nat
    OBVIOUS
  <2>3. passwords' \in Nat /\ account' \in [password : Nat, old : BOOLEAN, role : UserRoles]
    <3>1. [account EXCEPT !.password = passwords + 1, !.old = FALSE]
            \in [password : Nat, old : BOOLEAN, role : UserRoles]
      BY <2>0
    <3> QED
      BY <1>8, <2>0, <3>1 DEF SavePassword
  <2>4. \A l \in Logins : [login[l] EXCEPT !.password = passwords + 1] \in Login
    BY <1>a DEF Login
  <2>5. login' \in [Logins -> Login]
    BY <1>8, <1>a, <2>4 DEF SavePassword, Login
  <2>6. racing' \subseteq Logins
    BY <1>8 DEF SavePassword
  <2> QED
    BY <1>8, <2>2, <2>3, <2>5, <2>6 DEF SavePassword, Login, Change
<1>9. ASSUME NEW c \in Changes, RevokeOthers(c) \/ RevokeAll(c)
      PROVE  AccountsTypeOK'
  <2>1. login' \in [Logins -> Login]
    BY <1>9, <1>d DEF RevokeOthers, RevokeAll
  <2>2. change' \in [Changes -> Change]
    BY <1>9, <1>c DEF RevokeOthers, RevokeAll, Change
  <2> QED
    BY <1>9, <2>1, <2>2 DEF RevokeOthers, RevokeAll, Login, Change
<1>10. ASSUME NEW c \in Changes, SaveRole(c)
       PROVE  AccountsTypeOK'
  <2>1. [change[c] EXCEPT !.stage = "revokingAll"] \in Change
    BY DEF Change, ChangeStages
  <2>2. change' \in [Changes -> Change]
    BY <1>10, <2>1 DEF SaveRole, Change
  <2>3. account' \in [password : Nat, old : BOOLEAN, role : UserRoles]
    BY <1>10 DEF SaveRole, RolesKnown
  <2>4. racing' \subseteq Logins
    BY <1>10 DEF SaveRole
  <2> QED
    BY <1>10, <2>2, <2>3, <2>4 DEF SaveRole, Change
<1>11. CASE UNCHANGED accountVars
  BY <1>11 DEF accountVars
<1> HIDE DEF AccountsTypeOK
<1> QED
  BY <1>1, <1>2, <1>3, <1>4, <1>5, <1>6, <1>7, <1>8, <1>9, <1>10, <1>11 DEF OneAccount

LEMMA RolesKnownStep ==
  ASSUME AccountsTypeOK, RolesKnown, [OneAccount]_accountVars
  PROVE  RolesKnown'
<1> USE DEF RolesKnown, AccountsTypeOK
<1>1. CASE change' = change
  BY <1>1
<1>2. ASSUME NEW c \in Changes, NEW l \in Logins, AskNewPassword(c, l)
      PROVE  RolesKnown'
  BY <1>2 DEF AskNewPassword
<1>3. ASSUME NEW c \in Changes, NEW role \in UserRoles, AskNewRole(c, role)
      PROVE  RolesKnown'
  BY <1>3 DEF AskNewRole
<1>4. ASSUME NEW c \in Changes, SavePassword(c) \/ RevokeOthers(c) \/ SaveRole(c) \/ RevokeAll(c)
      PROVE  RolesKnown'
  <2>1. \A d \in Changes \ {c} : change'[d] = change[d]
    BY <1>4 DEF SavePassword, RevokeOthers, SaveRole, RevokeAll
  <2>2. change'[c].stage # "savingRole"
    BY <1>4 DEF SavePassword, RevokeOthers, SaveRole, RevokeAll, NoChange
  <2> QED
    BY <2>1, <2>2
<1> HIDE DEF RolesKnown, AccountsTypeOK
<1> QED
  BY <1>1, <1>2, <1>3, <1>4 DEF OneAccount, accountVars, CheckPassword, UpgradeHash, StartSession,
     ReadForRefresh, MintAccess, EndLogins

-----------------------------------------------------------------------------
(* Logins: the steps *)

\* What a step that writes only login l leaves to be shown.
LEMMA OneLogin ==
  ASSUME AInv, NEW l \in Logins, UNCHANGED <<account, change, racing, undone>>,
         \A k \in Logins \ {l} : login'[k] = login[k] /\ token'[k] = token[k],
         l \notin racing => LoginCurrent(l)'
  PROVE  \A k \in Logins \ racing' : LoginCurrent(k)'
<1> SUFFICES ASSUME NEW k \in Logins \ racing, k # l
             PROVE  LoginCurrent(k)'
  OBVIOUS
<1>1. LoginCurrent(k)
  BY DEF AInv
<1> QED
  BY <1>1 DEF LoginCurrent, UnderWay, IsOpen, EndingAll, EndingOthers

LEMMA LoginSteps ==
  ASSUME AInv, NEW l \in Logins,
         CheckPassword(l) \/ StartSession(l) \/ ReadForRefresh(l) \/ MintAccess(l)
  PROVE  \A k \in Logins \ racing' : LoginCurrent(k)'
<1> USE DEF AInv, AccountsTypeOK
<1>1. CASE CheckPassword(l)
  <2>1. LoginCurrent(l)'
    BY <1>1 DEF CheckPassword, LoginCurrent, UnderWay, IsOpen
  <2> QED
    BY <1>1, <2>1, OneLogin DEF CheckPassword
<1>2. CASE StartSession(l)
  <2>1. l \notin racing => LoginCurrent(l)'
    BY <1>2 DEF StartSession, LoginCurrent, UnderWay, IsOpen
  <2> QED
    BY <1>2, <2>1, OneLogin DEF StartSession
<1>3. CASE ReadForRefresh(l)
  <2>1. l \notin racing => LoginCurrent(l)'
    BY <1>3 DEF ReadForRefresh, LoginCurrent, UnderWay, IsOpen, EndingAll, EndingOthers
  <2> QED
    BY <1>3, <2>1, OneLogin DEF ReadForRefresh
<1>4. CASE MintAccess(l)
  <2>1. l \notin racing => LoginCurrent(l)'
    BY <1>4 DEF MintAccess, LoginCurrent, UnderWay, IsOpen, EndingAll, EndingOthers
  <2> QED
    BY <1>4, <2>1, OneLogin DEF MintAccess
<1> QED
  BY <1>1, <1>2, <1>3, <1>4

\* Storing the typed password again changes nothing, or undoes a change.
LEMMA UpgradeHashStep ==
  ASSUME AInv, NEW l \in Logins, UpgradeHash(l)
  PROVE  \A k \in Logins \ racing' : LoginCurrent(k)'
<1> SUFFICES ASSUME NEW k \in Logins \ racing
             PROVE  LoginCurrent(k)'
  BY DEF UpgradeHash
<1>1. LoginCurrent(k)
  BY DEF AInv
<1>2. /\ account'.role = account.role /\ token' = token /\ change' = change
      /\ undone' \/ (undone' = undone /\ account'.password = account.password)
      /\ undone => undone'
  BY DEF UpgradeHash, AInv, AccountsTypeOK
<1>3. /\ login'[k].role = login[k].role /\ login'[k].password = login[k].password
      /\ k = l => login[k].stage = "checked" /\ login'[k].stage = "opening"
      /\ k # l => login'[k].stage = login[k].stage
  BY DEF UpgradeHash, AInv, AccountsTypeOK
<1> QED
  BY <1>1, <1>2, <1>3 DEF LoginCurrent, UnderWay, IsOpen, EndingAll, EndingOthers

\* A revocation opens nothing and leaves what it does not end as it was.
LEMMA RevokeStep ==
  ASSUME AInv, NEW which, Revoke(which), UNCHANGED <<account, token, racing, undone>>,
         NEW k \in Logins \ racing,
         IsOpen(k) /\ k \notin which => (EndingAll => EndingAll') /\ (EndingOthers(k) => EndingOthers(k)')
  PROVE  LoginCurrent(k)'
<1>1. LoginCurrent(k)
  BY DEF AInv
<1>2. login'[k] = IF k \in which /\ IsOpen(k) THEN [login[k] EXCEPT !.stage = "revoked"] ELSE login[k]
  BY DEF Revoke
<1>3. CASE k \in which /\ IsOpen(k)
  <2>1. login'[k].stage = "revoked"
    BY <1>2, <1>3 DEF AInv, AccountsTypeOK
  <2> QED
    BY <2>1 DEF LoginCurrent, UnderWay, IsOpen
<1>4. CASE ~(k \in which /\ IsOpen(k))
  <2>1. login'[k] = login[k]
    BY <1>2, <1>4
  <2>2. IsOpen(k)' <=> IsOpen(k)
    BY <2>1 DEF IsOpen
  <2>3. CASE IsOpen(k)
    BY <1>1, <1>4, <2>1, <2>2, <2>3 DEF LoginCurrent, UnderWay
  <2>4. CASE ~IsOpen(k)
    BY <1>1, <2>1, <2>2, <2>4 DEF LoginCurrent, UnderWay
  <2> QED
    BY <2>3, <2>4
<1> QED
  BY <1>3, <1>4

LEMMA ChangeSteps ==
  ASSUME AInv, NEW c \in Changes,
         SavePassword(c) \/ RevokeOthers(c) \/ SaveRole(c) \/ RevokeAll(c)
  PROVE  \A k \in Logins \ racing' : LoginCurrent(k)'
<1> USE DEF AInv
<1>1. CASE SavePassword(c)
  <2> SUFFICES ASSUME NEW k \in Logins \ racing'
               PROVE  LoginCurrent(k)'
    OBVIOUS
  <2>1. k \in Logins \ racing /\ ~UnderWay(k)
    BY <1>1 DEF SavePassword
  <2>2. LoginCurrent(k)
    BY <2>1
  <2>3. /\ login'[k].stage = login[k].stage /\ token' = token
        /\ account'.role = account.role /\ account'.password = passwords + 1
        /\ k = change[c].by => login'[k].password = passwords + 1
        /\ \A d \in Changes \ {c} : change'[d] = change[d]
        /\ change[c].stage = "savingPassword"
        /\ change'[c].stage = "revokingOthers" /\ change'[c].by = change[c].by
    BY <1>1, <2>1 DEF SavePassword, AccountsTypeOK
  <2>4. EndingAll => EndingAll'
    BY <2>3 DEF EndingAll
  <2>5. k # change[c].by => EndingOthers(k)'
    BY <2>3 DEF EndingOthers
  <2> QED
    BY <2>1, <2>2, <2>3, <2>4, <2>5 DEF LoginCurrent, UnderWay, IsOpen
<1>2. CASE SaveRole(c)
  <2> SUFFICES ASSUME NEW k \in Logins \ racing'
               PROVE  LoginCurrent(k)'
    OBVIOUS
  <2>1. k \in Logins \ racing /\ ~UnderWay(k) /\ login' = login
    BY <1>2 DEF SaveRole
  <2>2. change'[c].stage = "revokingAll"
    BY <1>2 DEF SaveRole, AccountsTypeOK
  <2>3. EndingAll'
    BY <2>2 DEF EndingAll
  <2> QED
    BY <2>1, <2>3 DEF LoginCurrent, UnderWay, IsOpen
<1>3. CASE RevokeOthers(c)
  <2>1. /\ \A d \in Changes \ {c} : change'[d] = change[d]
        /\ change[c].stage = "revokingOthers"
    BY <1>3 DEF RevokeOthers, AccountsTypeOK
  <2>2. EndingAll => EndingAll'
    BY <2>1 DEF EndingAll
  <2>3. \A k \in Logins : k \notin Logins \ {change[c].by} => (EndingOthers(k) => EndingOthers(k)')
    BY <2>1 DEF EndingOthers
  <2> QED
    BY <1>3, <2>2, <2>3, RevokeStep DEF RevokeOthers
<1>4. CASE RevokeAll(c)
  BY <1>4, RevokeStep DEF RevokeAll
<1> QED
  BY <1>1, <1>2, <1>3, <1>4

LEMMA LoginsStayCurrent ==
  ASSUME AInv, [OneAccount]_accountVars
  PROVE  AInv'
<1>1. AccountsTypeOK' /\ RolesKnown'
  BY AccountsTypedStep, RolesKnownStep DEF AInv
<1>2. ASSUME NEW l \in Logins,
             CheckPassword(l) \/ UpgradeHash(l) \/ StartSession(l) \/ ReadForRefresh(l) \/ MintAccess(l)
      PROVE  \A k \in Logins \ racing' : LoginCurrent(k)'
  BY <1>2, LoginSteps, UpgradeHashStep
<1>3. ASSUME NEW which \in SUBSET Logins, EndLogins(which)
      PROVE  \A k \in Logins \ racing' : LoginCurrent(k)'
  <2>1. (EndingAll => EndingAll') /\ \A k \in Logins : EndingOthers(k) => EndingOthers(k)'
    BY <1>3 DEF EndLogins, EndingAll, EndingOthers
  <2> QED
    BY <1>3, <2>1, RevokeStep DEF EndLogins
<1>4. ASSUME UNCHANGED <<account, login, token, racing, undone>>,
             \A c \in Changes : change[c].stage # "idle" => change'[c] = change[c]
      PROVE  \A k \in Logins \ racing' : LoginCurrent(k)'
  <2>1. (EndingAll => EndingAll') /\ \A k \in Logins : EndingOthers(k) => EndingOthers(k)'
    BY <1>4 DEF EndingAll, EndingOthers
  <2> QED
    BY <1>4, <2>1 DEF AInv, LoginCurrent, UnderWay, IsOpen
<1>5. ASSUME NEW c \in Changes,
             \/ \E l \in Logins : AskNewPassword(c, l)
             \/ \E role \in UserRoles : AskNewRole(c, role)
      PROVE  \A k \in Logins \ racing' : LoginCurrent(k)'
  BY <1>4, <1>5 DEF AskNewPassword, AskNewRole, AInv, AccountsTypeOK
<1>6. ASSUME NEW c \in Changes, SavePassword(c) \/ RevokeOthers(c) \/ SaveRole(c) \/ RevokeAll(c)
      PROVE  \A k \in Logins \ racing' : LoginCurrent(k)'
  BY <1>6, ChangeSteps
<1>7. ASSUME UNCHANGED accountVars
      PROVE  \A k \in Logins \ racing' : LoginCurrent(k)'
  BY <1>4, <1>7 DEF accountVars
<1> QED
  BY <1>1, <1>2, <1>3, <1>5, <1>6, <1>7 DEF AInv, OneAccount

LEMMA LoginsBegin == AccountsInit => AInv
<1> SUFFICES ASSUME AccountsInit PROVE AInv
  OBVIOUS
<1>1. \A l \in Logins : LoginCurrent(l)
  BY DEF AccountsInit, NoLogin, LoginCurrent, UnderWay, IsOpen
<1>2. RolesKnown
  BY DEF AccountsInit, NoChange, RolesKnown
<1> QED
  BY <1>1, <1>2, AccountsTypedInit DEF AInv

LEMMA LoginsImply == AInv => StaleLoginsEnd
  BY DEF AInv, LoginCurrent, StaleLoginsEnd, EndingAll, EndingOthers

\* The types of the account, its logins, tokens and changes are kept (auth.controller.ts).
THEOREM AccountsTyped == AccountsSpec => []AccountsTypeOK
<1>1. AInv => AccountsTypeOK
  BY DEF AInv
<1> QED
  BY LoginsBegin, LoginsStayCurrent, <1>1, PTL DEF AccountsSpec

\* Once the changes of password and role under way are through, no login opened before
\* one of them is left, for any number of logins and changes that cross each other; all
\* but the logins that were being opened or renewed just then (changePassword,
\* updateUserRole).
THEOREM StaleLoginsHaveEnded == AccountsSpec => []StaleLoginsEnd
  BY LoginsBegin, LoginsStayCurrent, LoginsImply, PTL DEF AccountsSpec

-----------------------------------------------------------------------------
(* E-mail: the inductive invariant *)

\* Links are mailed for the account's addresses, and a click follows a mailed one.
LinkTyped(e) == e.link \in 1..MaxLinks /\ e.address \in Addresses

EInv ==
  /\ EmailTypeOK
  /\ \A s \in Senders : /\ sender[s].stage # "idle" => sender[s].address \in Addresses
                        /\ sender[s].stage = "mailing" => LinkTyped(sender[s])
  /\ \A c \in Clickers : clicker[c].stage # "idle" =>
       /\ LinkTyped(clicker[c])
       /\ clicker[c].address \in proved
       /\ clicker[c].stage = "saving" => clicker[c].address = email \/ outrun
  /\ VerifiedWasProved

SenderType == [stage : {"idle", "deleting", "creating", "mailing"},
               address : Addresses \cup {None}, link : 0..MaxLinks]
ClickerType == [stage : {"idle", "found", "saving", "spending"},
                address : Addresses \cup {None}, link : 0..MaxLinks]

LEMMA LinksBegin == EmailInit => EInv
<1> SUFFICES ASSUME EmailInit PROVE EInv
  OBVIOUS
<1>1. AtRest \in SenderType /\ AtRest \in ClickerType /\ AtRest.stage = "idle"
  BY EmailLinksAssumption DEF AtRest, SenderType, ClickerType
<1>2. sender \in [Senders -> SenderType] /\ clicker \in [Clickers -> ClickerType]
  BY <1>1 DEF EmailInit
<1>3. links \in 0..MaxLinks /\ moves \in 0..MaxMoves
  BY EmailLinksAssumption DEF EmailInit
<1>4. /\ email \in Addresses /\ verified = FALSE /\ record = {} /\ cooling = FALSE /\ mailed = {}
      /\ proved = {} /\ outrun = FALSE /\ mover = [m \in Movers |-> None]
  BY DEF EmailInit
<1>5. EmailTypeOK
  BY <1>2, <1>3, <1>4 DEF EmailTypeOK, SenderType, ClickerType
<1> QED
  BY <1>1, <1>4, <1>5 DEF EmailInit, EInv, VerifiedWasProved

-----------------------------------------------------------------------------
(* E-mail: the steps *)

\* A step of one sender keeps the invariant if its own record does.
LEMMA SenderStep ==
  ASSUME EInv, NEW s \in Senders,
         Issue(s) \/ DeleteOlder(s) \/ CreateLink(s) \/ MailLink(s) \/ MailFails(s)
  PROVE  EInv'
<1> USE EmailLinksAssumption DEF EInv
<1>0. /\ sender \in [Senders -> SenderType] /\ sender[s] \in SenderType
      /\ links \in 0..MaxLinks /\ email \in Addresses
      /\ record \subseteq [link : 1..MaxLinks, address : Addresses]
      /\ mailed \subseteq [link : 1..MaxLinks, address : Addresses]
  BY DEF EmailTypeOK, SenderType
<1>a. AtRest \in SenderType /\ AtRest.stage = "idle"
  BY DEF AtRest, SenderType
<1>1. /\ clicker' = clicker /\ email' = email /\ verified' = verified /\ proved' = proved
      /\ outrun' = outrun /\ moves' = moves /\ mover' = mover
  BY DEF Issue, DeleteOlder, CreateLink, MailLink, MailFails
<1>2. /\ sender' \in [Senders -> SenderType]
      /\ \A r \in Senders \ {s} : sender'[r] = sender[r]
      /\ sender'[s].stage # "idle" => sender'[s].address \in Addresses
      /\ sender'[s].stage = "mailing" => LinkTyped(sender'[s])
      /\ links' \in 0..MaxLinks /\ cooling' \in BOOLEAN
      /\ record' \subseteq [link : 1..MaxLinks, address : Addresses]
      /\ mailed' \subseteq [link : 1..MaxLinks, address : Addresses]
  <2>1. CASE Issue(s)
    <3> DEFINE next == [stage |-> "deleting", address |-> email, link |-> 0]
    <3>1. next \in SenderType
      BY <1>0 DEF SenderType
    <3>2. sender' = [sender EXCEPT ![s] = next] /\ UNCHANGED <<links, cooling, record, mailed>>
      BY <2>1 DEF Issue
    <3> QED
      BY <1>0, <3>1, <3>2 DEF EmailTypeOK
  <2>2. CASE DeleteOlder(s)
    <3>1. [sender[s] EXCEPT !.stage = "creating"] \in SenderType
      BY <1>0 DEF SenderType
    <3>2. /\ sender' = [sender EXCEPT ![s] = [sender[s] EXCEPT !.stage = "creating"]]
          /\ sender[s].stage = "deleting"
          /\ record' = {} /\ UNCHANGED <<links, cooling, mailed>>
      BY <2>2 DEF DeleteOlder
    <3>3. sender'[s].address = sender[s].address /\ sender'[s].stage = "creating"
      BY <1>0, <3>2 DEF SenderType
    <3> QED
      BY <1>0, <3>1, <3>2, <3>3 DEF EmailTypeOK
  <2>3. CASE CreateLink(s)
    <3>1. links + 1 \in 1..MaxLinks /\ sender[s].address \in Addresses
      BY <1>0, <2>3 DEF CreateLink
    <3>2. [sender[s] EXCEPT !.stage = "mailing", !.link = links + 1] \in SenderType
      <4>1. links + 1 \in 0..MaxLinks
        BY <3>1
      <4> QED
        BY <1>0, <4>1 DEF SenderType
    <3>3. /\ sender' = [sender EXCEPT ![s] =
               [sender[s] EXCEPT !.stage = "mailing", !.link = links + 1]]
          /\ links' = links + 1 /\ cooling' = TRUE /\ mailed' = mailed
          /\ record' = record \cup {[link |-> links + 1, address |-> sender[s].address]}
      BY <2>3 DEF CreateLink
    <3>4. /\ sender'[s].address = sender[s].address /\ sender'[s].link = links + 1
      BY <1>0, <3>3 DEF SenderType
    <3> QED
      BY <1>0, <3>1, <3>2, <3>3, <3>4 DEF LinkTyped
  <2>4. CASE MailLink(s)
    <3>1. LinkTyped(sender[s])
      BY <2>4 DEF MailLink
    <3>2. /\ sender' = [sender EXCEPT ![s] = AtRest] /\ UNCHANGED <<links, cooling, record>>
          /\ mailed' = mailed \cup {[link |-> sender[s].link, address |-> sender[s].address]}
      BY <2>4 DEF MailLink
    <3> QED
      BY <1>0, <1>a, <3>1, <3>2 DEF LinkTyped, EmailTypeOK
  <2>5. CASE MailFails(s)
    BY <1>0, <1>a, <2>5 DEF MailFails, EmailTypeOK
  <2> QED
    BY <2>1, <2>2, <2>3, <2>4, <2>5
<1>3. EmailTypeOK'
  BY <1>1, <1>2 DEF EmailTypeOK, SenderType
<1>4. \A r \in Senders : /\ sender'[r].stage # "idle" => sender'[r].address \in Addresses
                         /\ sender'[r].stage = "mailing" => LinkTyped(sender'[r])
  BY <1>2
<1> QED
  BY <1>1, <1>3, <1>4 DEF VerifiedWasProved

LEMMA ClickerStep ==
  ASSUME EInv, NEW c \in Clickers,
         (\E r \in mailed : FindRecord(c, r)) \/ ReadAccount(c) \/ SaveVerified(c) \/ SpendLink(c)
  PROVE  EInv'
<1> USE EmailLinksAssumption DEF EInv
<1>0. /\ clicker \in [Clickers -> ClickerType] /\ clicker[c] \in ClickerType
      /\ record \subseteq [link : 1..MaxLinks, address : Addresses]
      /\ proved \subseteq Addresses /\ verified \in BOOLEAN
  BY DEF EmailTypeOK, ClickerType
<1>a. AtRest \in ClickerType /\ AtRest.stage = "idle"
  BY DEF AtRest, ClickerType
<1>1. /\ sender' = sender /\ email' = email /\ links' = links /\ cooling' = cooling
      /\ mailed' = mailed /\ outrun' = outrun /\ moves' = moves /\ mover' = mover
      /\ proved \subseteq proved'
  BY DEF FindRecord, ReadAccount, SaveVerified, SpendLink
<1>2. /\ clicker' \in [Clickers -> ClickerType]
      /\ \A d \in Clickers \ {c} : clicker'[d] = clicker[d]
      /\ clicker'[c].stage # "idle" =>
           /\ LinkTyped(clicker'[c])
           /\ clicker'[c].address \in proved'
           /\ clicker'[c].stage = "saving" => clicker'[c].address = email \/ outrun
      /\ record' \subseteq record /\ proved' \subseteq Addresses /\ verified' \in BOOLEAN
      /\ verified' => email \in proved' \/ outrun
  <2>1. CASE \E r \in mailed : FindRecord(c, r)
    <3>0. PICK r \in mailed : FindRecord(c, r)
      BY <2>1
    <3> DEFINE next == [stage |-> "found", address |-> r.address, link |-> r.link]
    <3>1. r.link \in 1..MaxLinks /\ r.address \in Addresses
      BY DEF EmailTypeOK
    <3>2. next \in ClickerType
      BY <3>1 DEF ClickerType
    <3>3. /\ clicker' = [clicker EXCEPT ![c] = next] /\ UNCHANGED <<record, verified>>
          /\ proved' = proved \cup {r.address}
      BY <3>0 DEF FindRecord
    <3> QED
      BY <1>0, <3>1, <3>2, <3>3 DEF LinkTyped, VerifiedWasProved
  <2>2. CASE ReadAccount(c)
    <3> DEFINE st == IF clicker[c].address = email /\ ~verified THEN "saving" ELSE "spending"
    <3>1. [clicker[c] EXCEPT !.stage = st] \in ClickerType
      BY <1>0 DEF ClickerType
    <3>2. /\ clicker' = [clicker EXCEPT ![c] = [clicker[c] EXCEPT !.stage = st]]
          /\ clicker[c].stage = "found" /\ UNCHANGED <<record, verified, proved>>
      BY <2>2 DEF ReadAccount
    <3>3. /\ clicker'[c].stage = st /\ clicker'[c].address = clicker[c].address
          /\ clicker'[c].link = clicker[c].link
      BY <1>0, <3>2 DEF ClickerType
    <3> QED
      BY <1>0, <3>1, <3>2, <3>3 DEF LinkTyped, VerifiedWasProved
  <2>3. CASE SaveVerified(c)
    <3>1. [clicker[c] EXCEPT !.stage = "spending"] \in ClickerType
      BY <1>0 DEF ClickerType
    <3>2. /\ clicker' = [clicker EXCEPT ![c] = [clicker[c] EXCEPT !.stage = "spending"]]
          /\ clicker[c].stage = "saving" /\ UNCHANGED <<record, proved>> /\ verified' = TRUE
      BY <2>3 DEF SaveVerified
    <3>3. /\ clicker'[c].stage = "spending" /\ clicker'[c].address = clicker[c].address
          /\ clicker'[c].link = clicker[c].link
      BY <1>0, <3>2 DEF ClickerType
    <3> QED
      BY <1>0, <3>1, <3>2, <3>3 DEF LinkTyped
  <2>4. CASE SpendLink(c)
    <3>1. /\ clicker' = [clicker EXCEPT ![c] = AtRest] /\ UNCHANGED <<verified, proved>>
          /\ record' \subseteq record
      BY <2>4 DEF SpendLink
    <3> QED
      BY <1>0, <1>a, <3>1 DEF VerifiedWasProved
  <2> QED
    BY <2>1, <2>2, <2>3, <2>4
<1>3. EmailTypeOK'
  BY <1>0, <1>1, <1>2 DEF EmailTypeOK, ClickerType
<1>4. \A d \in Clickers : clicker'[d].stage # "idle" =>
        /\ LinkTyped(clicker'[d])
        /\ clicker'[d].address \in proved'
        /\ clicker'[d].stage = "saving" => clicker'[d].address = email \/ outrun
  BY <1>1, <1>2
<1> QED
  BY <1>1, <1>2, <1>3, <1>4 DEF VerifiedWasProved

\* Everything else that happens to an address and its links.
LEMMA AddressStep ==
  ASSUME EInv,
         \/ WaitIsOver
         \/ \E r \in record : ExpireLink(r)
         \/ \E m \in Movers : (\E a \in Addresses : ReadForChange(m, a)) \/ ChangeEmail(m)
  PROVE  EInv'
<1> USE EmailLinksAssumption DEF EInv, VerifiedWasProved
<1>1. CASE WaitIsOver
  BY <1>1 DEF WaitIsOver, EmailTypeOK
<1>2. ASSUME NEW r \in record, ExpireLink(r)
      PROVE  EInv'
  BY <1>2 DEF ExpireLink, EmailTypeOK
<1>3. ASSUME NEW m \in Movers, NEW a \in Addresses, ReadForChange(m, a)
      PROVE  EInv'
  <2>1. /\ UNCHANGED <<email, verified, record, cooling, mailed, sender, clicker, links, proved, outrun>>
        /\ moves' = moves + 1 /\ moves < MaxMoves
        /\ mover' = [mover EXCEPT ![m] = [address |-> a, unsets |-> verified]]
    BY <1>3 DEF ReadForChange
  <2>2. moves' \in 0..MaxMoves
    BY <2>1 DEF EmailTypeOK
  <2>3. mover' \in [Movers -> [address : Addresses, unsets : BOOLEAN] \cup {None}]
    BY <2>1 DEF EmailTypeOK
  <2>4. EmailTypeOK'
    BY <2>1, <2>2, <2>3 DEF EmailTypeOK
  <2> QED
    BY <2>1, <2>4
<1>4. ASSUME NEW m \in Movers, ChangeEmail(m)
      PROVE  EInv'
  <2>1. /\ UNCHANGED <<record, cooling, mailed, sender, clicker, links, moves, proved>>
        /\ mover' = [mover EXCEPT ![m] = None]
        /\ mover[m] \in [address : Addresses, unsets : BOOLEAN] /\ email' = mover[m].address
        /\ verified' = (verified /\ ~mover[m].unsets)
        /\ outrun' = (outrun \/ verified' \/ \E c \in Clickers : clicker[c].stage = "saving")
    BY <1>4 DEF ChangeEmail, EmailTypeOK
  <2>2. mover' \in [Movers -> [address : Addresses, unsets : BOOLEAN] \cup {None}]
    BY <2>1 DEF EmailTypeOK
  <2>3. email' \in Addresses /\ verified' \in BOOLEAN /\ outrun' \in BOOLEAN
    BY <2>1 DEF EmailTypeOK
  <2>4. EmailTypeOK'
    BY <2>1, <2>2, <2>3 DEF EmailTypeOK
  <2>5. (verified' => outrun') /\ \A c \in Clickers : clicker[c].stage = "saving" => outrun'
    BY <2>1
  <2> QED
    BY <2>1, <2>4, <2>5
<1> QED
  BY <1>1, <1>2, <1>3, <1>4

LEMMA LinksStep == EInv /\ [OneAddress]_emailVars => EInv'
<1> SUFFICES ASSUME EInv, [OneAddress]_emailVars PROVE EInv'
  OBVIOUS
<1>1. CASE UNCHANGED emailVars
  BY <1>1 DEF emailVars, EInv, EmailTypeOK, VerifiedWasProved, LinkTyped
<1>2. CASE OneAddress
  BY <1>2, SenderStep, ClickerStep, AddressStep DEF OneAddress
<1> QED
  BY <1>1, <1>2

\* The types of the address, its links and the requests on them are kept
\* (services/emailVerification.ts).
THEOREM EmailTyped == EmailSpec => []EmailTypeOK
<1>1. EInv => EmailTypeOK
  BY DEF EInv
<1> QED
  BY LinksBegin, LinksStep, <1>1, PTL DEF EmailSpec

\* A verified address is one whose own link was followed, for any number of addresses,
\* links, clicks and changes of address that cross; unless a click and a change had both
\* read the account before either saved it (consumeVerification, changeEmail).
THEOREM VerifiedIsProved == EmailSpec => []VerifiedWasProved
<1>1. EInv => VerifiedWasProved
  BY DEF EInv
<1> QED
  BY LinksBegin, LinksStep, <1>1, PTL DEF EmailSpec

-----------------------------------------------------------------------------
(* Verification: the inductive invariant *)

DeskStages == {"idle", "editing", "asking", "screening", "submitting", "opening", "showing",
           "deciding", "granting"}
Desk == [stage : DeskStages, on : Submissions \cup {None}, badge : Badges, profile : 0..MaxProfileEdits,
         verdict : {"APPROVED", "REJECTED"}]
Submission == [status : Badges, profile : 0..MaxProfileEdits]

NoneOpen == \A s \in Submissions : ~OpenSubmission(s)

\* What a handler is about is there.
DesksFilled ==
  /\ latest # None => submission[latest] # None
  /\ \A d \in Desks :
       /\ desk[d].stage \in {"opening", "showing", "deciding", "granting"} =>
            desk[d].on \in Submissions /\ submission[desk[d].on] # None
       /\ desk[d].stage = "editing" => desk[d].profile < MaxProfileEdits

\* A submission is alone, and a decision meets edits at most.
Apart ==
  \A d, e \in Desks : d # e =>
    /\ desk[d].stage \in Submitting => desk[e].stage = "idle"
    /\ desk[d].stage \in Deciding => desk[e].stage \in {"idle", "editing"}

\* The submission that is open is the last one, of the profile as it is.
OpenIsLatest ==
  /\ latest = None => badge = "PENDING_VERIFICATION"
  /\ \A s \in Submissions : OpenSubmission(s) => s = latest /\ profile = submission[s].profile

\* Unless a handler is between its two saves, the badge is the last submission's status.
Agrees ==
  (latest # None /\ \A d \in Desks : desk[d].stage \notin {"submitting", "showing", "granting"}) =>
    badge = submission[latest].status

\* What a handler finds at each of its stages.
Finds(d) ==
  /\ desk[d].stage = "editing" => NoneOpen
  /\ desk[d].stage \in Submitting => desk[d].badge = badge /\ desk[d].profile = profile
  /\ desk[d].stage = "screening" => NoneOpen
  /\ desk[d].stage = "submitting" =>
       latest # None /\ submission[latest].status = "DOCUMENTS_SUBMITTED"
  /\ desk[d].stage \in {"opening", "showing", "deciding"} =>
       desk[d].on = latest /\ OpenSubmission(latest) /\ badge \in OpenStatus
  /\ desk[d].stage \in {"opening", "showing"} => desk[d].badge = "DOCUMENTS_SUBMITTED"
  /\ desk[d].stage = "showing" => submission[latest].status = "UNDER_REVIEW"
  /\ desk[d].stage \in Deciding => desk[d].badge = badge
  /\ desk[d].stage = "granting" =>
       /\ latest # None /\ badge \in OpenStatus
       /\ submission[latest].status = desk[d].verdict

Ordered == Apart /\ OpenIsLatest /\ Agrees /\ \A d \in Desks : Finds(d)

VInv == VerificationTypeOK /\ DesksFilled /\ (~disordered => Ordered)

OnlyDesk(d, x) == x \in Desk /\ desk' = [desk EXCEPT ![d] = x]

LEMMA NoDeskIsOne == NoDesk \in Desk /\ NoDesk.stage = "idle"
BY VerificationAssumption DEF NoDesk, Desk, DeskStages, Badges

LEMMA DeskStepped ==
  ASSUME VerificationTypeOK, NEW d \in Desks, NEW x, OnlyDesk(d, x)
  PROVE  /\ desk \in [Desks -> Desk] /\ desk' \in [Desks -> Desk] /\ desk'[d] = x
         /\ \A e \in Desks \ {d} : desk'[e] = desk[e]
BY DEF OnlyDesk, VerificationTypeOK, Desk, DeskStages

LEMMA DeskMoved ==
  ASSUME VerificationTypeOK, NEW d \in Desks,
         NEW stage \in {"screening", "submitting", "showing", "granting"}, DeskMoves(d, stage)
  PROVE  \E x \in Desk : /\ OnlyDesk(d, x) /\ x.stage = stage /\ x.on = desk[d].on
                         /\ x.badge = desk[d].badge /\ x.profile = desk[d].profile
                         /\ x.verdict = desk[d].verdict
<1> DEFINE x == [desk[d] EXCEPT !.stage = stage]
<1>1. desk[d] \in Desk
  BY DEF VerificationTypeOK, Desk, DeskStages
<1>2. /\ x \in Desk /\ x.stage = stage /\ x.on = desk[d].on /\ x.badge = desk[d].badge
      /\ x.profile = desk[d].profile /\ x.verdict = desk[d].verdict
  BY <1>1 DEF Desk, DeskStages
<1>3. OnlyDesk(d, x)
  BY <1>2 DEF DeskMoves, OnlyDesk
<1> QED
  BY <1>2, <1>3

LEMMA VerificationBegins == VerificationInit => VInv
<1> SUFFICES ASSUME VerificationInit PROVE VInv
  OBVIOUS
<1>1. desk \in [Desks -> Desk] /\ \A d \in Desks : desk[d].stage = "idle"
  BY NoDeskIsOne DEF VerificationInit
<1>2. VerificationTypeOK
  <2>1. badge \in Badges /\ profile \in 0..MaxProfileEdits /\ disordered \in BOOLEAN
    <3>1. profile \in 0..MaxProfileEdits
      BY VerificationAssumption DEF VerificationInit
    <3> QED
      BY <3>1 DEF VerificationInit, Badges
  <2>2. submission \in [Submissions -> Submission \cup {None}] /\ latest \in Submissions \cup {None}
    BY DEF VerificationInit
  <2> QED
    BY <1>1, <2>1, <2>2 DEF VerificationTypeOK, Desk, DeskStages, Submission
<1>3. DesksFilled
  BY <1>1 DEF VerificationInit, DesksFilled
<1>4. Ordered
  BY <1>1 DEF VerificationInit, Ordered, Apart, OpenIsLatest, Agrees, Finds, OpenSubmission,
     Submitting, Deciding
<1> QED
  BY <1>2, <1>3, <1>4 DEF VInv

\* A handler begins: it finds what the others, which it does not cross, have left.
LEMMA DeskOpens ==
  ASSUME VInv, NEW d \in Desks, NEW stage \in {"editing", "asking", "opening", "deciding"},
         NEW on \in Submissions \cup {None}, NEW verdict \in {"APPROVED", "REJECTED"},
         DeskBegins(d, stage, on, verdict), UNCHANGED <<badge, profile, submission, latest>>,
         stage = "editing" => badge \notin OpenStatus /\ profile < MaxProfileEdits,
         stage = "opening" => /\ on \in Submissions /\ submission[on] # None
                              /\ submission[on].status = "DOCUMENTS_SUBMITTED",
         stage = "deciding" => on \in Submissions /\ OpenSubmission(on)
  PROVE  VInv'
<1> DEFINE x == [stage |-> stage, on |-> on, badge |-> badge, profile |-> profile,
                 verdict |-> verdict]
<1>1. /\ OnlyDesk(d, x) /\ desk[d].stage = "idle"
      /\ disordered' \in BOOLEAN /\ (disordered => disordered')
      /\ ~disordered' => ~Crosses(d, stage)
  BY DEF DeskBegins, AtDesk, OnlyDesk, Desk, DeskStages, VInv, VerificationTypeOK
<1>2. x.stage = stage /\ x.on = on /\ x.badge = badge /\ x.profile = profile
  OBVIOUS
<1> HIDE DEF x
<1>3. /\ desk' \in [Desks -> Desk] /\ desk'[d] = x
      /\ \A e \in Desks \ {d} : desk'[e] = desk[e]
  BY <1>1, DeskStepped DEF VInv
<1>4. VerificationTypeOK'
  BY <1>1, <1>3 DEF VInv, VerificationTypeOK, Desk, DeskStages
<1>5. DesksFilled'
  BY <1>2, <1>3 DEF VInv, DesksFilled, OpenSubmission
<1>6. ASSUME ~disordered' PROVE Ordered'
  <2>1. Ordered /\ VerificationTypeOK
    BY <1>1, <1>6 DEF VInv
  <2>2. \A e \in Desks \ {d} : desk[e].stage # "idle" =>
          /\ stage \notin Submitting /\ desk[e].stage \notin Submitting
          /\ stage \in Deciding \/ desk[e].stage \in Deciding =>
               stage = "editing" \/ desk[e].stage = "editing"
    BY <1>1, <1>6 DEF Crosses, AtDesk
  <2>3. Apart'
    BY <1>1, <1>2, <1>3, <2>1, <2>2 DEF Ordered, Apart, Submitting, Deciding
  <2>4. \A e \in Desks : desk[e].stage \notin {"submitting", "showing", "granting"}
    <3>1. \A e \in Desks \ {d} : desk[e].stage # "submitting"
      BY <2>2 DEF Submitting
    <3>2. \A e \in Desks : desk[e].stage = "granting" => badge \in OpenStatus /\ stage = "editing"
      BY <1>1, <2>1, <2>2 DEF Ordered, Finds, Deciding
    <3>3. \A e \in Desks : desk[e].stage = "showing" =>
            badge \in OpenStatus /\ submission[latest].status = "UNDER_REVIEW"
            /\ stage \notin {"asking", "deciding"}
      BY <1>1, <2>1, <2>2 DEF Ordered, Finds, Submitting, Deciding
    <3>4. stage = "opening" => on = latest
      BY <2>1 DEF Ordered, OpenIsLatest, OpenSubmission, OpenStatus
    <3> QED
      BY <1>1, <3>1, <3>2, <3>3, <3>4
  <2>5. latest # None => badge = submission[latest].status
    BY <2>1, <2>4 DEF Ordered, Agrees
  <2>6. OpenIsLatest' /\ Agrees'
    BY <2>1, <2>5 DEF Ordered, OpenIsLatest, Agrees, OpenSubmission
  <2>7. Finds(d)'
    <3>1. \A s \in Submissions : OpenSubmission(s) => s = latest /\ badge \in OpenStatus
      BY <2>1, <2>5, VerificationAssumption DEF Ordered, OpenIsLatest, OpenSubmission
    <3>2. CASE stage = "editing"
      BY <1>2, <1>3, <3>1, <3>2 DEF Finds, NoneOpen, OpenSubmission, Submitting, Deciding
    <3>3. CASE stage = "asking"
      BY <1>2, <1>3, <3>3 DEF Finds, Submitting, Deciding
    <3>4. CASE stage = "opening"
      <4>1. OpenSubmission(on) /\ on \in Submissions
        BY <3>4 DEF OpenSubmission, OpenStatus
      <4>2. on = latest /\ badge = "DOCUMENTS_SUBMITTED"
        BY <2>5, <3>1, <3>4, <4>1, VerificationAssumption
      <4> QED
        BY <1>2, <1>3, <3>4, <4>1, <4>2
           DEF Finds, OpenSubmission, OpenStatus, Submitting, Deciding
    <3>5. CASE stage = "deciding"
      BY <1>2, <1>3, <3>1, <3>5 DEF Finds, OpenSubmission, Submitting, Deciding
    <3> QED
      BY <3>2, <3>3, <3>4, <3>5
  <2>8. ASSUME NEW e \in Desks \ {d} PROVE Finds(e)'
    <3>1. desk'[e] = desk[e] /\ Finds(e)
      BY <1>3, <2>1, <2>8 DEF Ordered
    <3> QED
      BY <3>1 DEF Finds, NoneOpen, OpenSubmission
  <2> QED
    BY <2>3, <2>6, <2>7, <2>8 DEF Ordered
<1> QED
  BY <1>4, <1>5, <1>6 DEF VInv

LEMMA SavesProfile ==
  ASSUME VInv, NEW d \in Desks, SaveProfile(d)
  PROVE  VInv'
<1>1. /\ OnlyDesk(d, NoDesk) /\ desk[d].stage = "editing" /\ profile' = desk[d].profile + 1
      /\ UNCHANGED <<badge, submission, latest, disordered>>
  BY NoDeskIsOne DEF SaveProfile, AtDesk, DeskEnds, OnlyDesk
<1>2. /\ desk \in [Desks -> Desk] /\ desk' \in [Desks -> Desk] /\ desk'[d] = NoDesk
      /\ \A e \in Desks \ {d} : desk'[e] = desk[e]
  BY <1>1, DeskStepped DEF VInv
<1>3. profile' \in 0..MaxProfileEdits
  <2>1. desk[d].profile \in 0..MaxProfileEdits /\ desk[d].profile < MaxProfileEdits
    BY <1>1, <1>2 DEF VInv, DesksFilled, Desk
  <2> QED
    BY <1>1, <2>1, VerificationAssumption
<1>4. VerificationTypeOK'
  BY <1>1, <1>2, <1>3 DEF VInv, VerificationTypeOK, Desk, DeskStages
<1>5. DesksFilled'
  BY <1>1, <1>2, NoDeskIsOne DEF VInv, DesksFilled
<1>6. ASSUME ~disordered' PROVE Ordered'
  <2>1. Ordered
    BY <1>1, <1>6 DEF VInv
  <2>2. NoneOpen
    BY <1>1, <2>1 DEF Ordered, Finds
  <2>3. NoneOpen'
    BY <1>1, <2>2 DEF NoneOpen, OpenSubmission
  <2>4. Apart'
    BY <1>1, <1>2, <2>1, NoDeskIsOne DEF Ordered, Apart, Submitting, Deciding
  <2>5. OpenIsLatest'
    BY <1>1, <2>1, <2>3 DEF Ordered, OpenIsLatest, NoneOpen
  <2>6. Agrees'
    BY <1>1, <1>2, <2>1, NoDeskIsOne DEF Ordered, Agrees
  <2>7. ASSUME NEW e \in Desks PROVE Finds(e)'
    <3>1. CASE e = d
      BY <1>2, <3>1, NoDeskIsOne DEF Finds, Submitting, Deciding
    <3>2. CASE e # d
      <4>1. desk'[e] = desk[e] /\ Finds(e) /\ desk[e].stage \notin Submitting
        BY <1>1, <1>2, <2>1, <3>2 DEF Ordered, Apart
      <4> QED
        BY <1>1, <2>3, <4>1 DEF Finds, OpenSubmission, Submitting
    <3> QED BY <3>1, <3>2
  <2> QED
    BY <2>4, <2>5, <2>6, <2>7 DEF Ordered
<1> QED
  BY <1>4, <1>5, <1>6 DEF VInv

LEMMA AsksOpen ==
  ASSUME VInv, NEW d \in Desks, AskOpen(d)
  PROVE  VInv'
<1>1. /\ desk[d].stage = "asking"
      /\ UNCHANGED <<badge, profile, submission, latest, disordered>>
  BY DEF AskOpen, AtDesk
<1>2. PICK x \in Desk : /\ OnlyDesk(d, x)
                       /\ \/ x.stage = "idle"
                          \/ /\ x.stage = "screening" /\ NoneOpen
                             /\ x.badge = desk[d].badge /\ x.profile = desk[d].profile
  <2>1. CASE \E s \in Submissions : OpenSubmission(s)
    BY <2>1, NoDeskIsOne DEF AskOpen, DeskEnds, OnlyDesk
  <2>2. CASE ~\E s \in Submissions : OpenSubmission(s)
    BY <2>2, DeskMoved DEF AskOpen, NoneOpen, VInv
  <2> QED BY <2>1, <2>2
<1>3. /\ desk' \in [Desks -> Desk] /\ desk'[d] = x
      /\ \A e \in Desks \ {d} : desk'[e] = desk[e]
  BY <1>2, DeskStepped DEF VInv
<1>4. VerificationTypeOK'
  BY <1>1, <1>3 DEF VInv, VerificationTypeOK, Desk, DeskStages
<1>5. DesksFilled'
  BY <1>1, <1>2, <1>3 DEF VInv, DesksFilled
<1>6. ASSUME ~disordered' PROVE Ordered'
  <2>1. Ordered
    BY <1>1, <1>6 DEF VInv
  <2>2. \A e \in Desks \ {d} : desk[e].stage = "idle"
    BY <1>1, <2>1 DEF Ordered, Apart, Submitting
  <2>3. Apart'
    BY <1>2, <1>3, <2>2 DEF Apart, Submitting, Deciding
  <2>4. OpenIsLatest'
    BY <1>1, <2>1 DEF Ordered, OpenIsLatest, OpenSubmission
  <2>5. Agrees'
    BY <1>1, <1>3, <2>1, <2>2 DEF Ordered, Agrees
  <2>6. Finds(d)'
    <3>1. desk[d].badge = badge /\ desk[d].profile = profile
      BY <1>1, <2>1 DEF Ordered, Finds, Submitting
    <3>2. NoneOpen => NoneOpen'
      BY <1>1 DEF NoneOpen, OpenSubmission
    <3> QED
      BY <1>1, <1>2, <1>3, <3>1, <3>2 DEF Finds, Submitting, Deciding
  <2>7. ASSUME NEW e \in Desks \ {d} PROVE Finds(e)'
    BY <1>3, <2>2, <2>7 DEF Finds, Submitting, Deciding
  <2> QED
    BY <2>3, <2>4, <2>5, <2>6, <2>7 DEF Ordered
<1> QED
  BY <1>4, <1>5, <1>6 DEF VInv

LEMMA CreatesRequest ==
  ASSUME VInv, NEW d \in Desks, NEW s \in Submissions, CreateRequest(d, s)
  PROVE  VInv'
<1> DEFINE new == [status |-> "DOCUMENTS_SUBMITTED", profile |-> desk[d].profile]
<1>1. /\ desk[d].stage = "screening" /\ submission[s] = None
      /\ submission' = [submission EXCEPT ![s] = new] /\ latest' = s
      /\ UNCHANGED <<badge, profile, disordered>>
  BY DEF CreateRequest, AtDesk
<1>2. PICK x \in Desk : /\ OnlyDesk(d, x) /\ x.stage = "submitting"
                       /\ x.badge = desk[d].badge /\ x.profile = desk[d].profile
  BY DeskMoved DEF CreateRequest, VInv
<1>3. /\ desk \in [Desks -> Desk] /\ desk' \in [Desks -> Desk] /\ desk'[d] = x
      /\ \A e \in Desks \ {d} : desk'[e] = desk[e]
  BY <1>2, DeskStepped DEF VInv
<1>4. /\ new \in Submission /\ new.status = "DOCUMENTS_SUBMITTED" /\ new.profile = desk[d].profile
  BY <1>3 DEF Desk, Submission, Badges
<1> HIDE DEF new
<1>5. /\ submission' \in [Submissions -> Submission \cup {None}]
      /\ submission'[s] = new /\ new # None
      /\ \A t \in Submissions \ {s} : submission'[t] = submission[t]
  BY <1>1, <1>4, VerificationAssumption DEF VInv, VerificationTypeOK, Submission
<1>6. VerificationTypeOK'
  BY <1>1, <1>3, <1>5 DEF VInv, VerificationTypeOK, Desk, DeskStages, Submission
<1>7. DesksFilled'
  BY <1>1, <1>2, <1>3, <1>5 DEF VInv, DesksFilled
<1>8. ASSUME ~disordered' PROVE Ordered'
  <2>1. Ordered
    BY <1>1, <1>8 DEF VInv
  <2>2. \A e \in Desks \ {d} : desk[e].stage = "idle"
    BY <1>1, <2>1 DEF Ordered, Apart, Submitting
  <2>3. NoneOpen /\ desk[d].badge = badge /\ desk[d].profile = profile
    BY <1>1, <2>1 DEF Ordered, Finds, Submitting
  <2>4. Apart'
    BY <1>2, <1>3, <2>2 DEF Apart, Submitting, Deciding
  <2>5. OpenIsLatest'
    BY <1>1, <1>4, <1>5, <2>3, VerificationAssumption DEF OpenIsLatest, OpenSubmission, NoneOpen
  <2>6. Agrees'
    BY <1>2, <1>3 DEF Agrees
  <2>7. Finds(d)'
    BY <1>1, <1>2, <1>3, <1>4, <1>5, <2>3, VerificationAssumption DEF Finds, Submitting, Deciding
  <2>8. ASSUME NEW e \in Desks \ {d} PROVE Finds(e)'
    BY <1>3, <2>2, <2>8 DEF Finds, Submitting, Deciding
  <2> QED
    BY <2>4, <2>5, <2>6, <2>7, <2>8 DEF Ordered
<1> QED
  BY <1>6, <1>7, <1>8 DEF VInv

LEMMA SavesSubmitted ==
  ASSUME VInv, NEW d \in Desks, SaveSubmitted(d)
  PROVE  VInv'
<1>1. /\ OnlyDesk(d, NoDesk) /\ desk[d].stage = "submitting"
      /\ badge' = IF desk[d].badge # "DOCUMENTS_SUBMITTED" THEN "DOCUMENTS_SUBMITTED" ELSE badge
      /\ profile' = desk[d].profile /\ UNCHANGED <<submission, latest, disordered>>
  BY NoDeskIsOne DEF SaveSubmitted, AtDesk, DeskEnds, OnlyDesk, SaveBadge
<1>2. /\ desk \in [Desks -> Desk] /\ desk' \in [Desks -> Desk] /\ desk'[d] = NoDesk
      /\ \A e \in Desks \ {d} : desk'[e] = desk[e]
  BY <1>1, DeskStepped DEF VInv
<1>3. badge' \in Badges /\ profile' \in 0..MaxProfileEdits
  BY <1>1, <1>2 DEF VInv, VerificationTypeOK, Desk, Badges
<1>4. VerificationTypeOK'
  BY <1>1, <1>2, <1>3 DEF VInv, VerificationTypeOK, Desk, DeskStages
<1>5. DesksFilled'
  BY <1>1, <1>2, NoDeskIsOne DEF VInv, DesksFilled
<1>6. ASSUME ~disordered' PROVE Ordered'
  <2>1. Ordered
    BY <1>1, <1>6 DEF VInv
  <2>2. \A e \in Desks : desk'[e].stage = "idle"
    BY <1>1, <1>2, <2>1, NoDeskIsOne DEF Ordered, Apart, Submitting
  <2>3. /\ desk[d].badge = badge /\ desk[d].profile = profile
        /\ latest # None /\ submission[latest].status = "DOCUMENTS_SUBMITTED"
    BY <1>1, <2>1 DEF Ordered, Finds, Submitting
  <2>4. badge' = "DOCUMENTS_SUBMITTED" /\ profile' = profile
    BY <1>1, <2>3
  <2>5. Apart' /\ \A e \in Desks : Finds(e)'
    BY <2>2 DEF Apart, Finds, Submitting, Deciding
  <2>6. OpenIsLatest' /\ Agrees'
    BY <1>1, <2>1, <2>3, <2>4 DEF Ordered, OpenIsLatest, Agrees, OpenSubmission
  <2> QED
    BY <2>5, <2>6 DEF Ordered
<1> QED
  BY <1>4, <1>5, <1>6 DEF VInv

\* What saving the status of submission s does to the submissions.
LEMMA SubmissionSaved ==
  ASSUME VerificationTypeOK, NEW s \in Submissions, submission[s] # None,
         NEW status \in Badges, SetSubmission(s, status)
  PROVE  /\ submission' \in [Submissions -> Submission \cup {None}]
         /\ submission'[s] # None /\ submission'[s].status = status
         /\ submission'[s].profile = submission[s].profile
         /\ \A t \in Submissions \ {s} : submission'[t] = submission[t]
<1>1. submission[s] \in Submission /\ submission \in [Submissions -> Submission \cup {None}]
  BY DEF VerificationTypeOK, Submission
<1>2. /\ [submission[s] EXCEPT !.status = status] \in Submission
      /\ [submission[s] EXCEPT !.status = status].status = status
      /\ [submission[s] EXCEPT !.status = status].profile = submission[s].profile
  BY <1>1 DEF Submission
<1>3. [submission[s] EXCEPT !.status = status] # None
  BY <1>2, VerificationAssumption DEF Submission
<1> QED
  BY <1>1, <1>2, <1>3 DEF SetSubmission

\* Who else is at a desk while a request is being opened.
LEMMA OpenedTogether ==
  ASSUME VerificationTypeOK, Ordered, NEW d \in Desks, desk[d].stage \in {"opening", "showing"}
  PROVE  /\ latest \in Submissions /\ OpenSubmission(latest)
         /\ \A e \in Desks : desk[e].stage \in {"idle", "opening", "showing"}
<1>1. OpenSubmission(latest)
  BY DEF Ordered, Finds
<1>2. latest # None
  <2> SUFFICES ASSUME latest = None PROVE FALSE
    OBVIOUS
  <2>1. badge = "PENDING_VERIFICATION" /\ badge \in OpenStatus
    BY DEF Ordered, OpenIsLatest, Finds
  <2> QED
    BY <2>1 DEF OpenStatus
<1>3. latest \in Submissions
  BY <1>2 DEF VerificationTypeOK
<1>4. \A e \in Desks : desk[e].stage # "editing"
  BY <1>1, <1>3 DEF Ordered, Finds, NoneOpen
<1>5. \A e \in Desks : desk[e].stage \notin Submitting \cup Deciding
  BY DEF Ordered, Apart, Submitting, Deciding
<1>6. \A e \in Desks : desk[e].stage \in DeskStages
  BY DEF VerificationTypeOK, DeskStages
<1> QED
  BY <1>1, <1>3, <1>4, <1>5, <1>6 DEF DeskStages, Submitting, Deciding

LEMMA SavesOpened ==
  ASSUME VInv, NEW d \in Desks, SaveOpened(d)
  PROVE  VInv'
<1>1. /\ desk[d].stage = "opening" /\ UNCHANGED <<badge, profile, latest, disordered>>
      /\ desk[d].on \in Submissions /\ submission[desk[d].on] # None
  BY DEF SaveOpened, AtDesk, VInv, DesksFilled
<1>2. PICK s \in Submissions : s = desk[d].on
  BY <1>1
<1>3. PICK x \in Desk : /\ OnlyDesk(d, x) /\ x.stage = "showing" /\ x.on = s
                       /\ x.badge = desk[d].badge
  BY <1>2, DeskMoved DEF SaveOpened, VInv
<1>4. /\ desk \in [Desks -> Desk] /\ desk' \in [Desks -> Desk] /\ desk'[d] = x
      /\ \A e \in Desks \ {d} : desk'[e] = desk[e]
  BY <1>3, DeskStepped DEF VInv
<1>5. /\ submission' \in [Submissions -> Submission \cup {None}]
      /\ submission'[s] # None /\ submission'[s].status = "UNDER_REVIEW"
      /\ submission'[s].profile = submission[s].profile
      /\ \A t \in Submissions \ {s} : submission'[t] = submission[t]
  BY <1>1, <1>2, SubmissionSaved DEF SaveOpened, VInv, Badges
<1>6. VerificationTypeOK'
  BY <1>1, <1>4, <1>5 DEF VInv, VerificationTypeOK, Desk, DeskStages, Submission
<1>7. DesksFilled'
  <2>1. \A t \in Submissions : submission[t] # None => submission'[t] # None
    BY <1>5
  <2>2. latest \in Submissions \cup {None}
    BY DEF VInv, VerificationTypeOK
  <2> QED
    BY <1>1, <1>3, <1>4, <1>5, <2>1, <2>2 DEF VInv, DesksFilled
<1>8. ASSUME ~disordered' PROVE Ordered'
  <2>1. Ordered /\ VerificationTypeOK
    BY <1>1, <1>8 DEF VInv
  <2>2. /\ latest \in Submissions /\ OpenSubmission(latest)
        /\ \A e \in Desks : desk[e].stage \in {"idle", "opening", "showing"}
    BY <1>1, <2>1, OpenedTogether
  <2>3. s = latest /\ desk[d].badge = "DOCUMENTS_SUBMITTED" /\ badge \in OpenStatus
    BY <1>1, <1>2, <2>1 DEF Ordered, Finds
  <2>4. \A e \in Desks : desk'[e].stage \in {"idle", "opening", "showing"}
    BY <1>3, <1>4, <2>2
  <2>5. Apart'
    BY <2>4 DEF Apart, Submitting, Deciding
  <2>6. OpenIsLatest'
    BY <1>1, <1>5, <2>1, <2>2, <2>3, VerificationAssumption
       DEF Ordered, OpenIsLatest, OpenSubmission
  <2>7. Agrees'
    BY <1>3, <1>4 DEF Agrees
  <2>8. OpenSubmission(latest)' /\ submission'[latest].status = "UNDER_REVIEW"
    BY <1>1, <1>5, <2>3 DEF OpenSubmission, OpenStatus
  <2>9. Finds(d)'
    BY <1>1, <1>3, <1>4, <2>3, <2>8 DEF Finds, Submitting, Deciding
  <2>10. ASSUME NEW e \in Desks \ {d} PROVE Finds(e)'
    <3>1. desk'[e] = desk[e] /\ Finds(e)
      BY <1>4, <2>1, <2>10 DEF Ordered
    <3> QED
      BY <1>1, <2>2, <2>8, <3>1 DEF Finds, Submitting, Deciding
  <2> QED
    BY <2>5, <2>6, <2>7, <2>9, <2>10 DEF Ordered
<1> QED
  BY <1>6, <1>7, <1>8 DEF VInv

LEMMA ShowsUnderReview ==
  ASSUME VInv, NEW d \in Desks, ShowUnderReview(d)
  PROVE  VInv'
<1>1. /\ OnlyDesk(d, NoDesk) /\ desk[d].stage = "showing"
      /\ badge' = IF desk[d].badge # "UNDER_REVIEW" THEN "UNDER_REVIEW" ELSE badge
      /\ UNCHANGED <<profile, submission, latest, disordered>>
  BY NoDeskIsOne DEF ShowUnderReview, AtDesk, DeskEnds, OnlyDesk, SaveBadge
<1>2. /\ desk \in [Desks -> Desk] /\ desk' \in [Desks -> Desk] /\ desk'[d] = NoDesk
      /\ \A e \in Desks \ {d} : desk'[e] = desk[e]
  BY <1>1, DeskStepped DEF VInv
<1>3. badge' \in Badges
  BY <1>1 DEF VInv, VerificationTypeOK, Badges
<1>4. VerificationTypeOK'
  BY <1>1, <1>2, <1>3 DEF VInv, VerificationTypeOK, Desk, DeskStages
<1>5. DesksFilled'
  BY <1>1, <1>2, NoDeskIsOne DEF VInv, DesksFilled
<1>6. ASSUME ~disordered' PROVE Ordered'
  <2>1. Ordered /\ VerificationTypeOK
    BY <1>1, <1>6 DEF VInv
  <2>2. /\ latest \in Submissions /\ OpenSubmission(latest)
        /\ \A e \in Desks : desk[e].stage \in {"idle", "opening", "showing"}
    BY <1>1, <2>1, OpenedTogether
  <2>3. desk[d].badge = "DOCUMENTS_SUBMITTED" /\ submission[latest].status = "UNDER_REVIEW"
    BY <1>1, <2>1 DEF Ordered, Finds
  <2>4. badge' = "UNDER_REVIEW"
    BY <1>1, <2>3
  <2>5. \A e \in Desks : desk'[e].stage \in {"idle", "opening", "showing"}
    BY <1>2, <2>2, NoDeskIsOne
  <2>6. Apart'
    BY <2>5 DEF Apart, Submitting, Deciding
  <2>7. OpenIsLatest' /\ Agrees'
    BY <1>1, <2>1, <2>2, <2>3, <2>4, VerificationAssumption
       DEF Ordered, OpenIsLatest, Agrees, OpenSubmission
  <2>8. ASSUME NEW e \in Desks PROVE Finds(e)'
    <3>1. CASE e = d
      BY <1>2, <3>1, NoDeskIsOne DEF Finds, Submitting, Deciding
    <3>2. CASE e # d
      <4>1. desk'[e] = desk[e] /\ Finds(e)
        BY <1>2, <2>1, <3>2 DEF Ordered
      <4>2. OpenSubmission(latest)' /\ badge' \in OpenStatus
        BY <1>1, <2>2, <2>4 DEF OpenSubmission, OpenStatus
      <4> QED
        BY <1>1, <2>2, <4>1, <4>2 DEF Finds, Submitting, Deciding
    <3> QED BY <3>1, <3>2
  <2> QED
    BY <2>6, <2>7, <2>8 DEF Ordered
<1> QED
  BY <1>4, <1>5, <1>6 DEF VInv

LEMMA SavesDecision ==
  ASSUME VInv, NEW d \in Desks, SaveDecision(d)
  PROVE  VInv'
<1>1. /\ desk[d].stage = "deciding" /\ UNCHANGED <<badge, profile, latest, disordered>>
      /\ desk[d].on \in Submissions /\ submission[desk[d].on] # None
      /\ desk[d].verdict \in {"APPROVED", "REJECTED"}
  BY DEF SaveDecision, AtDesk, VInv, DesksFilled, VerificationTypeOK
<1>2. PICK s \in Submissions : s = desk[d].on
  BY <1>1
<1>3. PICK x \in Desk : /\ OnlyDesk(d, x) /\ x.stage = "granting" /\ x.on = s
                       /\ x.badge = desk[d].badge /\ x.verdict = desk[d].verdict
  BY <1>2, DeskMoved DEF SaveDecision, VInv
<1>4. /\ desk \in [Desks -> Desk] /\ desk' \in [Desks -> Desk] /\ desk'[d] = x
      /\ \A e \in Desks \ {d} : desk'[e] = desk[e]
  BY <1>3, DeskStepped DEF VInv
<1>5. /\ submission' \in [Submissions -> Submission \cup {None}]
      /\ submission'[s] # None /\ submission'[s].status = desk[d].verdict
      /\ submission'[s].profile = submission[s].profile
      /\ \A t \in Submissions \ {s} : submission'[t] = submission[t]
  BY <1>1, <1>2, SubmissionSaved DEF SaveDecision, VInv, Badges
<1>6. VerificationTypeOK'
  BY <1>1, <1>4, <1>5 DEF VInv, VerificationTypeOK, Desk, DeskStages, Submission
<1>7. DesksFilled'
  <2>1. \A t \in Submissions : submission[t] # None => submission'[t] # None
    BY <1>5
  <2>2. latest \in Submissions \cup {None}
    BY DEF VInv, VerificationTypeOK
  <2> QED
    BY <1>1, <1>3, <1>4, <1>5, <2>1, <2>2 DEF VInv, DesksFilled
<1>8. ASSUME ~disordered' PROVE Ordered'
  <2>1. Ordered /\ VerificationTypeOK
    BY <1>1, <1>8 DEF VInv
  <2>2. s = latest /\ OpenSubmission(latest) /\ badge \in OpenStatus /\ desk[d].badge = badge
    BY <1>1, <1>2, <2>1 DEF Ordered, Finds, Deciding
  <2>3. \A e \in Desks \ {d} : desk[e].stage = "idle"
    <3>1. \A e \in Desks \ {d} : desk[e].stage \in {"idle", "editing"}
      BY <1>1, <2>1 DEF Ordered, Apart, Deciding
    <3>2. \A e \in Desks : desk[e].stage # "editing"
      BY <2>1, <2>2 DEF Ordered, Finds, NoneOpen
    <3> QED BY <3>1, <3>2
  <2>4. \A t \in Submissions : ~OpenSubmission(t)'
    <3>1. \A t \in Submissions \ {s} : ~OpenSubmission(t)
      BY <2>1, <2>2 DEF Ordered, OpenIsLatest
    <3> QED
      BY <1>1, <1>5, <3>1 DEF OpenSubmission, OpenStatus
  <2>5. Apart'
    BY <1>3, <1>4, <2>3 DEF Apart, Submitting, Deciding
  <2>6. OpenIsLatest'
    BY <1>1, <2>1, <2>4 DEF Ordered, OpenIsLatest
  <2>7. Agrees'
    BY <1>3, <1>4 DEF Agrees
  <2>8. Finds(d)'
    BY <1>1, <1>2, <1>3, <1>4, <1>5, <2>2, VerificationAssumption DEF Finds, Submitting, Deciding
  <2>9. ASSUME NEW e \in Desks \ {d} PROVE Finds(e)'
    BY <1>4, <2>3, <2>9 DEF Finds, Submitting, Deciding
  <2> QED
    BY <2>5, <2>6, <2>7, <2>8, <2>9 DEF Ordered
<1> QED
  BY <1>6, <1>7, <1>8 DEF VInv

LEMMA GrantsBadge ==
  ASSUME VInv, NEW d \in Desks, GrantBadge(d)
  PROVE  VInv'
<1>1. /\ OnlyDesk(d, NoDesk) /\ desk[d].stage = "granting"
      /\ badge' = IF desk[d].badge # desk[d].verdict THEN desk[d].verdict ELSE badge
      /\ UNCHANGED <<profile, submission, latest, disordered>>
  BY NoDeskIsOne DEF GrantBadge, AtDesk, DeskEnds, OnlyDesk, SaveBadge
<1>2. /\ desk \in [Desks -> Desk] /\ desk' \in [Desks -> Desk] /\ desk'[d] = NoDesk
      /\ \A e \in Desks \ {d} : desk'[e] = desk[e]
  BY <1>1, DeskStepped DEF VInv
<1>3. badge' \in Badges /\ desk[d].verdict \in {"APPROVED", "REJECTED"}
  BY <1>1 DEF VInv, VerificationTypeOK, Badges
<1>4. VerificationTypeOK'
  BY <1>1, <1>2, <1>3 DEF VInv, VerificationTypeOK, Desk, DeskStages
<1>5. DesksFilled'
  BY <1>1, <1>2, NoDeskIsOne DEF VInv, DesksFilled
<1>6. ASSUME ~disordered' PROVE Ordered'
  <2>1. Ordered
    BY <1>1, <1>6 DEF VInv
  <2>2. /\ latest # None /\ badge \in OpenStatus /\ desk[d].badge = badge
        /\ submission[latest].status = desk[d].verdict
    BY <1>1, <2>1 DEF Ordered, Finds, Deciding
  <2>3. badge' = desk[d].verdict
    BY <1>1, <1>3, <2>2 DEF OpenStatus
  <2>4. \A e \in Desks : desk'[e].stage \in {"idle", "editing"}
    BY <1>1, <1>2, <2>1, NoDeskIsOne DEF Ordered, Apart, Deciding
  <2>5. Apart'
    BY <2>4 DEF Apart, Submitting, Deciding
  <2>6. OpenIsLatest' /\ Agrees'
    BY <1>1, <2>1, <2>2, <2>3 DEF Ordered, OpenIsLatest, Agrees, OpenSubmission
  <2>7. ASSUME NEW e \in Desks PROVE Finds(e)'
    <3>1. desk'[e].stage = "editing" => NoneOpen
      BY <1>2, <2>1, NoDeskIsOne DEF Ordered, Finds
    <3>2. NoneOpen => NoneOpen'
      BY <1>1 DEF NoneOpen, OpenSubmission
    <3> QED
      BY <2>4, <3>1, <3>2 DEF Finds, Submitting, Deciding
  <2> QED
    BY <2>5, <2>6, <2>7 DEF Ordered
<1> QED
  BY <1>4, <1>5, <1>6 DEF VInv

LEMMA DeskEndsEarly ==
  ASSUME VInv, NEW d \in Desks, DeskDies(d)
  PROVE  VInv'
<1>1. /\ OnlyDesk(d, NoDesk) /\ disordered' /\ disordered' \in BOOLEAN
      /\ UNCHANGED <<badge, profile, submission, latest>>
  BY NoDeskIsOne DEF DeskDies, DeskEnds, OnlyDesk
<1>2. /\ desk \in [Desks -> Desk] /\ desk' \in [Desks -> Desk] /\ desk'[d] = NoDesk
      /\ \A e \in Desks \ {d} : desk'[e] = desk[e]
  BY <1>1, DeskStepped DEF VInv
<1>3. VerificationTypeOK'
  BY <1>1, <1>2 DEF VInv, VerificationTypeOK, Desk, DeskStages
<1>4. DesksFilled'
  BY <1>1, <1>2, NoDeskIsOne DEF VInv, DesksFilled
<1> QED
  BY <1>1, <1>3, <1>4 DEF VInv

LEMMA VerificationSteps == VInv /\ [VerificationNext]_verificationVars => VInv'
<1> SUFFICES ASSUME VInv, [VerificationNext]_verificationVars PROVE VInv'
  OBVIOUS
<1>1. CASE UNCHANGED verificationVars
  BY <1>1 DEF verificationVars, VInv, VerificationTypeOK, DesksFilled, Ordered, Apart, OpenIsLatest,
     Agrees, Finds, NoneOpen, OpenSubmission
<1>2. CASE VerificationNext
  <2>1. ASSUME NEW d \in Desks, EditProfile(d) PROVE VInv'
    BY <2>1, DeskOpens DEF EditProfile
  <2>2. ASSUME NEW d \in Desks, SubmitVerification(d) PROVE VInv'
    BY <2>2, DeskOpens DEF SubmitVerification
  <2>3. ASSUME NEW d \in Desks, NEW s \in Submissions, GetRequest(d, s) PROVE VInv'
    BY <2>3, DeskOpens DEF GetRequest
  <2>4. ASSUME NEW d \in Desks, NEW s \in Submissions, NEW verdict \in {"APPROVED", "REJECTED"},
               DecideRequest(d, s, verdict)
        PROVE  VInv'
    BY <2>4, DeskOpens DEF DecideRequest
  <2> QED
    BY <1>2, <2>1, <2>2, <2>3, <2>4, SavesProfile, AsksOpen, CreatesRequest, SavesSubmitted,
       SavesOpened, ShowsUnderReview, SavesDecision, GrantsBadge, DeskEndsEarly
       DEF VerificationNext
<1> QED
  BY <1>1, <1>2

\* The badge, the profile, the submissions and the handlers keep their types.
THEOREM VerificationTyped == VerificationSpec => []VerificationTypeOK
<1>1. VInv => VerificationTypeOK
  BY DEF VInv
<1> QED
  BY VerificationBegins, VerificationSteps, <1>1, PTL DEF VerificationSpec

\* Between handlers the badge is the last submission's status and the profile under review
\* the one submitted, unless handlers crossed or ended between their saves
\* (verification.controller.ts decideVerificationRequest, submitVerification).
THEOREM BadgeIsDecided == VerificationSpec => []BadgeFollowsRequest
<1>1. VInv => BadgeFollowsRequest
  BY DEF VInv, Ordered, OpenIsLatest, Agrees, BadgeFollowsRequest
<1> QED
  BY VerificationBegins, VerificationSteps, <1>1, PTL DEF VerificationSpec


-----------------------------------------------------------------------------
(* Sessions: the inductive invariant *)

\* An answer that carries a new token, and a refresh that has not been answered.
Bringing(t) == AtStage(t, "answering") /\ call[t].answer.cookie # None
Asking(t) == Refreshing(t) /\ call[t].stage \in {"sent", "looking"}

\* What an answer says, and what a request carries.
WellFormed(t) ==
  /\ AtStage(t, "answering") =>
       call[t].answer \in Answer /\ (call[t].answer.cookie # None => call[t].answer.sets)
  /\ LoggingOut(t) => call[t].token = None
  /\ Asking(t) /\ call[t].stage = "looking" => call[t].token # None

\* The last token is the one on record, the one before it precedes it, and there is no later.
TokensInOrder ==
  /\ session.hash = minted
  /\ session.previous = IF minted = 0 THEN None ELSE minted - 1
  /\ jar # None => jar <= minted
  /\ \A t \in Tabs : Asking(t) /\ call[t].token # None => call[t].token <= minted

\* A token on its way to the browser is the last one, and nobody has it yet.
OnItsWay ==
  \A t \in Tabs : Bringing(t) =>
    /\ call[t].answer.cookie = minted /\ jar # minted
    /\ \A u \in Tabs : /\ Asking(u) => call[u].token # minted
                       /\ Bringing(u) => u = t

\* A token found replaced stays replaced while the login lasts.
Missed == \A t \in Tabs : Asking(t) /\ call[t].stage = "looking" => call[t].token # minted \/ ~Live

\* No answer was lost, and nobody logged out or is about to hear so.
Ended == \E t \in Tabs : LoggingOut(t) /\ AtStage(t, "answering") /\ call[t].answer.sets
Peace == ~lost /\ ~loggedOut /\ agent = "recorded" /\ ~Ended

\* While the jar has the replaced token, the answer that replaces it is on its way, and
\* a request that carries it was sent before that answer came.
InTime ==
  /\ jar # None /\ jar = session.previous =>
       \E t \in Tabs : Bringing(t) /\ sinceRotation <= call[t].age
  /\ \A t \in Tabs : Asking(t) /\ call[t].token # None /\ call[t].token = session.previous =>
       /\ call[t].stage = "sent" => sinceRotation <= Delay + call[t].age
       /\ call[t].stage = "looking" => ~call[t].late

\* The errands of a browser on which nobody has been logged out.
Errand == ~loggedOut => \A t \in Tabs : call[t] # None => call[t].errand \in {"renew", "retry", "logout"}

\* When no request is overtaken, everybody has one of the last two tokens.
Current(x) == x # None /\ x \in {minted, session.previous}
Together ==
  /\ Current(jar) /\ (jar = minted \/ \E t \in Tabs : Bringing(t))
  /\ \A t \in Tabs : /\ Asking(t) => Current(call[t].token)
                     /\ AtStage(t, "answering") /\ call[t].answer.sets => call[t].answer.cookie # None

SInv ==
  /\ SessionsTypeOK
  /\ \A t \in Tabs : WellFormed(t)
  /\ TokensInOrder /\ OnItsWay /\ Missed /\ Errand
  /\ Peace => ~session.revoked /\ InTime
  /\ Peace /\ ~overtaken /\ ~expired => Together

-----------------------------------------------------------------------------

OnlyRequest(t, c) == c \in Call \cup {None} /\ call' = [call EXCEPT ![t] = c]

LEMMA CallStepped ==
  ASSUME SessionsTypeOK, NEW t \in Tabs, NEW c, OnlyRequest(t, c)
  PROVE  /\ call' \in [Tabs -> Call \cup {None}] /\ call'[t] = c
         /\ \A u \in Tabs \ {t} : call'[u] = call[u]
BY DEF OnlyRequest, SessionsTypeOK

\* The request tab t sends.
LEMMA RequestSent ==
  ASSUME SessionsTypeOK, NEW t \in Tabs, NEW errand \in Errands, NEW cookie \in Nat \cup {None},
         NEW fresh \in BOOLEAN, Send(t, errand, cookie, fresh)
  PROVE  \E c \in Call : /\ OnlyRequest(t, c) /\ c # None /\ c.errand = errand /\ c.stage = "sent"
                         /\ c.token = cookie /\ c.age = 0
<1> DEFINE c == [errand |-> errand, stage |-> "sent", token |-> cookie, fresh |-> fresh,
                 age |-> 0, late |-> FALSE, answer |-> None]
<1>1. c \in Call
  BY SessionsAssumption DEF Call, Stages
<1>2. OnlyRequest(t, c)
  BY <1>1 DEF Send, OnlyRequest
<1> QED
  BY <1>1, <1>2, SessionsAssumption

\* The answer to it.
LEMMA RequestReplied ==
  ASSUME SessionsTypeOK, NEW t \in Tabs, call[t] # None, NEW answer \in Answer, Reply(t, answer)
  PROVE  \E c \in Call : /\ OnlyRequest(t, c) /\ c # None /\ c.errand = call[t].errand
                         /\ c.stage = "answering" /\ c.token = call[t].token /\ c.age = 0
                         /\ c.answer = answer
<1> DEFINE c == [call[t] EXCEPT !.stage = "answering", !.age = 0, !.answer = answer]
<1>1. call[t] \in Call
  BY DEF SessionsTypeOK
<1>2. 0 \in 0..Delay
  BY SessionsAssumption
<1>3. /\ c \in Call /\ c.errand = call[t].errand /\ c.stage = "answering"
      /\ c.token = call[t].token /\ c.age = 0 /\ c.answer = answer
  BY <1>1, <1>2 DEF Call, Stages
<1>4. OnlyRequest(t, c)
  BY <1>3 DEF Reply, OnlyRequest
<1> QED
  BY <1>3, <1>4, SessionsAssumption

LEMMA SessionBegins == SessionsInit => SInv
<1> SUFFICES ASSUME SessionsInit PROVE SInv
  OBVIOUS
<1>1. \A t \in Tabs : call[t] = None
  BY DEF SessionsInit
<1>2. SessionsTypeOK
  <2>1. session \in [hash : Nat, previous : Nat \cup {None}, revoked : BOOLEAN]
    BY DEF SessionsInit
  <2>2. access \in [Tabs -> {"none", "fresh", "stale"}] /\ call \in [Tabs -> Call \cup {None}]
    BY DEF SessionsInit
  <2>3. sinceRotation \in 0..Grace + 1
    BY SessionsAssumption DEF SessionsInit
  <2> QED
    BY <2>1, <2>2, <2>3 DEF SessionsInit, SessionsTypeOK
<1>3. TokensInOrder /\ OnItsWay /\ Missed /\ Errand /\ \A t \in Tabs : WellFormed(t)
  BY <1>1 DEF SessionsInit, TokensInOrder, OnItsWay, Missed, Errand, WellFormed, Asking, Bringing,
     Refreshing, LoggingOut, AtStage
<1>4. ~session.revoked /\ InTime /\ Together
  BY <1>1, SessionsAssumption DEF SessionsInit, InTime, Together, Current, Asking, Bringing,
     Refreshing, LoggingOut, AtStage
<1> QED
  BY <1>2, <1>3, <1>4 DEF SInv

\* A tab sends a request with what is in the jar, or with no token to log out.
LEMMA SendKeeps ==
  ASSUME SInv, NEW t \in Tabs, call[t] = None, NEW errand \in {"renew", "retry", "logout"},
         NEW fresh \in BOOLEAN, NEW cookie,
         errand = "logout" => cookie = None, errand # "logout" => cookie = jar,
         Send(t, errand, cookie, fresh),
         access' \in [Tabs -> {"none", "fresh", "stale"}],
         UNCHANGED <<session, sinceRotation, agent, expired, minted, jar, historyVars>>
  PROVE  SInv'
<1>1. PICK c \in Call : /\ OnlyRequest(t, c) /\ c # None /\ c.errand = errand /\ c.stage = "sent"
                        /\ c.token = cookie /\ c.age = 0
  <2>1. cookie \in Nat \cup {None} /\ errand \in Errands /\ SessionsTypeOK
    BY DEF SInv, SessionsTypeOK, Errands
  <2> QED
    BY <2>1, RequestSent
<1>2. /\ call' \in [Tabs -> Call \cup {None}] /\ call'[t] = c
      /\ \A u \in Tabs \ {t} : call'[u] = call[u]
  BY <1>1, CallStepped DEF SInv
<1> USE DEF historyVars
<1>3. SessionsTypeOK'
  BY <1>2 DEF SInv, SessionsTypeOK
<1>4. /\ (Asking(t))' => cookie = jar
      /\ ~(Bringing(t))' /\ ~(AtStage(t, "answering"))' /\ ~AtStage(t, "answering") /\ ~Bringing(t)
      /\ \A u \in Tabs \ {t} : /\ (Asking(u))' <=> Asking(u)
                               /\ (Bringing(u))' <=> Bringing(u)
                               /\ (LoggingOut(u))' <=> LoggingOut(u)
                               /\ (AtStage(u, "answering"))' <=> AtStage(u, "answering")
  <2>1. Asking(t)' => cookie = jar
    BY <1>1, <1>2 DEF Asking, Refreshing
  <2>2. ~Bringing(t)' /\ ~AtStage(t, "answering")' /\ ~AtStage(t, "answering") /\ ~Bringing(t)
    BY <1>1, <1>2 DEF Bringing, AtStage
  <2>3. ASSUME NEW u \in Tabs \ {t}
        PROVE  /\ Asking(u)' <=> Asking(u)
               /\ Bringing(u)' <=> Bringing(u)
               /\ LoggingOut(u)' <=> LoggingOut(u)
               /\ AtStage(u, "answering")' <=> AtStage(u, "answering")
    BY <1>2 DEF Asking, Bringing, Refreshing, LoggingOut, AtStage
  <2> QED
    BY <2>1, <2>2, <2>3
<1> USE <1>1, <1>2, <1>4 DEF SInv
<1>5. ASSUME NEW u \in Tabs PROVE WellFormed(u)'
  BY DEF WellFormed, LoggingOut, AtStage, Asking
<1>6. TokensInOrder'
  BY DEF TokensInOrder, Asking, SessionsTypeOK
<1>7. OnItsWay'
  BY DEF OnItsWay
<1>8. Missed'
  BY DEF Missed, Live, Asking
<1>9. Errand'
  BY DEF Errand
<1>10. Peace' => Peace
  BY DEF Peace, Ended
<1>11. ASSUME Peace' PROVE ~session'.revoked /\ InTime'
  <2>1. ~session.revoked /\ InTime
    BY <1>10, <1>11
  <2>2. ASSUME jar # None, jar = session.previous
        PROVE  \E w \in Tabs : Bringing(w) /\ Bringing(w)' /\ call'[w].age = call[w].age
                               /\ sinceRotation <= call[w].age /\ sinceRotation <= Delay
    <3>1. PICK w \in Tabs : Bringing(w) /\ sinceRotation <= call[w].age
      BY <2>1, <2>2 DEF InTime
    <3>2. w # t /\ call'[w] = call[w] /\ call[w] \in Call
      BY <3>1 DEF SessionsTypeOK, Bringing, AtStage
    <3>3. call[w].age \in 0..Delay /\ sinceRotation \in Nat /\ Delay \in Nat
      BY <3>2, SessionsAssumption DEF Call, SessionsTypeOK
    <3>4. sinceRotation <= Delay
      BY <3>1, <3>3
    <3> QED
      BY <3>1, <3>2, <3>4
  <2>3. ASSUME NEW u \in Tabs, Asking(u)', call'[u].token # None, call'[u].token = session.previous
        PROVE  /\ call'[u].stage = "sent" => sinceRotation <= Delay + call'[u].age
               /\ call'[u].stage = "looking" => ~call'[u].late
    <3>1. CASE u = t
      <4>1. /\ c.token # None /\ c.token = session.previous /\ c.token = jar /\ c.age = 0
            /\ c.stage = "sent" /\ call'[u] = c
        BY <2>3, <3>1
      <4>2. sinceRotation <= Delay + 0
        BY <2>2, <4>1, SessionsAssumption
      <4> QED
        BY <4>1, <4>2
    <3>2. CASE u # t
      BY <2>1, <2>3, <3>2 DEF InTime
    <3> QED
      BY <3>1, <3>2
  <2> QED
    BY <2>1, <2>2, <2>3 DEF InTime
<1>12. ASSUME Peace', ~overtaken', ~expired' PROVE Together'
  BY <1>10, <1>12 DEF Together, Current
<1> QED
  BY <1>3, <1>5, <1>6, <1>7, <1>8, <1>9, <1>11, <1>12

\* The API answers without a new token.  It may end the login, and tell the browser to
\* forget its token, only where the premises allow it.
LEMMA ReplyKeeps ==
  ASSUME SInv, NEW t \in Tabs, call[t] # None, call[t].stage \in {"sent", "looking"},
         NEW answer \in Answer, answer.cookie = None, Reply(t, answer),
         NEW revoked \in BOOLEAN, session.revoked => revoked,
         session' = [session EXCEPT !.revoked = revoked],
         Peace /\ ~(LoggingOut(t) /\ answer.sets) =>
           /\ session.revoked = revoked
           /\ ~overtaken /\ ~expired => ~answer.sets,
         UNCHANGED <<sinceRotation, agent, expired, minted, jar, access, historyVars>>
  PROVE  SInv'
<1>1. PICK c \in Call : /\ OnlyRequest(t, c) /\ c # None /\ c.errand = call[t].errand
                        /\ c.stage = "answering" /\ c.token = call[t].token /\ c.age = 0
                        /\ c.answer = answer
  BY RequestReplied DEF SInv
<1>2. /\ call' \in [Tabs -> Call \cup {None}] /\ call'[t] = c
      /\ \A u \in Tabs \ {t} : call'[u] = call[u]
  BY <1>1, CallStepped DEF SInv
<1>3. /\ session' \in [hash : Nat, previous : Nat \cup {None}, revoked : BOOLEAN]
      /\ session'.hash = session.hash /\ session'.previous = session.previous
      /\ session'.revoked = revoked
  BY DEF SInv, SessionsTypeOK
<1> USE DEF historyVars
<1>4. SessionsTypeOK'
  BY <1>2, <1>3 DEF SInv, SessionsTypeOK
<1>5. /\ ~Asking(t)' /\ ~Bringing(t)' /\ ~Bringing(t) /\ ~AtStage(t, "answering")
      /\ AtStage(t, "answering")' /\ (LoggingOut(t)' <=> LoggingOut(t))
      /\ \A u \in Tabs \ {t} : /\ Asking(u)' <=> Asking(u)
                               /\ Bringing(u)' <=> Bringing(u)
                               /\ LoggingOut(u)' <=> LoggingOut(u)
                               /\ AtStage(u, "answering")' <=> AtStage(u, "answering")
  <2>1. /\ ~Asking(t)' /\ ~Bringing(t)' /\ ~Bringing(t) /\ ~AtStage(t, "answering")
        /\ AtStage(t, "answering")' /\ (LoggingOut(t)' <=> LoggingOut(t))
    BY <1>1, <1>2 DEF Asking, Refreshing, Bringing, LoggingOut, AtStage
  <2>2. ASSUME NEW u \in Tabs \ {t}
        PROVE  /\ Asking(u)' <=> Asking(u)
               /\ Bringing(u)' <=> Bringing(u)
               /\ LoggingOut(u)' <=> LoggingOut(u)
               /\ AtStage(u, "answering")' <=> AtStage(u, "answering")
    BY <1>2 DEF Asking, Bringing, Refreshing, LoggingOut, AtStage
  <2> QED
    BY <2>1, <2>2
<1> USE <1>1, <1>2, <1>3, <1>5 DEF SInv
<1>6. ASSUME NEW u \in Tabs PROVE WellFormed(u)'
  BY DEF WellFormed
<1>7. TokensInOrder'
  BY DEF TokensInOrder
<1>8. OnItsWay'
  BY DEF OnItsWay
<1>9. Missed'
  BY DEF Missed, Live
<1>10. Errand'
  BY DEF Errand
<1>11. Peace' => Peace /\ ~(LoggingOut(t) /\ answer.sets)
  BY DEF Peace, Ended
<1>12. ASSUME Peace' PROVE ~session'.revoked /\ InTime'
  <2>1. ~session'.revoked /\ InTime
    BY <1>11, <1>12
  <2>2. \A u \in Tabs : Bringing(u) => Bringing(u)' /\ call'[u].age = call[u].age
    OBVIOUS
  <2> QED
    BY <2>1, <2>2 DEF InTime
<1>13. ASSUME Peace', ~overtaken', ~expired' PROVE Together'
  BY <1>11, <1>13 DEF Together, Current
<1> QED
  BY <1>4, <1>6, <1>7, <1>8, <1>9, <1>10, <1>12, <1>13

\* The other replies of refresh and logout.
LEMMA AnswersKeep ==
  ASSUME SInv, NEW t \in Tabs,
         \/ RefuseAnonymous(t) \/ GrantGrace(t) \/ RefuseUnknown(t) \/ EndReplayed(t)
         \/ RefuseLogout(t) \/ EndSession(t)
  PROVE  SInv'
<1>1. /\ KeepCookie(FALSE) \in Answer /\ KeepCookie(TRUE) \in Answer
      /\ ClearCookie(FALSE) \in Answer /\ ClearCookie(TRUE) \in Answer
  BY DEF KeepCookie, ClearCookie, Answer
<1>2. /\ KeepCookie(FALSE).cookie = None /\ KeepCookie(TRUE).cookie = None
      /\ ClearCookie(FALSE).cookie = None /\ ClearCookie(TRUE).cookie = None
      /\ ~KeepCookie(FALSE).sets /\ ~KeepCookie(TRUE).sets /\ ClearCookie(TRUE).sets
  BY DEF KeepCookie, ClearCookie
<1>3. /\ session = [session EXCEPT !.revoked = session.revoked] /\ session.revoked \in BOOLEAN
  BY DEF SInv, SessionsTypeOK
<1>4. CASE RefuseAnonymous(t)
  BY <1>1, <1>2, <1>3, <1>4, ReplyKeeps DEF RefuseAnonymous, AtStage
<1>5. CASE GrantGrace(t)
  BY <1>1, <1>2, <1>3, <1>5, ReplyKeeps DEF GrantGrace, AtStage
<1>6. CASE RefuseUnknown(t)
  <2>1. Asking(t) /\ call[t].stage = "looking" /\ call[t].token # session.previous
    BY <1>6 DEF RefuseUnknown, Asking, AtStage
  <2>2. ~(Peace /\ ~overtaken /\ ~expired)
    <3>1. ~(Current(call[t].token) /\ ~session.revoked /\ ~expired)
      BY <2>1 DEF SInv, Missed, Live, Current
    <3> QED
      BY <2>1, <3>1 DEF SInv, Together
  <2> QED
    BY <1>1, <1>2, <1>3, <1>6, <2>2, ReplyKeeps DEF RefuseUnknown, AtStage
<1>7. CASE EndReplayed(t)
  <2>1. Asking(t) /\ call[t].stage = "looking" /\ call[t].token = session.previous /\ call[t].late
    BY <1>7 DEF EndReplayed, Asking, AtStage
  <2>2. ~Peace
    BY <2>1 DEF SInv, InTime, WellFormed
  <2> QED
    BY <1>1, <1>2, <1>3, <1>7, <2>2, ReplyKeeps DEF EndReplayed, AtStage
<1>8. CASE RefuseLogout(t)
  <2>1. PICK revoked \in BOOLEAN : revoked = (session.revoked \/ (call[t].fresh /\ Live))
    OBVIOUS
  <2>2. session' = [session EXCEPT !.revoked = revoked]
    BY <1>8, <2>1 DEF RefuseLogout
  <2>3. Peace => session.revoked = revoked
    BY <1>3, <1>8, <2>1 DEF RefuseLogout, Peace
  <2> QED
    BY <1>1, <1>2, <1>3, <1>8, <2>1, <2>2, <2>3, ReplyKeeps DEF RefuseLogout, AtStage
<1>9. CASE EndSession(t)
  BY <1>1, <1>2, <1>3, <1>9, ReplyKeeps DEF EndSession, AtStage
<1> QED
  BY <1>4, <1>5, <1>6, <1>7, <1>8, <1>9

\* A refresh finds its token replaced, and reads the clock.
LEMMA MissKeeps ==
  ASSUME SInv, NEW t \in Tabs, MissRotation(t)
  PROVE  SInv'
<1>0. PICK late \in BOOLEAN : late = (sinceRotation > Grace)
  <2>1. (sinceRotation > Grace) \in BOOLEAN
    BY SessionsAssumption DEF SInv, SessionsTypeOK
  <2> QED
    BY <2>1
<1> DEFINE c == [call[t] EXCEPT !.stage = "looking", !.age = 0, !.late = late]
<1>1. /\ call[t] \in Call /\ call[t].stage = "sent" /\ call[t].token # None /\ Asking(t)
      /\ call[t] # None /\ Refreshing(t)
      /\ call[t].token # minted \/ ~Live
      /\ UNCHANGED <<session, sinceRotation, agent, expired, minted, jar, access,
                      lost, overtaken, loggedOut>>
  BY DEF MissRotation, SInv, SessionsTypeOK, AtStage, Asking, TokensInOrder, historyVars
<1>2. 0 \in 0..Delay
  BY SessionsAssumption
<1>3. /\ c \in Call /\ c.errand = call[t].errand /\ c.stage = "looking"
      /\ c.token = call[t].token /\ c.late = late
  BY <1>1, <1>2 DEF Call, Stages
<1>4. OnlyRequest(t, c) /\ c # None
  BY <1>0, <1>3, SessionsAssumption DEF MissRotation, OnlyRequest
<1> HIDE DEF c
<1>5. /\ call' \in [Tabs -> Call \cup {None}] /\ call'[t] = c
      /\ \A u \in Tabs \ {t} : call'[u] = call[u]
  BY <1>4, CallStepped DEF SInv
<1>6. SessionsTypeOK'
  BY <1>1, <1>5 DEF SInv, SessionsTypeOK
<1>7. /\ Asking(t)' /\ ~Bringing(t)' /\ ~Bringing(t) /\ ~AtStage(t, "answering")
      /\ ~AtStage(t, "answering")' /\ ~LoggingOut(t) /\ ~LoggingOut(t)'
      /\ \A u \in Tabs \ {t} : /\ Asking(u)' <=> Asking(u)
                               /\ Bringing(u)' <=> Bringing(u)
                               /\ LoggingOut(u)' <=> LoggingOut(u)
                               /\ AtStage(u, "answering")' <=> AtStage(u, "answering")
  <2>1. /\ Asking(t)' /\ ~Bringing(t)' /\ ~Bringing(t) /\ ~AtStage(t, "answering")
        /\ ~AtStage(t, "answering")' /\ ~LoggingOut(t) /\ ~LoggingOut(t)'
    BY <1>1, <1>3, <1>4, <1>5 DEF Asking, Refreshing, Bringing, LoggingOut, AtStage
  <2>2. ASSUME NEW u \in Tabs \ {t}
        PROVE  /\ Asking(u)' <=> Asking(u)
               /\ Bringing(u)' <=> Bringing(u)
               /\ LoggingOut(u)' <=> LoggingOut(u)
               /\ AtStage(u, "answering")' <=> AtStage(u, "answering")
    BY <1>5 DEF Asking, Bringing, Refreshing, LoggingOut, AtStage
  <2> QED
    BY <2>1, <2>2
<1> USE <1>1, <1>3, <1>4, <1>5, <1>7 DEF SInv
<1>8. ASSUME NEW u \in Tabs PROVE WellFormed(u)'
  BY DEF WellFormed
<1>9. TokensInOrder'
  BY DEF TokensInOrder
<1>10. OnItsWay'
  BY DEF OnItsWay
<1>11. Missed'
  BY DEF Missed, Live
<1>12. Errand'
  BY DEF Errand
<1>13. Peace' => Peace
  BY DEF Peace, Ended
<1>14. ASSUME Peace' PROVE ~session'.revoked /\ InTime'
  <2>1. ~session.revoked /\ InTime
    BY <1>13, <1>14
  <2>2. \A u \in Tabs : Bringing(u) => Bringing(u)' /\ call'[u].age = call[u].age
    OBVIOUS
  <2>3. call[t].token = session.previous => ~c.late
    <3>1. call[t].age \in 0..Delay /\ sinceRotation \in Nat /\ Delay \in Nat /\ Grace \in Nat
          /\ 3 * Delay <= Grace
      BY SessionsAssumption DEF Call, SessionsTypeOK
    <3>2. call[t].token = session.previous => sinceRotation <= Delay + call[t].age
      BY <2>1 DEF InTime
    <3>3. call[t].token = session.previous => ~(sinceRotation > Grace)
      BY <3>1, <3>2
    <3> QED
      BY <1>0, <3>3
  <2> QED
    BY <2>1, <2>2, <2>3 DEF InTime
<1>15. ASSUME Peace', ~overtaken', ~expired' PROVE Together'
  BY <1>13, <1>15 DEF Together, Current
<1> QED
  BY <1>6, <1>8, <1>9, <1>10, <1>11, <1>12, <1>14, <1>15

\* A refresh with the last token replaces it.
LEMMA RotateKeeps ==
  ASSUME SInv, NEW t \in Tabs, Rotate(t)
  PROVE  SInv'
<1>1. PICK answer \in Answer :
        /\ Reply(t, answer)
        /\ answer.cookie # None => answer.cookie = minted + 1 /\ answer.sets
        /\ agent = "recorded" => answer.cookie = minted + 1 /\ answer.sets
  <2>1. minted + 1 \in Nat /\ minted + 1 # None
    BY SessionsAssumption DEF SInv, SessionsTypeOK
  <2>2. /\ SetCookie(minted + 1) \in Answer /\ SetCookie(minted + 1).cookie = minted + 1
        /\ SetCookie(minted + 1).sets
        /\ ClearCookie(FALSE) \in Answer /\ ClearCookie(FALSE).cookie = None
    BY <2>1 DEF SetCookie, ClearCookie, Answer
  <2> QED
    BY <2>2 DEF Rotate
<1>2. /\ call[t] # None /\ call[t].stage = "sent" /\ call[t].token = minted /\ Asking(t)
      /\ Refreshing(t) /\ minted \in Nat /\ Live
  BY DEF Rotate, SInv, SessionsTypeOK, AtStage, Asking, TokensInOrder
<1>3. PICK c \in Call : /\ OnlyRequest(t, c) /\ c # None /\ c.errand = call[t].errand
                        /\ c.stage = "answering" /\ c.token = call[t].token /\ c.age = 0
                        /\ c.answer = answer
  BY <1>1, <1>2, RequestReplied DEF SInv
<1>4. /\ call' \in [Tabs -> Call \cup {None}] /\ call'[t] = c
      /\ \A u \in Tabs \ {t} : call'[u] = call[u]
  BY <1>3, CallStepped DEF SInv
<1>5. /\ minted' = minted + 1 /\ session'.hash = minted + 1 /\ session'.previous = minted
      /\ session' \in [hash : Nat, previous : Nat \cup {None}, revoked : BOOLEAN]
      /\ agent = "recorded" => ~session'.revoked
  <2>1. PICK revoked \in BOOLEAN : revoked = (agent = "changed")
    OBVIOUS
  <2>2. session' = [hash |-> minted + 1, previous |-> minted, revoked |-> revoked]
    BY <1>2, <2>1 DEF Rotate
  <2>3. session' \in [hash : Nat, previous : Nat \cup {None}, revoked : BOOLEAN]
    BY <1>2, <2>2
  <2>4. /\ session'.hash = minted + 1 /\ session'.previous = minted
        /\ agent = "recorded" => ~session'.revoked
    BY <2>1, <2>2
  <2> QED
    BY <2>3, <2>4 DEF Rotate
<1>6. /\ sinceRotation' = 0 /\ UNCHANGED <<agent, expired, jar, access, lost, loggedOut>>
      /\ overtaken' \in BOOLEAN
      /\ ~overtaken' => /\ ~overtaken
                        /\ \A u \in Tabs \ {t} : Asking(u) /\ call[u].token # None =>
                                                  call[u].token = minted
  BY DEF Rotate, SInv, SessionsTypeOK, TokensInOrder, Asking, AtStage, Refreshing
<1>7. SessionsTypeOK'
  BY <1>2, <1>4, <1>5, <1>6, SessionsAssumption DEF SInv, SessionsTypeOK
<1>8. /\ ~Asking(t)' /\ ~Bringing(t) /\ ~AtStage(t, "answering")
      /\ AtStage(t, "answering")' /\ ~LoggingOut(t) /\ ~LoggingOut(t)'
      /\ Bringing(t)' => answer.cookie = minted + 1
      /\ agent = "recorded" => Bringing(t)'
      /\ \A u \in Tabs \ {t} : /\ Asking(u)' <=> Asking(u)
                               /\ Bringing(u)' <=> Bringing(u)
                               /\ LoggingOut(u)' <=> LoggingOut(u)
                               /\ AtStage(u, "answering")' <=> AtStage(u, "answering")
  <2>1. /\ ~Asking(t)' /\ ~Bringing(t) /\ ~AtStage(t, "answering")
        /\ AtStage(t, "answering")' /\ ~LoggingOut(t) /\ ~LoggingOut(t)'
    BY <1>2, <1>3, <1>4 DEF Asking, Refreshing, Bringing, LoggingOut, AtStage
  <2>2. minted + 1 # None
    BY <1>2, SessionsAssumption
  <2>3. (Bringing(t)' => answer.cookie = minted + 1) /\ (agent = "recorded" => Bringing(t)')
    BY <1>1, <1>3, <1>4, <2>2 DEF Bringing, AtStage
  <2>4. ASSUME NEW u \in Tabs \ {t}
        PROVE  /\ Asking(u)' <=> Asking(u)
               /\ Bringing(u)' <=> Bringing(u)
               /\ LoggingOut(u)' <=> LoggingOut(u)
               /\ AtStage(u, "answering")' <=> AtStage(u, "answering")
    BY <1>4 DEF Asking, Bringing, Refreshing, LoggingOut, AtStage
  <2> QED
    BY <2>1, <2>3, <2>4
<1>9. \A u \in Tabs : ~Bringing(u)
  BY <1>2 DEF SInv, OnItsWay
<1>10. /\ jar \in Nat \cup {None}
       /\ jar # None => jar <= minted
       /\ \A u \in Tabs : Asking(u) /\ call[u].token # None =>
                            call[u].token \in Nat /\ call[u].token <= minted
  BY DEF SInv, TokensInOrder, SessionsTypeOK, Asking, Refreshing, Call
<1> USE <1>1, <1>2, <1>3, <1>4, <1>5, <1>6, <1>8, <1>9, <1>10 DEF SInv
<1>11. ASSUME NEW u \in Tabs PROVE WellFormed(u)'
  BY DEF WellFormed
<1>12. TokensInOrder'
  <2>1. minted' # 0 /\ minted' - 1 = minted
    OBVIOUS
  <2>2. jar' # None => jar' <= minted'
    OBVIOUS
  <2>3. ASSUME NEW u \in Tabs, Asking(u)', call'[u].token # None PROVE call'[u].token <= minted'
    BY <2>3
  <2> QED
    BY <2>1, <2>2, <2>3 DEF TokensInOrder
<1>13. OnItsWay'
  <2>1. minted + 1 # None /\ jar # minted + 1
    BY SessionsAssumption
  <2>2. \A u \in Tabs : Asking(u)' => call'[u].token # minted + 1
    BY <2>1
  <2> QED
    BY <2>1, <2>2 DEF OnItsWay
<1>14. Missed'
  BY SessionsAssumption DEF Missed, Live
<1>15. Errand'
  BY DEF Errand
<1>16. Peace' => Peace
  BY DEF Peace, Ended
<1>17. ASSUME Peace' PROVE ~session'.revoked /\ InTime'
  <2>1. agent = "recorded" /\ ~session'.revoked
    BY <1>17 DEF Peace
  <2>2. Bringing(t)' /\ sinceRotation' <= call'[t].age
    BY <2>1
  <2>3. ASSUME NEW u \in Tabs, Asking(u)', call'[u].token = session'.previous
        PROVE  /\ call'[u].stage = "sent" => sinceRotation' <= Delay + call'[u].age
               /\ call'[u].stage = "looking" => ~call'[u].late
    <3>1. u # t /\ call'[u] = call[u] /\ call[u] \in Call /\ call[u].token = minted
      BY <2>3 DEF SessionsTypeOK, Asking, Refreshing
    <3>2. call[u].stage # "looking"
      BY <2>3, <3>1 DEF Missed
    <3>3. call[u].age \in 0..Delay /\ Delay \in Nat
      BY <3>1, SessionsAssumption DEF Call
    <3> QED
      BY <3>1, <3>2, <3>3
  <2> QED
    BY <2>1, <2>2, <2>3 DEF InTime
<1>18. ASSUME Peace', ~overtaken', ~expired' PROVE Together'
  <2>1. agent = "recorded" /\ Together
    BY <1>16, <1>18 DEF Peace
  <2>2. jar = minted /\ minted # None
    BY <2>1, SessionsAssumption DEF Together
  <2>3. \A u \in Tabs : Asking(u)' => call'[u].token = minted
    BY <1>18, <2>1 DEF Together, Current
  <2> QED
    BY <2>1, <2>2, <2>3, SessionsAssumption DEF Together, Current
<1> QED
  BY <1>7, <1>11, <1>12, <1>13, <1>14, <1>15, <1>17, <1>18

\* What a tab does with an answer: it is through, or a "log out" goes on.
LEMMA Delivered ==
  ASSUME SInv, NEW t \in Tabs, Deliver(t)
  PROVE  /\ jar' \in Nat \cup {None} /\ loggedOut' \in BOOLEAN
         /\ access' \in [Tabs -> {"none", "fresh", "stale"}]
         /\ loggedOut \/ LoggingOut(t) => loggedOut'
         /\ \E n \in Call \cup {None} :
              /\ OnlyRequest(t, n)
              /\ n # None => /\ loggedOut' /\ n.stage = "sent"
                             /\ \/ n.errand = "logoutRetry" /\ n.token = jar'
                                \/ n.errand = "logoutAgain" /\ n.token = None
<1> DEFINE answer == call[t].answer
           errand == call[t].errand
           retry == [call[t] EXCEPT !.errand = "logoutRetry", !.stage = "sent", !.token = jar',
                                    !.age = 0, !.answer = None]
           again == [call[t] EXCEPT !.errand = "logoutAgain", !.stage = "sent", !.token = None,
                                    !.fresh = TRUE, !.age = 0, !.late = FALSE, !.answer = None]
<1>1. call[t] # None /\ call[t] \in Call /\ answer \in Answer
  BY DEF Deliver, AtStage, SInv, SessionsTypeOK, WellFormed
<1>2. jar' \in Nat \cup {None}
  BY <1>1 DEF Deliver, Answer, SInv, SessionsTypeOK
<1>3. access' \in [Tabs -> {"none", "fresh", "stale"}]
  BY DEF Deliver, SInv, SessionsTypeOK
<1>4. loggedOut' = (loggedOut \/ errand \in {"logout", "logoutAgain"}) /\ loggedOut' \in BOOLEAN
  BY DEF Deliver, SInv, SessionsTypeOK
<1>5. 0 \in 0..Delay
  BY SessionsAssumption
<1>6. retry \in Call /\ retry.errand = "logoutRetry" /\ retry.stage = "sent" /\ retry.token = jar'
  BY <1>1, <1>2, <1>5 DEF Call, Stages, Errands
<1>7. again \in Call /\ again.errand = "logoutAgain" /\ again.stage = "sent" /\ again.token = None
  BY <1>1, <1>5 DEF Call, Stages, Errands
<1>8. \/ OnlyRequest(t, None)
      \/ errand = "logout" /\ OnlyRequest(t, retry)
      \/ errand = "logoutRetry" /\ OnlyRequest(t, again)
  BY <1>6, <1>7 DEF Deliver, OnlyRequest
<1>9. errand = "logoutRetry" => loggedOut
  BY <1>1 DEF SInv, Errand
<1>10. LoggingOut(t) => errand \in {"logout", "logoutAgain"}
  BY DEF LoggingOut
<1> HIDE DEF retry, again, answer, errand
<1> QED
  BY <1>2, <1>3, <1>4, <1>6, <1>7, <1>8, <1>9, <1>10

LEMMA DeliverKeeps ==
  ASSUME SInv, NEW t \in Tabs, Deliver(t)
  PROVE  SInv'
<1>1. PICK n \in Call \cup {None} :
        /\ OnlyRequest(t, n)
        /\ n # None => /\ loggedOut' /\ n.stage = "sent"
                       /\ \/ n.errand = "logoutRetry" /\ n.token = jar'
                          \/ n.errand = "logoutAgain" /\ n.token = None
  BY Delivered
<1>2. /\ jar' \in Nat \cup {None} /\ loggedOut' \in BOOLEAN
      /\ access' \in [Tabs -> {"none", "fresh", "stale"}]
      /\ loggedOut \/ LoggingOut(t) => loggedOut'
  BY Delivered
<1>3. /\ call' \in [Tabs -> Call \cup {None}] /\ call'[t] = n
      /\ \A u \in Tabs \ {t} : call'[u] = call[u]
  BY <1>1, CallStepped DEF SInv
<1>4. UNCHANGED <<session, sinceRotation, agent, expired, minted, lost, overtaken>>
  BY DEF Deliver
<1>5. /\ Bringing(t) => jar' = minted
      /\ ~Bringing(t) => jar' \in {jar, None}
      /\ ~Bringing(t) /\ jar' # jar => call[t].answer.sets
      /\ AtStage(t, "answering") /\ ~Asking(t)
  BY DEF Deliver, Bringing, AtStage, Asking, SInv, WellFormed, OnItsWay
<1>6. minted \in Nat /\ minted # None /\ session.previous # minted
  BY SessionsAssumption DEF SInv, SessionsTypeOK, TokensInOrder
<1>7. SessionsTypeOK'
  BY <1>2, <1>3, <1>4 DEF SInv, SessionsTypeOK
<1>8. /\ Asking(t)' => loggedOut' /\ call'[t].token \in {jar', None} /\ call'[t].stage = "sent"
      /\ LoggingOut(t)' => call'[t].token = None
      /\ ~Bringing(t)' /\ ~AtStage(t, "answering")' /\ (call'[t] # None => loggedOut')
      /\ \A u \in Tabs \ {t} : /\ Asking(u)' <=> Asking(u)
                               /\ Bringing(u)' <=> Bringing(u)
                               /\ LoggingOut(u)' <=> LoggingOut(u)
                               /\ AtStage(u, "answering")' <=> AtStage(u, "answering")
  <2>1. /\ Asking(t)' => loggedOut' /\ call'[t].token \in {jar', None} /\ call'[t].stage = "sent"
        /\ LoggingOut(t)' => call'[t].token = None
    BY <1>1, <1>3 DEF Asking, Refreshing, LoggingOut
  <2>2. ~Bringing(t)' /\ ~AtStage(t, "answering")' /\ (call'[t] # None => loggedOut')
    BY <1>1, <1>3 DEF Bringing, AtStage
  <2>3. ASSUME NEW u \in Tabs \ {t}
        PROVE  /\ Asking(u)' <=> Asking(u)
               /\ Bringing(u)' <=> Bringing(u)
               /\ LoggingOut(u)' <=> LoggingOut(u)
               /\ AtStage(u, "answering")' <=> AtStage(u, "answering")
    BY <1>3 DEF Asking, Bringing, Refreshing, LoggingOut, AtStage
  <2> QED
    BY <2>1, <2>2, <2>3
<1> USE <1>2, <1>3, <1>4, <1>5, <1>6, <1>8 DEF SInv
<1>9. ASSUME NEW u \in Tabs PROVE WellFormed(u)'
  BY DEF WellFormed
<1>10. TokensInOrder'
  <2>1. jar' # None => jar' <= minted
    BY DEF TokensInOrder
  <2>2. ASSUME NEW u \in Tabs, Asking(u)', call'[u].token # None PROVE call'[u].token <= minted
    BY <2>1, <2>2 DEF TokensInOrder
  <2> QED
    BY <2>1, <2>2 DEF TokensInOrder
<1>11. OnItsWay'
  BY DEF OnItsWay
<1>12. Missed'
  BY DEF Missed, Live
<1>13. Errand'
  BY DEF Errand
<1>14. Peace' => Peace /\ ~Asking(t)'
  BY DEF Peace, Ended
<1>15. ASSUME Peace' PROVE ~session'.revoked /\ InTime'
  <2>1. ~session.revoked /\ InTime
    BY <1>14, <1>15
  <2>2. ASSUME jar' # None, jar' = session.previous
        PROVE  \E w \in Tabs : Bringing(w)' /\ sinceRotation <= call'[w].age
    BY <2>1, <2>2 DEF InTime
  <2>3. ASSUME NEW u \in Tabs, Asking(u)', call'[u].token # None, call'[u].token = session.previous
        PROVE  /\ call'[u].stage = "sent" => sinceRotation <= Delay + call'[u].age
               /\ call'[u].stage = "looking" => ~call'[u].late
    BY <1>14, <1>15, <2>1, <2>3 DEF InTime
  <2> QED
    BY <2>1, <2>2, <2>3 DEF InTime
<1>16. ASSUME Peace', ~overtaken', ~expired' PROVE Together'
  <2>1. Together /\ ~Asking(t)'
    BY <1>14, <1>16
  <2>2. \A u \in Tabs : Asking(u)' => Current(call[u].token) /\ call'[u] = call[u]
    BY <2>1 DEF Together
  <2>3. Current(jar') /\ (jar' = minted \/ \E w \in Tabs : Bringing(w)')
    BY <2>1 DEF Together, Current, Bringing
  <2>4. \A u \in Tabs : AtStage(u, "answering")' /\ call'[u].answer.sets =>
                       call'[u].answer.cookie # None
    BY <2>1 DEF Together
  <2> QED
    BY <2>2, <2>3, <2>4 DEF Together, Current
<1> QED
  BY <1>7, <1>9, <1>10, <1>11, <1>12, <1>13, <1>15, <1>16

\* A request or an answer is lost.
LEMMA LoseKeeps ==
  ASSUME SInv, NEW t \in Tabs, LoseCall(t)
  PROVE  SInv'
<1>1. OnlyRequest(t, None)
  BY DEF LoseCall, OnlyRequest
<1>2. /\ call' \in [Tabs -> Call \cup {None}] /\ call'[t] = None
      /\ \A u \in Tabs \ {t} : call'[u] = call[u]
  BY <1>1, CallStepped DEF SInv
<1>3. /\ UNCHANGED <<session, sinceRotation, agent, expired, minted, jar, overtaken, loggedOut>>
      /\ access' \in [Tabs -> {"none", "fresh", "stale"}] /\ lost' \in BOOLEAN
      /\ ~lost' => ~lost /\ ~(AtStage(t, "answering") /\ call[t].answer.sets) /\ ~Bringing(t)
  BY DEF LoseCall, SInv, SessionsTypeOK, Bringing, WellFormed
<1>4. SessionsTypeOK'
  BY <1>2, <1>3 DEF SInv, SessionsTypeOK
<1>5. /\ ~Asking(t)' /\ ~Bringing(t)' /\ ~AtStage(t, "answering")' /\ ~LoggingOut(t)'
      /\ \A u \in Tabs \ {t} : /\ Asking(u)' <=> Asking(u)
                               /\ Bringing(u)' <=> Bringing(u)
                               /\ LoggingOut(u)' <=> LoggingOut(u)
                               /\ AtStage(u, "answering")' <=> AtStage(u, "answering")
  <2>1. ~Asking(t)' /\ ~Bringing(t)' /\ ~AtStage(t, "answering")' /\ ~LoggingOut(t)'
    BY <1>2 DEF Asking, Refreshing, LoggingOut, Bringing, AtStage
  <2>2. ASSUME NEW u \in Tabs \ {t}
        PROVE  /\ Asking(u)' <=> Asking(u)
               /\ Bringing(u)' <=> Bringing(u)
               /\ LoggingOut(u)' <=> LoggingOut(u)
               /\ AtStage(u, "answering")' <=> AtStage(u, "answering")
    BY <1>2 DEF Asking, Bringing, Refreshing, LoggingOut, AtStage
  <2> QED
    BY <2>1, <2>2
<1> USE <1>2, <1>3, <1>5 DEF SInv
<1>6. ASSUME NEW u \in Tabs PROVE WellFormed(u)'
  BY DEF WellFormed
<1>7. TokensInOrder' /\ OnItsWay' /\ Missed' /\ Errand'
  BY DEF TokensInOrder, OnItsWay, Missed, Live, Errand
<1>8. Peace' => Peace /\ ~Bringing(t)
  BY DEF Peace, Ended
<1>9. ASSUME Peace' PROVE ~session'.revoked /\ InTime'
  BY <1>8, <1>9 DEF InTime
<1>10. ASSUME Peace', ~overtaken', ~expired' PROVE Together'
  BY <1>8, <1>10 DEF Together, Current
<1> QED
  BY <1>4, <1>6, <1>7, <1>9, <1>10

\* Time passes for everything under way.
LEMMA TickKeeps ==
  ASSUME SInv, Tick
  PROVE  SInv'
<1>1. UNCHANGED <<session, agent, expired, minted, jar, access, lost, overtaken, loggedOut>>
  BY DEF Tick, historyVars
<1>2. ASSUME NEW u \in Tabs
      PROVE  /\ call[u] = None => call'[u] = None
             /\ call[u] # None =>
                  /\ call'[u] \in Call /\ call'[u] # None
                  /\ call'[u].age = call[u].age + 1 /\ call[u].age \in Nat /\ call[u].age < Delay
                  /\ call'[u].errand = call[u].errand /\ call'[u].stage = call[u].stage
                  /\ call'[u].token = call[u].token /\ call'[u].late = call[u].late
                  /\ call'[u].answer = call[u].answer
  <2>1. CASE call[u] = None
    BY <2>1 DEF Tick
  <2>2. CASE call[u] # None
    <3>1. call[u] \in Call /\ call[u].age \in 0..Delay /\ call[u].age < Delay
      BY <2>2 DEF Tick, SInv, SessionsTypeOK, Call
    <3>2. call[u].age + 1 \in 0..Delay /\ call[u].age \in Nat
      BY <3>1, SessionsAssumption
    <3>3. call'[u] = [call[u] EXCEPT !.age = call[u].age + 1]
      BY <2>2 DEF Tick
    <3>4. /\ call'[u] \in Call
          /\ call'[u].age = call[u].age + 1
          /\ call'[u].errand = call[u].errand /\ call'[u].stage = call[u].stage
          /\ call'[u].token = call[u].token /\ call'[u].late = call[u].late
          /\ call'[u].answer = call[u].answer
      BY <3>1, <3>2, <3>3 DEF Call
    <3> QED
      BY <2>2, <3>1, <3>2, <3>4, SessionsAssumption
  <2> QED
    BY <2>1, <2>2
<1>3. /\ sinceRotation \in Nat /\ sinceRotation' \in 0..Grace + 1
      /\ sinceRotation' <= sinceRotation + 1
  BY SessionsAssumption DEF Tick, SInv, SessionsTypeOK
<1>4. SessionsTypeOK'
  <2>1. call' = [u \in Tabs |-> call'[u]]
    BY DEF Tick
  <2>2. call' \in [Tabs -> Call \cup {None}]
    BY <1>2, <2>1
  <2> QED
    BY <1>1, <1>3, <2>2 DEF SInv, SessionsTypeOK
<1>5. ASSUME NEW u \in Tabs
      PROVE  /\ Asking(u)' <=> Asking(u)
             /\ Bringing(u)' <=> Bringing(u)
             /\ LoggingOut(u)' <=> LoggingOut(u)
             /\ AtStage(u, "answering")' <=> AtStage(u, "answering")
             /\ AtStage(u, "answering") \/ Asking(u) => call[u] # None
  BY <1>2 DEF Asking, Bringing, Refreshing, LoggingOut, AtStage
<1> USE <1>1, <1>2, <1>5 DEF SInv
<1>6. ASSUME NEW u \in Tabs PROVE WellFormed(u)'
  <2>1. LoggingOut(u) => call[u] # None
    BY DEF LoggingOut
  <2> QED
    BY <2>1 DEF WellFormed
<1>7. TokensInOrder' /\ Missed' /\ Errand'
  BY DEF TokensInOrder, Missed, Live, Errand
<1>8. OnItsWay'
  <2>1. \A u \in Tabs : Bringing(u) => call[u] # None
    BY DEF Bringing, AtStage
  <2> QED
    BY <2>1 DEF OnItsWay
<1>9. Peace' => Peace
  <2>1. Ended => Ended'
    BY DEF Ended
  <2> QED
    BY <2>1 DEF Peace
<1>10. ASSUME Peace' PROVE ~session'.revoked /\ InTime'
  <2>1. ~session.revoked /\ InTime
    BY <1>9, <1>10
  <2>2. ASSUME jar # None, jar = session.previous
        PROVE  \E w \in Tabs : Bringing(w)' /\ sinceRotation' <= call'[w].age
    <3>1. PICK w \in Tabs : Bringing(w) /\ sinceRotation <= call[w].age
      BY <2>1, <2>2 DEF InTime
    <3>2. call'[w].age = call[w].age + 1 /\ call[w].age \in Nat /\ Bringing(w)'
      BY <3>1 DEF Bringing, AtStage
    <3>3. sinceRotation' <= call'[w].age
      BY <1>3, <3>1, <3>2
    <3> QED
      BY <3>2, <3>3
  <2>3. ASSUME NEW u \in Tabs, Asking(u)', call'[u].token # None, call'[u].token = session.previous
        PROVE  /\ call'[u].stage = "sent" => sinceRotation' <= Delay + call'[u].age
               /\ call'[u].stage = "looking" => ~call'[u].late
    <3>1. /\ call'[u].age = call[u].age + 1 /\ call[u].age \in Nat /\ call'[u].stage = call[u].stage
          /\ call'[u].late = call[u].late /\ Delay \in Nat
      BY <2>3, SessionsAssumption
    <3>2. /\ call[u].stage = "sent" => sinceRotation <= Delay + call[u].age
          /\ call[u].stage = "looking" => ~call[u].late
      BY <2>1, <2>3 DEF InTime
    <3> QED
      BY <1>3, <3>1, <3>2
  <2> QED
    BY <2>1, <2>2, <2>3 DEF InTime
<1>11. ASSUME Peace', ~overtaken', ~expired' PROVE Together'
  BY <1>9, <1>11 DEF Together, Current
<1> QED
  BY <1>4, <1>6, <1>7, <1>8, <1>10, <1>11

\* What happens beside the requests.
LEMMA AsideKeeps ==
  ASSUME SInv,
         (\E t \in Tabs : AccessExpires(t)) \/ Expire \/ UpdateBrowser \/ UNCHANGED sessionVars
  PROVE  SInv'
<1>1. /\ UNCHANGED <<session, sinceRotation, minted, jar, call, lost, overtaken, loggedOut>>
      /\ access' \in [Tabs -> {"none", "fresh", "stale"}]
      /\ expired' \in BOOLEAN /\ agent' \in {"recorded", "changed"}
      /\ agent' = "recorded" => agent = "recorded"
      /\ expired => expired'
  BY DEF AccessExpires, Expire, UpdateBrowser, sessionVars, historyVars, SInv, SessionsTypeOK
<1> USE <1>1 DEF SInv
<1>2. SessionsTypeOK'
  BY DEF SessionsTypeOK
<1>3. ASSUME NEW u \in Tabs
      PROVE  /\ Asking(u)' <=> Asking(u)
             /\ Bringing(u)' <=> Bringing(u)
             /\ LoggingOut(u)' <=> LoggingOut(u)
             /\ AtStage(u, "answering")' <=> AtStage(u, "answering")
  BY DEF Asking, Bringing, Refreshing, LoggingOut, AtStage
<1>4. Peace' => Peace
  BY DEF Peace, Ended, LoggingOut, AtStage
<1>5. \A u \in Tabs : WellFormed(u)'
  BY <1>3 DEF WellFormed
<1>6. TokensInOrder' /\ OnItsWay' /\ Missed' /\ Errand'
  BY <1>3 DEF TokensInOrder, OnItsWay, Missed, Live, Errand
<1>7. InTime => InTime'
  BY <1>3 DEF InTime
<1>8. Together => Together'
  BY <1>3 DEF Together, Current
<1> QED
  BY <1>2, <1>4, <1>5, <1>6, <1>7, <1>8

LEMMA SessionSteps == SInv /\ [SessionsNext]_sessionVars => SInv'
<1> SUFFICES ASSUME SInv, [SessionsNext]_sessionVars PROVE SInv'
  OBVIOUS
<1>1. ASSUME NEW t \in Tabs, Renew(t) \/ Retry(t) \/ LogOut(t) PROVE SInv'
  <2>1. access' \in [Tabs -> {"none", "fresh", "stale"}]
    BY <1>1 DEF Renew, Retry, LogOut, SInv, SessionsTypeOK
  <2>2. (access[t] = "fresh") \in BOOLEAN
    OBVIOUS
  <2> QED
    BY <1>1, <2>1, <2>2, SendKeeps DEF Renew, Retry, LogOut
<1>2. ASSUME NEW t \in Tabs,
             RefuseAnonymous(t) \/ Rotate(t) \/ MissRotation(t) \/ EndReplayed(t) \/ GrantGrace(t)
             \/ RefuseUnknown(t) \/ RefuseLogout(t) \/ EndSession(t)
      PROVE  SInv'
  BY <1>2, RotateKeeps, MissKeeps, AnswersKeep
<1>3. ASSUME NEW t \in Tabs, Deliver(t) \/ LoseCall(t) PROVE SInv'
  BY <1>3, DeliverKeeps, LoseKeeps
<1> QED
  BY <1>1, <1>2, <1>3, TickKeeps, AsideKeeps DEF SessionsNext

\* The login, its tokens, the requests of the tabs and the clock keep their types.
THEOREM SessionsTyped == SessionsSpec => []SessionsTypeOK
<1>1. SInv => SessionsTypeOK
  BY DEF SInv
<1> QED
  BY SessionBegins, SessionSteps, <1>1, PTL DEF SessionsSpec

\* However many tabs share the cookie jar and race their refreshes, a grace period of three
\* delays keeps them from ending the login by themselves, and once the answers are in the jar
\* holds the token on record (auth.controller.ts refresh).
THEOREM TabsStayLoggedIn == SessionsSpec => []TabsKeepTheirLogin
<1>1. SInv => TabsKeepTheirLogin
  <2> SUFFICES ASSUME SInv, ~lost, NoLogoutAsked, agent = "recorded"
               PROVE  /\ ~session.revoked
                      /\ (~overtaken /\ ~expired /\ \A t \in Tabs : call[t] = None) =>
                           jar = session.hash
    BY DEF TabsKeepTheirLogin
  <2>1. Peace
    BY DEF Peace, Ended, NoLogoutAsked, LoggingOut
  <2> QED
    BY <2>1 DEF SInv, Together, TokensInOrder, Bringing, AtStage
<1> QED
  BY SessionBegins, SessionSteps, <1>1, PTL DEF SessionsSpec
=============================================================================
