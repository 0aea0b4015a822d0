------------------------------ MODULE Accounts ------------------------------
(***************************************************************************)
(* One account: its password and its role, the logins opened on it, and    *)
(* the changes that must end the logins opened before them                 *)
(* (auth.controller.ts login, refresh, changePassword and revokeSessions,  *)
(* admin.controller.ts updateUserRole and revokeUserSessions).             *)
(*                                                                         *)
(* A handler reads the User, awaits the hash, and writes.  A password is a *)
(* number: each change sets one that was never used before.                *)
(***************************************************************************)
EXTENDS Naturals, Nothing

CONSTANTS
  Logins,        \* the logins opened on the account, each by one request
  Changes,       \* the requests that change the password or the role
  UserRoles,     \* what an administrator may make of the account
  MaxPasswords   \* bound: passwords ever set

ASSUME AccountsAssumption == MaxPasswords \in Nat /\ None \notin UserRoles

VARIABLES
  account,       \* User: passwordHash (and whether it is of an old kind), role
  login,         \* each login: how far its request is, what it read (or the password
                 \* it set since), revokedAt
  token,         \* the role each login's access token names
  change,        \* each change: how far, by which login, and the new role
  passwords,     \* the last password set
  \* --- history, read by no action
  racing,        \* logins that were being opened, or renewed, across a change
  undone         \* a login's rehash stored a password that had been replaced

accountVars == <<account, login, token, change, passwords, racing, undone>>

LoginStages == {"none", "checked", "opening", "open", "renewing", "revoked"}
ChangeStages == {"idle", "savingPassword", "savingRole", "revokingOthers", "revokingAll"}

AccountsTypeOK ==
  /\ account \in [password : Nat, old : BOOLEAN, role : UserRoles]
  /\ login \in [Logins -> [stage : LoginStages, password : Nat,
                           role : UserRoles \cup {None}]]
  /\ token \in [Logins -> UserRoles \cup {None}]
  /\ change \in [Changes -> [stage : ChangeStages, by : Logins \cup {None},
                             role : UserRoles \cup {None}]]
  /\ passwords \in Nat
  /\ racing \subseteq Logins /\ undone \in BOOLEAN

NoLogin == [stage |-> "none", password |-> 0, role |-> None]
NoChange == [stage |-> "idle", by |-> None, role |-> None]

AccountsInit ==
  /\ \E role \in UserRoles : account = [password |-> 0, old |-> TRUE, role |-> role]
  /\ login = [l \in Logins |-> NoLogin]
  /\ token = [l \in Logins |-> None]
  /\ change = [c \in Changes |-> NoChange]
  /\ passwords = 0
  /\ racing = {} /\ undone = FALSE

\* revokedAt is unset.
IsOpen(l) == login[l].stage \in {"open", "renewing"}

UnderWay(l) == login[l].stage \in {"checked", "opening", "renewing"}

-----------------------------------------------------------------------------
(* login *)

\* The user is read and the typed password fits the hash that was read.
CheckPassword(l) ==
  /\ login[l].stage = "none"
  /\ login' = [login EXCEPT ![l] =
       [stage |-> IF account.old THEN "checked" ELSE "opening",
        password |-> account.password, role |-> account.role]]
  /\ UNCHANGED <<account, token, change, passwords, racing, undone>>

\* needsRehash: the password that was typed, stored again without a condition.
UpgradeHash(l) ==
  /\ login[l].stage = "checked"
  /\ account' = [account EXCEPT !.password = login[l].password, !.old = FALSE]
  /\ undone' = (undone \/ account.password # login[l].password)
  /\ login' = [login EXCEPT ![l] = [login[l] EXCEPT !.stage = "opening"]]
  /\ UNCHANGED <<token, change, passwords, racing>>

\* startSession: the token names the role that was read.
StartSession(l) ==
  /\ login[l].stage = "opening"
  /\ login' = [login EXCEPT ![l] = [login[l] EXCEPT !.stage = "open", !.role = None]]
  /\ token' = [token EXCEPT ![l] = login[l].role]
  /\ UNCHANGED <<account, change, passwords, racing, undone>>

-----------------------------------------------------------------------------
(* refresh *)

\* The session is matched and the user read.
ReadForRefresh(l) ==
  /\ login[l].stage = "open"
  /\ login' = [login EXCEPT ![l] = [login[l] EXCEPT !.stage = "renewing", !.role = account.role]]
  /\ UNCHANGED <<account, token, change, passwords, racing, undone>>

\* mintAccess
MintAccess(l) ==
  /\ login[l].stage = "renewing"
  /\ login' = [login EXCEPT ![l] = [login[l] EXCEPT !.stage = "open", !.role = None]]
  /\ token' = [token EXCEPT ![l] = login[l].role]
  /\ UNCHANGED <<account, change, passwords, racing, undone>>

-----------------------------------------------------------------------------
(* What ends logins *)

Revoke(which) ==
  login' = [l \in Logins |-> IF l \in which /\ IsOpen(l)
                             THEN [login[l] EXCEPT !.stage = "revoked"] ELSE login[l]]

\* logout, revokeSessions, revokeUserSessions
EndLogins(which) ==
  /\ \E l \in which : IsOpen(l)
  /\ Revoke(which)
  /\ UNCHANGED <<account, token, change, passwords, racing, undone>>

\* changePassword: the current password was asked for and fits.
AskNewPassword(c, by) ==
  /\ change[c].stage = "idle"
  /\ IsOpen(by)
  /\ passwords < MaxPasswords
  /\ change' = [change EXCEPT ![c] = [stage |-> "savingPassword", by |-> by, role |-> None]]
  /\ UNCHANGED <<account, login, token, passwords, racing, undone>>

SavePassword(c) ==
  /\ change[c].stage = "savingPassword"
  /\ passwords < MaxPasswords
  /\ passwords' = passwords + 1
  /\ account' = [account EXCEPT !.password = passwords + 1, !.old = FALSE]
  /\ change' = [change EXCEPT ![c] = [change[c] EXCEPT !.stage = "revokingOthers"]]
  /\ login' = [login EXCEPT ![change[c].by] =
       [login[change[c].by] EXCEPT !.password = passwords + 1]]
  /\ racing' = racing \cup {l \in Logins : UnderWay(l)}
  /\ UNCHANGED <<token, undone>>

\* (mutant) The others are looked up by the caller's own login.
RevokeNobody(c) ==
  /\ change[c].stage = "revokingOthers"
  /\ Revoke({change[c].by})
  /\ change' = [change EXCEPT ![c] = NoChange]
  /\ UNCHANGED <<account, token, passwords, racing, undone>>

RevokeOthers(c) ==
  /\ change[c].stage = "revokingOthers"
  /\ Revoke(Logins \ {change[c].by})
  /\ change' = [change EXCEPT ![c] = NoChange]
  /\ UNCHANGED <<account, token, passwords, racing, undone>>

\* updateUserRole
AskNewRole(c, role) ==
  /\ change[c].stage = "idle"
  /\ change' = [change EXCEPT ![c] = [stage |-> "savingRole", by |-> None, role |-> role]]
  /\ UNCHANGED <<account, login, token, passwords, racing, undone>>

SaveRole(c) ==
  /\ change[c].stage = "savingRole"
  /\ account' = [account EXCEPT !.role = change[c].role]
  /\ change' = [change EXCEPT ![c] = [change[c] EXCEPT !.stage = "revokingAll"]]
  /\ racing' = racing \cup {l \in Logins : UnderWay(l)}
  /\ UNCHANGED <<login, token, passwords, undone>>

RevokeAll(c) ==
  /\ change[c].stage = "revokingAll"
  /\ Revoke(Logins)
  /\ change' = [change EXCEPT ![c] = NoChange]
  /\ UNCHANGED <<account, token, passwords, racing, undone>>

OneAccount ==
  \/ \E l \in Logins : CheckPassword(l) \/ UpgradeHash(l) \/ StartSession(l)
                       \/ ReadForRefresh(l) \/ MintAccess(l)
  \/ \E which \in SUBSET Logins : EndLogins(which)
  \/ \E c \in Changes, l \in Logins : AskNewPassword(c, l)
  \/ \E c \in Changes, role \in UserRoles : AskNewRole(c, role)
  \/ \E c \in Changes : SavePassword(c) \/ RevokeOthers(c) \/ SaveRole(c) \/ RevokeAll(c)

AccountsSpec == AccountsInit /\ [][OneAccount]_accountVars

-----------------------------------------------------------------------------
(* Properties *)

\* Once a change of password or role is through, no login opened before it is left
\* with the old password's admission or the old role's token, except one that was
\* being opened or renewed just then (changePassword: "anyone already signed in
\* elsewhere must be kicked out"; updateUserRole: "their old tokens still claim the
\* old role").
StaleLoginsEnd ==
  \A l \in Logins \ racing :
    IsOpen(l) => \/ \E c \in Changes : change[c].stage \in {"revokingOthers", "revokingAll"}
                 \/ /\ token[l] = account.role
                    /\ undone \/ login[l].password = account.password
=============================================================================
