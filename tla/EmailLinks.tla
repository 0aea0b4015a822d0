----------------------------- MODULE EmailLinks -----------------------------
(***************************************************************************)
(* Proving an address: the account's e-mail, the links mailed to confirm   *)
(* it, the clicks that spend them, and the change of address that makes    *)
(* them stale (services/emailVerification.ts, auth.controller.ts           *)
(* changeEmail, sendVerificationEmail and verifyEmail).                    *)
(*                                                                         *)
(* Links are numbered in the order their records are created.              *)
(***************************************************************************)
EXTENDS Naturals, Nothing

CONSTANTS
  Addresses,   \* the addresses the account may be given
  Senders,     \* the requests that issue a link
  Clickers,    \* the requests that follow one
  Movers,      \* the requests that change the address
  MaxLinks,    \* bound: links ever created
  MaxMoves     \* bound: changes of address begun

ASSUME EmailLinksAssumption == MaxLinks \in Nat /\ MaxMoves \in Nat /\ None \notin Addresses

VARIABLES
  email,       \* User.email
  verified,    \* User.emailVerifiedAt is set
  record,      \* EmailVerification: the links the account has, and their address
  cooling,     \* the newest record's wait is not over yet
  mailed,      \* links that reached a mailbox
  sender,      \* each issuing request: how far, the address and link it works on
  clicker,     \* each click: how far, the link, what it read of the account
  mover,       \* each change of address: the new one, and whether its save unsets `verified`
  links,       \* the last link created
  moves,       \* changes of address begun
  \* --- history, read by no action
  proved,      \* addresses a link that was mailed to them has been followed for
  outrun       \* a click was saved, or about to be, between a change's reading and its save

emailVars == <<email, verified, record, cooling, mailed, sender, clicker, mover, links,
               moves, proved, outrun>>

EmailTypeOK ==
  /\ email \in Addresses /\ verified \in BOOLEAN
  /\ record \subseteq [link : 1..MaxLinks, address : Addresses]
  /\ cooling \in BOOLEAN
  /\ mailed \subseteq [link : 1..MaxLinks, address : Addresses]
  /\ sender \in [Senders -> [stage : {"idle", "deleting", "creating", "mailing"},
                             address : Addresses \cup {None}, link : 0..MaxLinks]]
  /\ clicker \in [Clickers -> [stage : {"idle", "found", "saving", "spending"},
                               address : Addresses \cup {None}, link : 0..MaxLinks]]
  /\ mover \in [Movers -> [address : Addresses, unsets : BOOLEAN] \cup {None}]
  /\ links \in 0..MaxLinks /\ moves \in 0..MaxMoves
  /\ proved \subseteq Addresses /\ outrun \in BOOLEAN

AtRest == [stage |-> "idle", address |-> None, link |-> 0]

\* register has just created the account.
EmailInit ==
  /\ email \in Addresses /\ verified = FALSE
  /\ record = {} /\ cooling = FALSE /\ mailed = {}
  /\ sender = [s \in Senders |-> AtRest] /\ clicker = [c \in Clickers |-> AtRest]
  /\ mover = [m \in Movers |-> None]
  /\ links = 0 /\ moves = 0 /\ proved = {} /\ outrun = FALSE

-----------------------------------------------------------------------------
(* issueVerification *)

\* The caller's copy of the account is not verified, and no wait is owed.
Issue(s) ==
  /\ sender[s].stage = "idle"
  /\ ~verified
  /\ record = {} \/ ~cooling
  /\ sender' = [sender EXCEPT ![s] = [stage |-> "deleting", address |-> email, link |-> 0]]
  /\ UNCHANGED <<email, verified, record, cooling, mailed, clicker, mover, links, moves, proved, outrun>>

DeleteOlder(s) ==
  /\ sender[s].stage = "deleting"
  /\ record' = {}
  /\ sender' = [sender EXCEPT ![s] = [sender[s] EXCEPT !.stage = "creating"]]
  /\ UNCHANGED <<email, verified, cooling, mailed, clicker, mover, links, moves, proved, outrun>>

CreateLink(s) ==
  /\ sender[s].stage = "creating"
  /\ links < MaxLinks
  /\ links' = links + 1
  /\ record' = record \cup {[link |-> links + 1, address |-> sender[s].address]}
  /\ cooling' = TRUE
  /\ sender' = [sender EXCEPT ![s] = [sender[s] EXCEPT !.stage = "mailing", !.link = links + 1]]
  /\ UNCHANGED <<email, verified, mailed, clicker, mover, moves, proved, outrun>>

MailLink(s) ==
  /\ sender[s].stage = "mailing"
  /\ mailed' = mailed \cup {[link |-> sender[s].link, address |-> sender[s].address]}
  /\ sender' = [sender EXCEPT ![s] = AtRest]
  /\ UNCHANGED <<email, verified, record, cooling, clicker, mover, links, moves, proved, outrun>>

\* The mail server would not take it: every record of the account goes.
MailFails(s) ==
  /\ sender[s].stage = "mailing"
  /\ record' = {}
  /\ sender' = [sender EXCEPT ![s] = AtRest]
  /\ UNCHANGED <<email, verified, cooling, mailed, clicker, mover, links, moves, proved, outrun>>

\* The ladder's wait passes.
WaitIsOver ==
  /\ cooling
  /\ cooling' = FALSE
  /\ UNCHANGED <<email, verified, record, mailed, sender, clicker, mover, links, moves, proved, outrun>>

\* LINK_TTL_HOURS: the TTL sweep, or the deletion by a click that came too late.
ExpireLink(r) ==
  /\ r \in record
  /\ record' = record \ {r}
  /\ UNCHANGED <<email, verified, cooling, mailed, sender, clicker, mover, links, moves, proved, outrun>>

-----------------------------------------------------------------------------
(* consumeVerification *)

\* A link that is in a mailbox and in the database, not expired.
FindRecord(c, r) ==
  /\ clicker[c].stage = "idle"
  /\ r \in mailed \cap record
  /\ clicker' = [clicker EXCEPT ![c] = [stage |-> "found", address |-> r.address, link |-> r.link]]
  /\ proved' = proved \cup {r.address}
  /\ UNCHANGED <<email, verified, record, cooling, mailed, sender, mover, links, moves, outrun>>

\* (mutant) The address on the record is not compared with the account's.
TakeAnyAddress(c) ==
  /\ clicker[c].stage = "found"
  /\ clicker' = [clicker EXCEPT ![c] =
       [clicker[c] EXCEPT !.stage = IF verified THEN "spending" ELSE "saving"]]
  /\ UNCHANGED <<email, verified, record, cooling, mailed, sender, mover, links, moves, proved, outrun>>

\* The account is read: a link for another address is stale and only deleted.
ReadAccount(c) ==
  /\ clicker[c].stage = "found"
  /\ clicker' = [clicker EXCEPT ![c] = [clicker[c] EXCEPT
       !.stage = IF clicker[c].address = email /\ ~verified THEN "saving" ELSE "spending"]]
  /\ UNCHANGED <<email, verified, record, cooling, mailed, sender, mover, links, moves, proved, outrun>>

SaveVerified(c) ==
  /\ clicker[c].stage = "saving"
  /\ verified' = TRUE
  /\ clicker' = [clicker EXCEPT ![c] = [clicker[c] EXCEPT !.stage = "spending"]]
  /\ UNCHANGED <<email, record, cooling, mailed, sender, mover, links, moves, proved, outrun>>

\* record.deleteOne
SpendLink(c) ==
  /\ clicker[c].stage = "spending"
  /\ record' = {r \in record : r.link # clicker[c].link}
  /\ clicker' = [clicker EXCEPT ![c] = AtRest]
  /\ UNCHANGED <<email, verified, cooling, mailed, sender, mover, links, moves, proved, outrun>>

-----------------------------------------------------------------------------
(* changeEmail *)

\* The account is read and the new address is another one; the password and the other
\* accounts are looked at before anything is saved.
ReadForChange(m, a) ==
  /\ mover[m] = None
  /\ moves < MaxMoves /\ a # email
  /\ mover' = [mover EXCEPT ![m] = [address |-> a, unsets |-> verified]]
  /\ moves' = moves + 1
  /\ UNCHANGED <<email, verified, record, cooling, mailed, sender, clicker, links, proved, outrun>>

\* (mutant) The new address keeps the old one's standing.
ChangeKeepsStanding(m) ==
  /\ mover[m] # None
  /\ email' = mover[m].address
  /\ mover' = [mover EXCEPT ![m] = None]
  /\ UNCHANGED <<verified, record, cooling, mailed, sender, clicker, links, moves, proved, outrun>>

\* "A new address is an unproved address": but only what changed in the copy is saved, and
\* a copy that was not verified has nothing to unset.  The new link is a request's of its own.
ChangeEmail(m) ==
  /\ mover[m] # None
  /\ email' = mover[m].address
  /\ verified' = (verified /\ ~mover[m].unsets)
  /\ outrun' = (outrun \/ verified' \/ \E c \in Clickers : clicker[c].stage = "saving")
  /\ mover' = [mover EXCEPT ![m] = None]
  /\ UNCHANGED <<record, cooling, mailed, sender, clicker, links, moves, proved>>

OneAddress ==
  \/ \E s \in Senders : Issue(s) \/ DeleteOlder(s) \/ CreateLink(s) \/ MailLink(s) \/ MailFails(s)
  \/ WaitIsOver
  \/ \E r \in record : ExpireLink(r)
  \/ \E c \in Clickers : \/ \E r \in mailed : FindRecord(c, r)
                         \/ ReadAccount(c) \/ SaveVerified(c) \/ SpendLink(c)
  \/ \E m \in Movers : (\E a \in Addresses : ReadForChange(m, a)) \/ ChangeEmail(m)

EmailSpec == EmailInit /\ [][OneAddress]_emailVars

-----------------------------------------------------------------------------
(* Properties *)

\* A verified address is one whose own link was followed, although links of several
\* requests cross each other and changes of address, unless a click and a change had both
\* read the account before either saved it (emailVerification.ts: "it no longer proves
\* anything about the address the account currently uses").
VerifiedWasProved == verified => email \in proved \/ outrun
=============================================================================
