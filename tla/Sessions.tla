------------------------------ MODULE Sessions ------------------------------
(***************************************************************************)
(* One login: the Session document, the refresh cookie in the browser's    *)
(* jar, and the tabs that share the jar.  Every refresh replaces the       *)
(* cookie's token; a token replaced more than the grace period ago is read *)
(* as a replay and ends the login (auth.controller.ts refresh and logout,  *)
(* middleware/auth.ts, apps/web lib/api.ts and SessionSync.tsx).           *)
(*                                                                         *)
(* Tokens are numbered in the order they are minted.  Requests and answers *)
(* travel between a tab and the API, may take up to Delay and may be lost. *)
(***************************************************************************)
EXTENDS Naturals, Nothing

CONSTANTS
  Tabs,        \* the open tabs of one browser
  Grace,       \* ROTATION_GRACE_MS
  Delay,       \* how long a message takes at most
  MaxMinted    \* bound: refresh tokens ever minted

\* How a call travels: to the API, inside refresh, and back.
Stages == {"sent", "looking", "answering"}

\* Why the tab asked: renew() of SessionSync, the retry of request(), the user's
\* "log out", or the refresh between a refused "log out" and its repetition.
Errands == {"renew", "retry", "logout", "logoutRetry", "logoutAgain"}

\* Whether an answer sets the cookie, to a token or to nothing, and succeeds.
Answer == [sets : BOOLEAN, cookie : Nat \cup {None}, ok : BOOLEAN]

\* late: the grace period was over when refresh read the clock.
Call == [errand : Errands, stage : Stages, token : Nat \cup {None}, fresh : BOOLEAN,
         age : 0..Delay, late : BOOLEAN, answer : Answer \cup {None}]

\* The grace period is "far longer than that race": it holds a rotation, its answer
\* and a request that crosses that answer.
ASSUME SessionsAssumption ==
  /\ Grace \in Nat /\ Delay \in Nat \ {0} /\ 3 * Delay <= Grace
  /\ MaxMinted \in Nat
  /\ None \notin Nat /\ None \notin Answer /\ None \notin Call

VARIABLES
  session,     \* Session: refreshTokenHash, previousTokenHash, revokedAt
  sinceRotation, \* now - rotatedAt, counted up to one past Grace
  agent,       \* the browser's User-Agent, against Session.userAgent
  expired,     \* idle for too long, or too old: liveSessionFilter no longer matches
  minted,      \* the last refresh token minted
  jar,         \* the refresh cookie, or None
  access,      \* each tab's access token: "none", "fresh" or "stale"
  call,        \* the request each tab waits for
  \* --- history, read by no action
  lost,        \* an answer that set or cleared the cookie was lost
  overtaken,   \* a refresh was under way while its token was replaced twice
  loggedOut    \* the API has answered a "log out"

historyVars == <<lost, overtaken, loggedOut>>
sessionVars == <<session, sinceRotation, agent, expired, minted, jar, access, call, historyVars>>

SessionsTypeOK ==
  /\ session \in [hash : Nat, previous : Nat \cup {None}, revoked : BOOLEAN]
  /\ sinceRotation \in 0..Grace + 1 /\ minted \in Nat
  /\ agent \in {"recorded", "changed"} /\ expired \in BOOLEAN
  /\ jar \in Nat \cup {None}
  /\ access \in [Tabs -> {"none", "fresh", "stale"}]
  /\ call \in [Tabs -> Call \cup {None}]
  /\ lost \in BOOLEAN /\ overtaken \in BOOLEAN /\ loggedOut \in BOOLEAN

Refreshing(t) == call[t] # None /\ call[t].errand \notin {"logout", "logoutAgain"}
LoggingOut(t) == call[t] # None /\ call[t].errand \in {"logout", "logoutAgain"}
AtStage(t, stage) == call[t] # None /\ call[t].stage = stage

\* liveSessionFilter
Live == ~session.revoked /\ ~expired

\* startSession has just answered one tab; the others were open before.
SessionsInit ==
  /\ session = [hash |-> 0, previous |-> None, revoked |-> FALSE]
  /\ sinceRotation = 0
  /\ agent = "recorded" /\ expired = FALSE
  /\ minted = 0 /\ jar = 0
  /\ access \in [Tabs -> {"none", "fresh"}]
  /\ \E t \in Tabs : access[t] = "fresh"
  /\ call = [t \in Tabs |-> None]
  /\ lost = FALSE /\ overtaken = FALSE /\ loggedOut = FALSE

-----------------------------------------------------------------------------
(* The tabs *)

Send(t, errand, token, fresh) ==
  call' = [call EXCEPT ![t] =
    [errand |-> errand, stage |-> "sent", token |-> token, fresh |-> fresh,
     age |-> 0, late |-> FALSE, answer |-> None]]

\* renew: on load, on a timer, on focus.  refreshInFlight lets a tab send one at a time.
Renew(t) ==
  /\ call[t] = None
  /\ Send(t, "renew", jar, FALSE)
  /\ UNCHANGED <<session, sinceRotation, agent, expired, minted, jar, access, historyVars>>

\* request: a call with an aged token, or on an ended login, came back 401.
Retry(t) ==
  /\ call[t] = None
  /\ (access[t] = "stale" \/ (access[t] = "fresh" /\ ~Live))
  /\ Send(t, "retry", jar, FALSE)
  /\ UNCHANGED <<session, sinceRotation, agent, expired, minted, jar, access, historyVars>>

\* handleLogout: the request goes out, and the store forgets the token.
LogOut(t) ==
  /\ call[t] = None
  /\ access[t] # "none"
  /\ Send(t, "logout", None, access[t] = "fresh")
  /\ access' = [access EXCEPT ![t] = "none"]
  /\ UNCHANGED <<session, sinceRotation, agent, expired, minted, jar, historyVars>>

\* The access token's fifteen minutes are over.
AccessExpires(t) ==
  /\ access[t] = "fresh"
  /\ access' = [access EXCEPT ![t] = "stale"]
  /\ UNCHANGED <<session, sinceRotation, agent, expired, minted, jar, call, historyVars>>

-----------------------------------------------------------------------------
(* POST /api/auth/refresh *)

Reply(t, answer) ==
  call' = [call EXCEPT ![t] = [call[t] EXCEPT
    !.stage = "answering", !.age = 0, !.answer = answer]]

\* setRefreshCookie, clearRefreshCookie, or neither.
SetCookie(token) == [sets |-> TRUE, cookie |-> token, ok |-> TRUE]
ClearCookie(ok) == [sets |-> TRUE, cookie |-> None, ok |-> ok]
KeepCookie(ok) == [sets |-> FALSE, cookie |-> None, ok |-> ok]

\* parseRefreshToken: without a cookie there is nothing to do.
RefuseAnonymous(t) ==
  /\ Refreshing(t) /\ AtStage(t, "sent")
  /\ call[t].token = None
  /\ Reply(t, KeepCookie(FALSE))
  /\ UNCHANGED <<session, sinceRotation, agent, expired, minted, jar, access, historyVars>>

\* The compare-and-swap: only the holder of the current token rotates.  A login
\* used under another User-Agent has been rotated too when the binding ends it.
Rotate(t) ==
  /\ Refreshing(t) /\ AtStage(t, "sent")
  /\ call[t].token # None
  /\ call[t].token = session.hash /\ Live
  /\ minted < MaxMinted
  /\ minted' = minted + 1
  /\ session' = [hash |-> minted + 1, previous |-> call[t].token,
                 revoked |-> agent = "changed"]
  /\ sinceRotation' = 0
  /\ Reply(t, IF agent = "changed" THEN ClearCookie(FALSE) ELSE SetCookie(minted + 1))
  /\ overtaken' = (overtaken \/ \E u \in Tabs \ {t} :
       /\ Refreshing(u) /\ ~AtStage(u, "answering")
       /\ call[u].token # None /\ call[u].token # session.hash)
  /\ UNCHANGED <<agent, expired, jar, access, lost, loggedOut>>

\* Nothing matched: the token was replaced, or the session is gone.
MissRotation(t) ==
  /\ Refreshing(t) /\ AtStage(t, "sent")
  /\ call[t].token # None
  /\ call[t].token # session.hash \/ ~Live
  /\ call' = [call EXCEPT ![t] = [call[t] EXCEPT
       !.stage = "looking", !.age = 0, !.late = sinceRotation > Grace]]
  /\ UNCHANGED <<session, sinceRotation, agent, expired, minted, jar, access, historyVars>>

\* (mutant) No grace: a token that was just replaced counts as a replay.
NoGrace(t) ==
  /\ Refreshing(t) /\ AtStage(t, "looking")
  /\ call[t].token = session.previous
  /\ session' = [session EXCEPT !.revoked = TRUE]
  /\ Reply(t, ClearCookie(FALSE))
  /\ UNCHANGED <<sinceRotation, agent, expired, minted, jar, access, historyVars>>

\* A token replaced long ago: the login is ended.
EndReplayed(t) ==
  /\ Refreshing(t) /\ AtStage(t, "looking")
  /\ call[t].token = session.previous
  /\ call[t].late
  /\ session' = [session EXCEPT !.revoked = TRUE]
  /\ Reply(t, ClearCookie(FALSE))
  /\ UNCHANGED <<sinceRotation, agent, expired, minted, jar, access, historyVars>>

\* The other tab just rotated: an access token, and the cookie is left alone.
GrantGrace(t) ==
  /\ Refreshing(t) /\ AtStage(t, "looking")
  /\ call[t].token = session.previous
  /\ ~call[t].late
  /\ Reply(t, KeepCookie(TRUE))
  /\ UNCHANGED <<session, sinceRotation, agent, expired, minted, jar, access, historyVars>>

\* Neither the current token nor the one before it, or the login is over.
RefuseUnknown(t) ==
  /\ Refreshing(t) /\ AtStage(t, "looking")
  /\ call[t].token # session.previous
  /\ Reply(t, ClearCookie(FALSE))
  /\ UNCHANGED <<session, sinceRotation, agent, expired, minted, jar, access, historyVars>>

-----------------------------------------------------------------------------
(* POST /api/auth/logout, behind requireAuth *)

\* requireAuth refuses an aged token, an ended login or another User-Agent, which
\* it ends (touchSession), before the handler runs.
RefuseLogout(t) ==
  /\ LoggingOut(t) /\ AtStage(t, "sent")
  /\ ~call[t].fresh \/ ~Live \/ agent = "changed"
  /\ session' = [session EXCEPT !.revoked = @ \/ (call[t].fresh /\ Live)]
  /\ Reply(t, KeepCookie(FALSE))
  /\ UNCHANGED <<sinceRotation, agent, expired, minted, jar, access, historyVars>>

EndSession(t) ==
  /\ LoggingOut(t) /\ AtStage(t, "sent")
  /\ call[t].fresh /\ Live /\ agent = "recorded"
  /\ session' = [session EXCEPT !.revoked = TRUE]
  /\ Reply(t, ClearCookie(TRUE))
  /\ UNCHANGED <<sinceRotation, agent, expired, minted, jar, access, historyVars>>

-----------------------------------------------------------------------------
(* The answers *)

\* The browser applies the Set-Cookie header, and the tab takes what it was given:
\* a refreshed "log out" is sent again, once.
Deliver(t) ==
  LET answer == call[t].answer
      errand == call[t].errand
  IN
  /\ AtStage(t, "answering")
  /\ jar' = IF answer.sets THEN answer.cookie ELSE jar
  /\ access' = IF Refreshing(t)
               THEN [access EXCEPT ![t] = IF answer.ok THEN "fresh"
                                          ELSE IF errand = "renew" THEN "none" ELSE @]
               ELSE access
  /\ call' = [call EXCEPT ![t] =
       IF errand = "logout" /\ ~answer.ok
       THEN [call[t] EXCEPT !.errand = "logoutRetry", !.stage = "sent",
               !.token = jar', !.age = 0, !.answer = None]
       ELSE IF errand = "logoutRetry" /\ answer.ok
       THEN [call[t] EXCEPT !.errand = "logoutAgain", !.stage = "sent",
               !.token = None, !.fresh = TRUE, !.age = 0, !.late = FALSE, !.answer = None]
       ELSE None]
  /\ loggedOut' = (loggedOut \/ errand \in {"logout", "logoutAgain"})
  /\ UNCHANGED <<session, sinceRotation, agent, expired, minted, lost, overtaken>>

\* The network drops the request or the answer, or handleLogout's navigation to
\* the home page abandons what the tab was waiting for.
LoseCall(t) ==
  /\ call[t] # None
  /\ call[t].stage \in {"sent", "answering"}
  /\ call' = [call EXCEPT ![t] = None]
  /\ lost' = (lost \/ (AtStage(t, "answering") /\ call[t].answer.sets))
  /\ access' = IF call[t].errand = "renew" THEN [access EXCEPT ![t] = "none"] ELSE access
  /\ UNCHANGED <<session, sinceRotation, agent, expired, minted, jar, overtaken, loggedOut>>

-----------------------------------------------------------------------------
(* Time *)

\* Nothing in flight is older than Delay.
Tick ==
  /\ \A t \in Tabs : call[t] # None => call[t].age < Delay
  /\ call' = [t \in Tabs |-> IF call[t] = None THEN None
                            ELSE [call[t] EXCEPT !.age = call[t].age + 1]]
  /\ sinceRotation' = IF sinceRotation <= Grace THEN sinceRotation + 1 ELSE sinceRotation
  /\ UNCHANGED <<session, agent, expired, minted, jar, access, historyVars>>

\* SESSION_IDLE_HOURS or SESSION_MAX_HOURS: hours after the last rotation, where
\* the grace period is seconds, and no request takes hours.
Expire ==
  /\ ~expired
  /\ sinceRotation > Grace
  /\ \A t \in Tabs : call[t] = None
  /\ expired' = TRUE
  /\ UNCHANGED <<session, sinceRotation, agent, minted, jar, access, call, historyVars>>

\* The browser updates itself while the login lasts.
UpdateBrowser ==
  /\ agent = "recorded"
  /\ agent' = "changed"
  /\ UNCHANGED <<session, sinceRotation, expired, minted, jar, access, call, historyVars>>

SessionsNext ==
  \/ \E t \in Tabs : Renew(t) \/ Retry(t) \/ LogOut(t) \/ AccessExpires(t)
  \/ \E t \in Tabs : RefuseAnonymous(t) \/ Rotate(t) \/ MissRotation(t)
                     \/ EndReplayed(t) \/ GrantGrace(t) \/ RefuseUnknown(t)
  \/ \E t \in Tabs : RefuseLogout(t) \/ EndSession(t)
  \/ \E t \in Tabs : Deliver(t) \/ LoseCall(t)
  \/ Tick \/ UpdateBrowser
  \/ Expire

SessionsSpec == SessionsInit /\ [][SessionsNext]_sessionVars

-----------------------------------------------------------------------------
(* Properties *)

NoLogoutAsked == ~loggedOut /\ \A t \in Tabs :
  call[t] = None \/ call[t].errand \in {"renew", "retry"}

\* Tabs that race each other's refreshes never end the login by themselves: as
\* long as no answer is lost and the browser is the same, a replaced token is never taken for a replay, and
\* once the answers are in the jar holds the token the database expects, unless a
\* refresh was overtaken by two rotations (auth.controller.ts refresh: "The tabs
\* share one cookie jar, so the winner's Set-Cookie has already delivered a valid
\* token to this browser").
TabsKeepTheirLogin ==
  (~lost /\ NoLogoutAsked /\ agent = "recorded") =>
    /\ ~session.revoked
    /\ (~overtaken /\ ~expired /\ \A t \in Tabs : call[t] = None) => jar = session.hash

-----------------------------------------------------------------------------
(* What the comments say, and the code does not do *)

\* auth.controller.ts logout: "Someone pressing "log out" must end up signed out
\* even if their access token had already expired": no live refresh cookie is left in
\* the browser once the API has answered and the tabs are at rest.
LogoutLeavesNoLogin ==
  (loggedOut /\ (\A t \in Tabs : call[t] = None) /\ ~lost) =>
    (jar = None \/ ~Live)
=============================================================================
