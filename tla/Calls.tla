------------------------------- MODULE Calls --------------------------------
(***************************************************************************)
(* Calls between two people: the row that is the record, the map in memory *)
(* that routes the signals, and the events of two browsers that drop off   *)
(* and come back (realtime/signaling.ts, realtime/push.ts, models/Call.ts).*)
(*                                                                         *)
(* One of the two always dials.  The offers, answers and candidates that   *)
(* are only relayed change nothing and are left out.                       *)
(***************************************************************************)
EXTENDS Naturals, FiniteSets, Nothing

CONSTANTS
  CallIds,         \* the calls
  Handlers,        \* the socket events that can be in flight together
  MaxCallRestarts  \* bound: restarts of the server

People == {"caller", "callee"}
CallStatus == {"RINGING", "ACCEPTED", "REJECTED", "MISSED", "ENDED", "CANCELLED"}
CallRow == [status : CallStatus, answered : BOOLEAN, ended : BOOLEAN]

ASSUME CallsAssumption == MaxCallRestarts \in Nat /\ None \notin CallIds \cup CallRow

VARIABLES
  row,          \* Call: status, and whether answeredAt and endedAt are set
  active,       \* activeCalls
  online,       \* who has a tab connected (isUserOnline)
  handler,      \* each event: how far, its call, whose it is, the status it read or sets
  outages,      \* restarts so far
  \* --- history, read by no action
  clashed       \* calls accepted while they were being ended, declined in one tab once
                \* answered in another, dialled while a party dropped off, or under
                \* way at a restart

callVars == <<row, active, online, handler, outages, clashed>>

HandlerStages == {"idle", "dialling", "ringing", "accepting", "asking", "reading",
                  "stamping", "leaving", "sweeping"}

CallsTypeOK ==
  /\ row \in [CallIds -> CallRow \cup {None}]
  /\ active \subseteq CallIds
  /\ online \subseteq People
  /\ handler \in [Handlers -> [stage : HandlerStages, call : CallIds \cup {None},
                               by : People \cup {None}, status : CallStatus \cup {None},
                               sweeps : BOOLEAN]]
  /\ outages \in 0..MaxCallRestarts
  /\ clashed \subseteq CallIds

NoEvent == [stage |-> "idle", call |-> None, by |-> None, status |-> None, sweeps |-> FALSE]

CallsInit ==
  /\ row = [c \in CallIds |-> None]
  /\ active = {}
  /\ online = People
  /\ handler = [h \in Handlers |-> NoEvent]
  /\ outages = 0
  /\ clashed = {}

HandleEvent(h, stage, c, by, status) ==
  handler' = [handler EXCEPT ![h] =
    [stage |-> stage, call |-> c, by |-> by, status |-> status, sweeps |-> handler[h].sweeps]]

EventAt(h, stage) == handler[h].stage = stage

\* What else is under way on a call.
Accepting(c) == \E h \in Handlers : handler[h].call = c /\ EventAt(h, "accepting")
Ending(c) == \E h \in Handlers : handler[h].call = c /\ handler[h].stage \in {"asking", "reading", "stamping"}

-----------------------------------------------------------------------------
(* call:start *)

\* The caller's tab dials; the target is looked up and the row created.
Dial(h, c) ==
  /\ EventAt(h, "idle") /\ "caller" \in online
  /\ row[c] = None /\ \A g \in Handlers : handler[g].call # c
  /\ HandleEvent(h, "dialling", c, "caller", None)
  /\ UNCHANGED <<row, active, online, outages, clashed>>

CreateCall(h) ==
  /\ EventAt(h, "dialling")
  /\ row' = [row EXCEPT ![handler[h].call] =
       [status |-> "RINGING", answered |-> FALSE, ended |-> FALSE]]
  /\ HandleEvent(h, "ringing", handler[h].call, "caller", None)
  /\ UNCHANGED <<active, online, outages, clashed>>

\* Back from the await: a callee who is offline has missed it, else it rings.
Ring(h) ==
  LET c == handler[h].call IN
  /\ EventAt(h, "ringing")
  /\ IF "callee" \in online
     THEN /\ active' = active \cup {c}
          /\ handler' = [handler EXCEPT ![h] = NoEvent]
     ELSE /\ HandleEvent(h, "reading", c, "caller", "MISSED")
          /\ UNCHANGED active
  /\ UNCHANGED <<row, online, outages, clashed>>

-----------------------------------------------------------------------------
(* call:accept *)

Accept(h, c) ==
  /\ EventAt(h, "idle") /\ "callee" \in online
  /\ c \in active
  /\ HandleEvent(h, "accepting", c, "callee", None)
  /\ clashed' = IF Ending(c) THEN clashed \cup {c} ELSE clashed
  /\ UNCHANGED <<row, active, online, outages>>

\* findByIdAndUpdate, whatever the row has become.
SaveAccepted(h) ==
  LET c == handler[h].call IN
  /\ EventAt(h, "accepting")
  /\ row' = [row EXCEPT ![c] = [row[c] EXCEPT !.status = "ACCEPTED", !.answered = TRUE]]
  /\ handler' = [handler EXCEPT ![h] = NoEvent]
  /\ UNCHANGED <<active, online, outages, clashed>>

-----------------------------------------------------------------------------
(* How a call ends: finalize *)

\* Its first line runs before any await: the call leaves the map.
Finalize(h, c, by, status) ==
  /\ active' = active \ {c}
  /\ HandleEvent(h, "reading", c, by, status)
  /\ clashed' = IF Accepting(c) \/ (row[c].status = "ACCEPTED" /\ status # "ENDED")
                THEN clashed \cup {c} ELSE clashed

\* The handler is through, or a disconnect goes on to the next call.
EventDone(h) ==
  handler' = [handler EXCEPT ![h] =
    IF handler[h].sweeps THEN [NoEvent EXCEPT !.stage = "sweeping", !.by = handler[h].by,
                                              !.sweeps = TRUE]
    ELSE NoEvent]

\* (mutant) A call that has ended is stamped again.
ReadAnyCall(h) ==
  /\ EventAt(h, "reading")
  /\ HandleEvent(h, "stamping", handler[h].call, handler[h].by, handler[h].status)
  /\ UNCHANGED <<row, active, online, outages, clashed>>

\* The first one to end the call stamps it.
ReadCall(h) ==
  /\ EventAt(h, "reading")
  /\ IF row[handler[h].call].ended THEN EventDone(h)
     ELSE HandleEvent(h, "stamping", handler[h].call, handler[h].by, handler[h].status)
  /\ UNCHANGED <<row, active, online, outages, clashed>>

StampCall(h) ==
  LET c == handler[h].call IN
  /\ EventAt(h, "stamping")
  /\ row' = [row EXCEPT ![c] = [row[c] EXCEPT !.status = handler[h].status, !.ended = TRUE]]
  /\ EventDone(h)
  /\ UNCHANGED <<active, online, outages, clashed>>

\* call:reject and call:cancel
Reject(h, c) ==
  /\ EventAt(h, "idle") /\ "callee" \in online
  /\ c \in active
  /\ Finalize(h, c, "callee", "REJECTED")
  /\ UNCHANGED <<row, online, outages>>

Cancel(h, c) ==
  /\ EventAt(h, "idle") /\ "caller" \in online
  /\ c \in active
  /\ Finalize(h, c, "caller", "CANCELLED")
  /\ UNCHANGED <<row, online, outages>>

\* call:hangup: whether the call was answered is read first.
HangUp(h, c, p) ==
  /\ EventAt(h, "idle") /\ p \in online
  /\ c \in active
  /\ HandleEvent(h, "asking", c, p, None)
  /\ clashed' = IF Accepting(c) THEN clashed \cup {c} ELSE clashed
  /\ UNCHANGED <<row, active, online, outages>>

Unanswered(h) ==
  IF handler[h].sweeps THEN "MISSED"
  ELSE IF handler[h].by = "caller" THEN "CANCELLED" ELSE "REJECTED"

AskStatus(h) ==
  LET c == handler[h].call IN
  /\ EventAt(h, "asking")
  /\ Finalize(h, c, handler[h].by,
              IF row[c].status = "ACCEPTED" THEN "ENDED" ELSE Unanswered(h))
  /\ UNCHANGED <<row, online, outages>>

-----------------------------------------------------------------------------
(* Connections *)

Connect(p) ==
  /\ p \notin online
  /\ online' = online \cup {p}
  /\ UNCHANGED <<row, active, handler, outages, clashed>>

\* The last tab goes: touchLastSeen is awaited first.
Disconnect(h, p) ==
  /\ EventAt(h, "idle") /\ p \in online
  /\ online' = online \ {p}
  /\ handler' = [handler EXCEPT ![h] = [NoEvent EXCEPT !.stage = "leaving", !.by = p, !.sweeps = TRUE]]
  /\ clashed' = clashed \cup {c \in CallIds : \E g \in Handlers :
       handler[g].call = c /\ handler[g].stage \in {"dialling", "ringing"}}
  /\ UNCHANGED <<row, active, outages>>

\* Someone who is back already keeps their calls.
Leave(h) ==
  /\ EventAt(h, "leaving")
  /\ handler' = [handler EXCEPT ![h] = IF handler[h].by \in online THEN NoEvent
                                       ELSE [handler[h] EXCEPT !.stage = "sweeping"]]
  /\ UNCHANGED <<row, active, online, outages, clashed>>

\* The loop over the map takes the next call, or ends.
Sweep(h) ==
  /\ EventAt(h, "sweeping")
  /\ IF active = {}
     THEN /\ handler' = [handler EXCEPT ![h] = NoEvent]
          /\ UNCHANGED clashed
     ELSE \E c \in active :
            /\ HandleEvent(h, "asking", c, handler[h].by, None)
            /\ clashed' = IF Accepting(c) THEN clashed \cup {c} ELSE clashed
  /\ UNCHANGED <<row, active, online, outages>>

\* The server restarts: the map and the handlers are gone, and the tabs reconnect.
RestartServer ==
  /\ outages < MaxCallRestarts
  /\ outages' = outages + 1
  /\ active' = {} /\ online' = {}
  /\ handler' = [h \in Handlers |-> NoEvent]
  /\ clashed' = clashed \cup {c \in CallIds : row[c] # None /\ ~row[c].ended}
  /\ UNCHANGED row

CallsNext ==
  \/ \E h \in Handlers : CreateCall(h) \/ Ring(h) \/ SaveAccepted(h) \/ ReadCall(h)
                         \/ StampCall(h) \/ AskStatus(h) \/ Leave(h) \/ Sweep(h)
  \/ \E h \in Handlers, c \in CallIds : Dial(h, c) \/ Accept(h, c) \/ Reject(h, c) \/ Cancel(h, c)
  \/ \E h \in Handlers, c \in CallIds, p \in People : HangUp(h, c, p)
  \/ \E h \in Handlers, p \in People : Disconnect(h, p)
  \/ \E p \in People : Connect(p)
  \/ RestartServer

CallsSpec == CallsInit /\ [][CallsNext]_callVars

-----------------------------------------------------------------------------
(* Properties *)

\* Once the events on a call are through, the map and the record agree: a call that
\* can still be signalled on is on record as going on between two people who are
\* there, and one that was answered ended as answered.  Excepted are calls accepted
\* while they were being ended, declined in a second tab that rang on, dialled while
\* one of the two dropped off, or under way at a restart (signaling.ts: "The DB row is
\* the durable record; this map is just the live routing table").
RecordAndMapAgree ==
  \A c \in CallIds \ clashed :
    (row[c] # None /\ \A h \in Handlers : handler[h].call # c) =>
      /\ c \in active <=> ~row[c].ended
      /\ row[c].ended <=> row[c].status \notin {"RINGING", "ACCEPTED"}
      /\ row[c].answered <=> row[c].status \in {"ACCEPTED", "ENDED"}
      /\ (c \in active /\ \A h \in Handlers : ~handler[h].sweeps) => online = People
=============================================================================
