------------------------------ MODULE Meetings ------------------------------
(***************************************************************************)
(* Meetings of land owners with architects: the architect's hours, the     *)
(* slots they leave free, booking one, settling the place, moving and      *)
(* cancelling (controllers/meetings.controller.ts, services/slots.ts,      *)
(* models/Meeting.ts).                                                     *)
(*                                                                         *)
(* Times count half meetings.  A handler reads, checks and writes; what it *)
(* reads before its last check can be read there as well, for nothing else *)
(* depends on it.                                                          *)
(***************************************************************************)
EXTENDS Naturals, FiniteSets, Nothing

CONSTANTS
  Meetings,      \* the meetings that can be booked
  Bookers,       \* land owners
  Hosts,         \* architects, verified
  MeetRequests,  \* the requests that can be under way together
  OpenHours,     \* the calendars a host may publish: sets of <<open, close>>
  Venues,        \* where they may ask to meet: "ONLINE", "OFFICE", "PROPOSE"
  LastTime,      \* bound: no slot begins later
  LastNow        \* bound: the clock stops here

SlotLength == 2
Parties == {"LAND_OWNER", "ARCHITECT"}
other == [party \in Parties |-> CHOOSE q \in Parties : q # party]

Blocking == {"CONFIRMED", "PENDING_VENUE"}

\* `answered` stands for the venue's history: the outcome of its last entry.
MeetingDoc == [host : Hosts, booker : Bookers, start : Nat,
               status : Blocking \cup {"CANCELLED"}, office : BOOLEAN,
               awaitingFrom : Parties \cup {None},
               answered : {"none", "PENDING", "ACCEPTED", "REJECTED"}]

ASSUME MeetingsAssumption ==
  /\ LastTime \in Nat /\ LastNow \in Nat
  /\ OpenHours \subseteq SUBSET (Nat \X Nat)
  /\ Venues \subseteq {"ONLINE", "OFFICE", "PROPOSE"}
  /\ None \notin Meetings \cup Bookers \cup Hosts \cup Parties \cup MeetingDoc

VARIABLES
  hours,     \* Availability of each host: the rules, or None when it is not published
  meeting,   \* Meeting documents
  handling,  \* each request: how far, and what it is about
  now,
  \* --- history, read by no action
  tangled    \* two requests crossed where neither the index nor the version parts them

meetingVars == <<hours, meeting, handling, now, tangled>>

NoHandling == [stage |-> "idle", about |-> None, booker |-> None, host |-> None,
               start |-> 0, place |-> "OFFICE", party |-> "LAND_OWNER", stale |-> FALSE]

MeetingsTypeOK ==
  /\ hours \in [Hosts -> OpenHours \cup {None}]
  /\ meeting \in [Meetings -> MeetingDoc \cup {None}]
  /\ handling \in [MeetRequests ->
       [stage : {"idle", "clashing", "booking", "countering", "agreeing", "settling",
                 "cancelling", "moving"},
        about : Meetings \cup {None}, booker : Bookers \cup {None}, host : Hosts \cup {None},
        start : Nat, place : Venues \cup {"OFFICE"}, party : Parties, stale : BOOLEAN]]
  /\ now \in 0..LastNow
  /\ tangled \in BOOLEAN

MeetingsInit ==
  /\ hours = [a \in Hosts |-> None]
  /\ meeting = [m \in Meetings |-> None]
  /\ handling = [r \in MeetRequests |-> NoHandling]
  /\ now = 0
  /\ tangled = FALSE

Overlap(s, t) == s < t + SlotLength /\ t < s + SlotLength
Holds(m) == meeting[m] # None /\ meeting[m].status \in Blocking

-----------------------------------------------------------------------------
(* Slots *)

\* generateSlotDays: each rule is walked in steps of a slot, up to its closing time.
SlotsOf(rules) ==
  {t \in 0..LastTime : \E rule \in rules :
     /\ t >= rule[1] /\ (t - rule[1]) % SlotLength = 0
     /\ t + SlotLength <= rule[2]}

\* loadSlotDays: meetings that have begun are not loaded.
FreeSlots(a, ignored) ==
  {t \in SlotsOf(hours[a]) : t >= now
     /\ \A m \in Meetings \ ignored : Holds(m) /\ meeting[m].host = a /\ meeting[m].start >= now =>
          ~Overlap(t, meeting[m].start)}

\* PUT /api/meetings/availability: the calendar is opened with some hours, or closed.
SaveAvailability(a, rules) ==
  /\ rules # {}
  /\ hours' = [hours EXCEPT ![a] = rules]
  /\ UNCHANGED <<meeting, handling, now, tangled>>

-----------------------------------------------------------------------------
(* Requests *)

Takes(r, next) == handling[r].stage = "idle" /\ handling' = [handling EXCEPT ![r] = next]
Done(r) == handling' = [handling EXCEPT ![r] = NoHandling]

Wants(r) == handling[r].stage \in {"clashing", "booking", "moving"}

\* The time asked for overlaps one another request is about to take, and the index on
\* host and start does not tell them apart; or a meeting of the host is on.
Collides(r, a, k, t) ==
  \/ \E q \in MeetRequests \ {r} :
       /\ Wants(q) /\ Overlap(t, handling[q].start)
       /\ handling[q].booker = k \/ (handling[q].host = a /\ handling[q].start # t)
  \/ \E m \in Meetings : /\ Holds(m) /\ meeting[m].host = a
                         /\ meeting[m].start < now /\ Overlap(t, meeting[m].start)

\* POST /api/meetings: published hours, a free slot.
BookMeeting(r, m, k, a, t, place) ==
  /\ Takes(r, [NoHandling EXCEPT !.stage = "clashing", !.about = m, !.booker = k, !.host = a,
                                 !.start = t, !.place = place])
  /\ meeting[m] = None /\ \A q \in MeetRequests : handling[q].about # m
  /\ hours[a] # None /\ t \in FreeSlots(a, {})
  /\ tangled' = (tangled \/ Collides(r, a, k, t))
  /\ UNCHANGED <<hours, meeting, now>>

\* The booker must not be elsewhere.
CheckClash(r) ==
  LET elsewhere == \E m \in Meetings : /\ Holds(m) /\ meeting[m].booker = handling[r].booker
                                       /\ Overlap(meeting[m].start, handling[r].start) IN
  /\ handling[r].stage = "clashing"
  /\ handling' = [handling EXCEPT ![r] =
       IF elsewhere THEN NoHandling ELSE [handling[r] EXCEPT !.stage = "booking"]]
  /\ UNCHANGED <<hours, meeting, now, tangled>>

\* The unique index: one blocking meeting for each host and start.
Taken(m, a, t) == \E n \in Meetings \ {m} : Holds(n) /\ meeting[n].host = a /\ meeting[n].start = t

Booked(w) ==
  [host |-> w.host, booker |-> w.booker, start |-> w.start,
   status |-> IF w.place = "PROPOSE" THEN "PENDING_VENUE" ELSE "CONFIRMED",
   office |-> w.place = "OFFICE",
   awaitingFrom |-> IF w.place = "PROPOSE" THEN "ARCHITECT" ELSE None,
   answered |-> IF w.place = "PROPOSE" THEN "PENDING" ELSE "none"]

\* (mutant) No index.
InsertAnyway(r) ==
  /\ handling[r].stage = "booking"
  /\ meeting' = [meeting EXCEPT ![handling[r].about] = Booked(handling[r])]
  /\ Done(r)
  /\ UNCHANGED <<hours, now, tangled>>

InsertMeeting(r) ==
  LET w == handling[r] IN
  /\ w.stage = "booking"
  /\ IF Taken(w.about, w.host, w.start) THEN UNCHANGED meeting
     ELSE meeting' = [meeting EXCEPT ![w.about] = Booked(w)]
  /\ Done(r)
  /\ UNCHANGED <<hours, now, tangled>>

\* A save that leaves the meeting blocking is refused by the index when its time is taken.
SaveMeeting(m, doc) ==
  meeting' = IF doc.status \in Blocking /\ Taken(m, doc.host, doc.start) THEN meeting
             ELSE [meeting EXCEPT ![m] = doc]

Loads(r, m, stage, party) ==
  Takes(r, [NoHandling EXCEPT !.stage = stage, !.about = m, !.party = party])

\* assertCanAnswerVenue
CanAnswer(m, party) ==
  /\ meeting[m] # None
  /\ meeting[m].status = "PENDING_VENUE" /\ meeting[m].awaitingFrom = party

\* The answer is saved over one that left the version alone, or over a cancellation.
AnswerTangles(m) == tangled' = (tangled \/ meeting[m].status # "PENDING_VENUE")

-----------------------------------------------------------------------------
(* The place *)

ProposeVenue(r, m, party) ==
  /\ Loads(r, m, "countering", party)
  /\ CanAnswer(m, party)
  /\ UNCHANGED <<hours, meeting, now, tangled>>

AcceptVenue(r, m, party) ==
  /\ Loads(r, m, "agreeing", party)
  /\ CanAnswer(m, party)
  /\ UNCHANGED <<hours, meeting, now, tangled>>

\* Either side may settle on the office; the host has one on file.
ChooseOffice(r, m) ==
  /\ Loads(r, m, "settling", "LAND_OWNER")
  /\ meeting[m] # None /\ meeting[m].status = "PENDING_VENUE"
  /\ UNCHANGED <<hours, meeting, now, tangled>>

\* The entry answered is set by its position, which asks for the version; only the new
\* entry of a counter-proposal moves it.
SaveCounter(r) ==
  LET m == handling[r].about IN
  /\ handling[r].stage = "countering"
  /\ IF handling[r].stale THEN UNCHANGED meeting /\ Done(r)
     ELSE /\ SaveMeeting(m, [meeting[m] EXCEPT !.awaitingFrom = other[handling[r].party],
                                               !.answered = "PENDING"])
          /\ handling' = [q \in MeetRequests |->
               IF q = r THEN NoHandling
               ELSE IF handling[q].about = m THEN [handling[q] EXCEPT !.stale = TRUE]
               ELSE handling[q]]
  /\ AnswerTangles(m)
  /\ UNCHANGED <<hours, now>>

SaveAgreed(r) ==
  LET m == handling[r].about IN
  /\ handling[r].stage = "agreeing"
  /\ IF handling[r].stale THEN UNCHANGED meeting
     ELSE SaveMeeting(m, [meeting[m] EXCEPT !.status = "CONFIRMED", !.awaitingFrom = None,
                                            !.answered = "ACCEPTED"])
  /\ Done(r)
  /\ AnswerTangles(m)
  /\ UNCHANGED <<hours, now>>

SaveOffice(r) ==
  LET m == handling[r].about IN
  /\ handling[r].stage = "settling"
  /\ IF handling[r].stale THEN UNCHANGED meeting
     ELSE SaveMeeting(m, [meeting[m] EXCEPT !.status = "CONFIRMED", !.awaitingFrom = None,
                                            !.office = TRUE, !.answered = "REJECTED"])
  /\ Done(r)
  /\ AnswerTangles(m)
  /\ UNCHANGED <<hours, now>>

-----------------------------------------------------------------------------
(* Calling off and moving *)

Ahead(m) == meeting[m] # None /\ meeting[m].status # "CANCELLED" /\ meeting[m].start + SlotLength >= now

CancelMeeting(r, m) ==
  /\ Loads(r, m, "cancelling", "LAND_OWNER")
  /\ Ahead(m)
  /\ UNCHANGED <<hours, meeting, now, tangled>>

\* Sets no element of the history, so nothing asks for the version.
SaveCancelled(r) ==
  LET m == handling[r].about IN
  /\ handling[r].stage = "cancelling"
  /\ SaveMeeting(m, [meeting[m] EXCEPT !.status = "CANCELLED", !.awaitingFrom = None])
  /\ Done(r)
  /\ UNCHANGED <<hours, now, tangled>>

\* POST /api/meetings/:id/reschedule.  Where the booker is then is not asked.
RescheduleMeeting(r, m, t) ==
  /\ Ahead(m)
  /\ Takes(r, [NoHandling EXCEPT !.stage = "moving", !.about = m, !.host = meeting[m].host,
                                 !.booker = meeting[m].booker, !.start = t])
  /\ hours[meeting[m].host] # None /\ t \in FreeSlots(meeting[m].host, {m})
  /\ tangled' = (tangled \/ Collides(r, meeting[m].host, meeting[m].booker, t))
  /\ UNCHANGED <<hours, meeting, now>>

SaveMoved(r) ==
  LET m == handling[r].about IN
  /\ handling[r].stage = "moving"
  /\ SaveMeeting(m, [meeting[m] EXCEPT !.start = handling[r].start])
  /\ Done(r)
  /\ UNCHANGED <<hours, now, tangled>>

PassTime ==
  /\ now < LastNow /\ now' = now + 1
  /\ UNCHANGED <<hours, meeting, handling, tangled>>

MeetingsNext ==
  \/ \E a \in Hosts, rules \in OpenHours \cup {None} : SaveAvailability(a, rules)
  \/ \E r \in MeetRequests, m \in Meetings, k \in Bookers, a \in Hosts, t \in 0..LastTime,
        place \in Venues : BookMeeting(r, m, k, a, t, place)
  \/ \E r \in MeetRequests : CheckClash(r) \/ InsertMeeting(r) \/ SaveCounter(r) \/ SaveAgreed(r)
       \/ SaveOffice(r) \/ SaveCancelled(r) \/ SaveMoved(r)
  \/ \E r \in MeetRequests, m \in Meetings, party \in Parties :
       ProposeVenue(r, m, party) \/ AcceptVenue(r, m, party)
  \/ \E r \in MeetRequests, m \in Meetings : ChooseOffice(r, m) \/ CancelMeeting(r, m)
  \/ \E r \in MeetRequests, m \in Meetings, t \in 0..LastTime : RescheduleMeeting(r, m, t)
  \/ PassTime

MeetingsSpec == MeetingsInit /\ [][MeetingsNext]_meetingVars

-----------------------------------------------------------------------------
(* Properties *)

\* An architect is never promised to two meetings at once, and what a meeting says of its
\* place agrees with the last proposal: it waits for an answer exactly while one is open,
\* meets at the office only when the proposal was turned down, and elsewhere only when it
\* was accepted.  Excepted are the crossings that `tangled` names.
CalendarHolds ==
  ~tangled =>
    /\ \A m, n \in Meetings : m # n /\ Holds(m) /\ Holds(n) /\ meeting[m].host = meeting[n].host =>
         ~Overlap(meeting[m].start, meeting[n].start)
    /\ \A m \in Meetings : Holds(m) =>
         LET doc == meeting[m] IN
         /\ (doc.status = "PENDING_VENUE") <=> (doc.awaitingFrom # None)
         /\ (doc.status = "PENDING_VENUE") <=> (doc.answered = "PENDING")
         /\ doc.answered = "REJECTED" <=> (doc.office /\ doc.answered # "none")

=============================================================================
