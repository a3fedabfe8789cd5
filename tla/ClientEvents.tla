----------------------------- MODULE ClientEvents -----------------------------
(***************************************************************************)
(* The product event log of Pilot Core and the update loop of the iOS       *)
(* client.  Core numbers every change, keeps the last Retention events and  *)
(* answers requests with a cursor; the client shows a view per topic and    *)
(* fetches a topic again when an event says that it changed.  The loop      *)
(* begins with a refresh of everything, continues from a product snapshot   *)
(* and then polls for as long as polling works.                             *)
(***************************************************************************)
EXTENDS Integers, Sequences, FiniteSets, FiniteSetsExt

CONSTANTS
  Topics,         \* parts of the view: home, media, energy, meetings...
  Hidden,         \* topic of the events the device's room or capabilities exclude
  Retention,      \* 10_000: events that are kept
  PollLimit,      \* 100: events in the answer of a poll
  SnapshotLimit,  \* 200: events in a product snapshot
  MaxEvents,      \* events explored
  MaxFailures,    \* requests of the client that fail
  FirstStart      \* whether the client starts without a kept cursor

NoCursor == -1

BoundsAssumption ==
  /\ Hidden \notin Topics
  /\ {Retention, PollLimit, SnapshotLimit, MaxEvents} \subseteq Nat \ {0}
  /\ MaxFailures \in Nat /\ FirstStart \in BOOLEAN

VARIABLES
  \* Pilot Core
  log,       \* the topics of all events ever recorded, in revision order
  floor,     \* events up to this revision have been deleted
  \* the client
  at,        \* the await of runUpdateLoop the client is in
  cursor,    \* eventCursor, kept in UserDefaults; NoCursor before the first
  view,      \* topic -> the last change the client's copy includes
  fetching,  \* topics of a refresh that are still to be fetched
  events,    \* revisions still to be handled
  adopt,     \* the cursor of the answer whose events are being handled
  \* history and budget
  missed,    \* topics whose last fetch failed: the view says so
  pruned,    \* whether an answer followed a cursor whose events had been deleted
  truncated, \* whether there were more events than an answer may have
  failures

core == <<log, floor>>
vars == <<core, at, cursor, view, fetching, events, adopt, missed, pruned, truncated,
          failures>>

Newest == Len(log)
Revisions == 0..MaxEvents
Awaits == {"refresh", "snapshot", "snapshot events", "handle", "poll",
           "recovery", "recovery events"}

TypeOK ==
  /\ log \in Seq(Topics \cup {Hidden}) /\ Newest \in Revisions
  /\ floor \in Revisions
  /\ at \in Awaits
  /\ cursor \in Revisions \cup {NoCursor}
  /\ view \in [Topics -> Revisions]
  /\ fetching \subseteq Topics /\ events \subseteq Revisions
  /\ adopt \in Revisions
  /\ missed \subseteq Topics /\ pruned \in BOOLEAN /\ truncated \in BOOLEAN
  /\ failures \in 0..MaxFailures

Init ==
  /\ log = <<>> /\ floor = 0
  /\ at = "refresh" /\ cursor = IF FirstStart THEN NoCursor ELSE 0
  /\ view = [t \in Topics |-> 0]
  /\ fetching = Topics /\ events = {} /\ adopt = 0
  /\ missed = {} /\ pruned = FALSE /\ truncated = FALSE /\ failures = 0

-----------------------------------------------------------------------------
(* The log.                                                                *)

\* The last change of a topic.
Latest(t) == Max({0} \cup {i \in 1..Newest : log[i] = t})

\* The events after a cursor that the device may see.
Visible(c) == {i \in (floor + 1)..Newest : i > c /\ log[i] # Hidden}

\* Mutant: the cursor is that of the first event wanted.
EventsFrom(c, limit) ==
  LET visible == Visible(c + 1)
  IN  {i \in visible : Cardinality({j \in visible : j <= i}) <= limit}

\* client_events_after: the oldest of them, up to a limit.
EventsAfter(c, limit) ==
  {i \in Visible(c) : Cardinality({j \in Visible(c) : j <= i}) <= limit}

\* Whether that leaves some out.
Exceeds(c, limit) == Cardinality(Visible(c)) > limit

\* client_event_bounds, of which the maximum is Newest.
Minimum == IF floor < Newest THEN floor + 1 ELSE 0

\* Mutant: the event before the oldest one kept is taken for that one.
NeedsResetLate(c) == c > Newest \/ (Minimum > 0 /\ c + 1 < Minimum - 1)

\* reset_required and resync_required.
NeedsReset(c) == c > Newest \/ (Minimum > 0 /\ c < Minimum - 1)

\* record_client_event, after the change of the topic it announces.
Publish(t) ==
  /\ Newest < MaxEvents
  /\ log' = Append(log, t)
  /\ floor' = Max({floor, IF Newest + 1 > Retention THEN Newest + 1 - Retention ELSE 0})
  /\ UNCHANGED <<at, cursor, view, fetching, events, adopt, missed, pruned, truncated, failures>>

-----------------------------------------------------------------------------
(* The client.                                                             *)

\* One of the requests of refresh or of the refreshes in handle.
Fetched(T) ==
  /\ view' = [t \in Topics |-> IF t \in T THEN Latest(t) ELSE view[t]]
  /\ missed' = missed \ T
  /\ UNCHANGED failures

Unfetched(T) ==
  /\ failures < MaxFailures /\ failures' = failures + 1
  /\ missed' = missed \cup T
  /\ UNCHANGED view

\* refresh: a topic at a time.  The first fetch is the media state, whose
\* failure ends the refresh; the loop goes on in any case.
Refresh(t) ==
  /\ at = "refresh" /\ t \in fetching
  /\ \/ Fetched({t}) /\ fetching' = fetching \ {t}
     \/ Unfetched({t}) /\ fetching' = fetching \ {t}
     \/ fetching = Topics /\ Unfetched(Topics) /\ fetching' = {}
  /\ at' = IF fetching' = {} THEN "snapshot" ELSE "refresh"
  /\ UNCHANGED <<core, cursor, events, adopt, pruned, truncated>>

\* Mutant: the cursor is that of the next-to-last event.
SnapshotBeginsEarly(next) ==
  /\ adopt' = Newest - 1
  /\ at' = next

\* device_product_snapshot up to its first await: the revision is read.
SnapshotBegins(next) ==
  /\ adopt' = Newest
  /\ at' = next

\* Mutant: the cursor of the request is not looked at.
SnapshotEndsAtRevision(c) ==
  /\ events' = EventsAfter(adopt, SnapshotLimit)
  /\ truncated' = (truncated \/ Exceeds(adopt, SnapshotLimit))
  /\ at' = "handle"

\* ... and from its last await on: the events that happened since the cursor
\* of the request, or since the revision when there is none.
SnapshotEnds(c) ==
  LET from == IF c = NoCursor THEN adopt ELSE c IN
    /\ events' = EventsAfter(from, SnapshotLimit)
    /\ truncated' = (truncated \/ Exceeds(from, SnapshotLimit))
    /\ at' = "handle"

RequestSnapshot ==
  /\ at = "snapshot"
  /\ SnapshotBegins("snapshot events")
  /\ UNCHANGED <<core, cursor, view, fetching, events, missed, pruned, truncated, failures>>

\* The client does not look at resync_required.
SnapshotArrives ==
  /\ at = "snapshot events"
  /\ SnapshotEnds(cursor)
  /\ pruned' = (pruned \/ (cursor # NoCursor /\ NeedsReset(cursor)))
  /\ UNCHANGED <<core, cursor, view, fetching, adopt, missed, failures>>

\* try? makes nothing of an error.
SnapshotFails ==
  /\ at \in {"snapshot", "snapshot events"}
  /\ failures < MaxFailures /\ failures' = failures + 1
  /\ at' = "poll"
  /\ UNCHANGED <<core, cursor, view, fetching, events, adopt, missed, pruned, truncated>>

\* handle: the event's revision becomes the cursor, and its topic is fetched.
Handle ==
  /\ at = "handle" /\ events # {}
  /\ LET i == Min(events) IN
       /\ cursor' = i
       /\ events' = events \ {i}
       /\ Fetched({log[i]}) \/ Unfetched({log[i]})
  /\ UNCHANGED <<core, at, fetching, adopt, pruned, truncated>>

\* updateEventCursor with the cursor of the answer.
AdoptCursor ==
  /\ at = "handle" /\ events = {}
  /\ cursor' = adopt
  /\ at' = "poll"
  /\ UNCHANGED <<core, view, fetching, events, adopt, missed, pruned, truncated, failures>>

\* parse_event_cursor: a request without a cursor starts at the newest event.
PollFrom(c) == IF c = NoCursor THEN Newest ELSE c

\* device_events answers when there are events, and after 25 s without.
PollAnswered ==
  /\ at = "poll"
  /\ LET c == PollFrom(cursor) IN
       IF NeedsReset(c)
         THEN at' = "recovery" /\ UNCHANGED <<events, adopt, truncated>>
         ELSE /\ events' = EventsAfter(c, PollLimit)
              /\ truncated' = (truncated \/ Exceeds(c, PollLimit))
              /\ adopt' = Newest
              /\ at' = "handle"
  /\ pruned' = (pruned \/ NeedsReset(PollFrom(cursor)))
  /\ UNCHANGED <<core, cursor, view, fetching, missed, failures>>

\* A failed poll, or recovery, ends the inner loop: refresh, then the outer
\* loop begins again.
RequestFails ==
  /\ at \in {"poll", "recovery", "recovery events"}
  /\ failures < MaxFailures /\ failures' = failures + 1
  /\ at' = "refresh" /\ fetching' = Topics
  /\ UNCHANGED <<core, cursor, view, events, adopt, missed, pruned, truncated>>

\* After a reset: a snapshot without a cursor.
RequestRecovery ==
  /\ at = "recovery"
  /\ SnapshotBegins("recovery events")
  /\ UNCHANGED <<core, cursor, view, fetching, events, missed, pruned, truncated, failures>>

RecoveryArrives ==
  /\ at = "recovery events"
  /\ SnapshotEnds(NoCursor)
  /\ UNCHANGED <<core, cursor, view, fetching, adopt, missed, pruned, failures>>

\* The app is ended and started again: the loop begins anew, with the kept
\* cursor.
Restart ==
  /\ at # "refresh" /\ failures < MaxFailures
  /\ failures' = failures + 1
  /\ at' = "refresh" /\ fetching' = Topics /\ events' = {}
  /\ UNCHANGED <<core, cursor, view, adopt, missed, pruned, truncated>>

-----------------------------------------------------------------------------
ClientStep ==
  \/ \E t \in Topics : Refresh(t)
  \/ RequestSnapshot \/ SnapshotArrives \/ SnapshotFails
  \/ Handle \/ AdoptCursor
  \/ PollAnswered \/ RequestFails
  \/ RequestRecovery \/ RecoveryArrives

Next == (\E t \in Topics \cup {Hidden} : Publish(t)) \/ ClientStep \/ Restart

Spec == Init /\ [][Next]_vars

\* Every request of the client is answered or fails.
FairSpec == Spec /\ WF_vars(ClientStep)

-----------------------------------------------------------------------------
(* Properties.                                                             *)

\* A change that the client's view does not show is one it will still hear
\* of: its event is waiting to be handled, or the next request's cursor lies
\* before it.  Failed fetches excepted, of which the view tells.
NothingSkipped ==
  at = "poll" =>
    \A t \in Topics \ missed : Latest(t) > view[t] => Latest(t) > PollFrom(cursor)

\* The same of a client whose cursors were all answered from the log and in full:
\* nothing is skipped between what was fetched, what was announced and the next
\* request.
NothingSkippedUnpruned == pruned \/ truncated \/ NothingSkipped

\* A poll is told to reset exactly when events after its cursor have been
\* deleted; otherwise its answer lacks none that the device may see, as long as
\* they are no more than the limit.
ResetWhenPruned ==
  at = "poll" =>
    LET c == PollFrom(cursor)
    IN  /\ NeedsReset(c) <=> \E i \in 1..floor : i > c
        /\ ~NeedsReset(c) /\ ~Exceeds(c, PollLimit) =>
             \A i \in (c + 1)..Newest :
               log[i] # Hidden => i \in EventsAfter(c, PollLimit)

\* Once nothing changes any more, the view is that of Core, unless it says that a
\* fetch failed, a reset was needed or an answer was not complete.
EventuallyUpToDate ==
  <>[](pruned \/ truncated \/ \A t \in Topics : view[t] = Latest(t) \/ t \in missed)
=============================================================================
