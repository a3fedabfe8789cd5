------------------------------ MODULE RoomReports ------------------------------
(***************************************************************************)
(* What Core knows of a room's audio sources.  The agent's reporter posts    *)
(* the sources that changed since its last complete report, one by one;     *)
(* Core stores each of them and derives the focus it shows.                 *)
(***************************************************************************)
EXTENDS Naturals, FiniteSets

CONSTANTS
  Sources,     \* a subset of those that are reported
  MaxChanges,  \* starts and stops of sources
  MaxFaults    \* requests that fail, restarts of the agent

VARIABLES
  active,    \* the sources that are active in the room
  previous,  \* EventReporter.previous_sources
  report,    \* the report under way: what it saw, and what it has yet to post
  shown,     \* source_state in Core: the sources it takes for active
  torn,      \* history: a report broke off after Core had stored a part of it
  changes, faults

vars == <<active, previous, report, shown, torn, changes, faults>>

BoundsAssumption == {MaxChanges, MaxFaults} \subseteq Nat

\* A fresh reporter has no previous value of any source.
Values == {"on", "off", "none"}
Value(on) == IF on THEN "on" ELSE "off"
Idle == [at |-> "idle", seen |-> {}, left |-> {}, stored |-> FALSE]

TypeOK ==
  /\ active \subseteq Sources /\ shown \subseteq Sources
  /\ previous \in [Sources -> Values]
  /\ report \in [at: {"idle", "health", "sources"}, seen: SUBSET Sources,
                 left: SUBSET Sources, stored: BOOLEAN]
  /\ torn \in BOOLEAN
  /\ changes \in 0..MaxChanges /\ faults \in 0..MaxFaults

Init ==
  /\ active = {} /\ shown = {} /\ torn = FALSE
  /\ previous = [s \in Sources |-> "none"]
  /\ report = Idle
  /\ changes = 0 /\ faults = 0

-----------------------------------------------------------------------------
\* Music starts or ends, somebody speaks, a flag expires.
SourceChanges(s) ==
  /\ changes < MaxChanges /\ changes' = changes + 1
  /\ active' = IF s \in active THEN active \ {s} ELSE active \cup {s}
  /\ UNCHANGED <<previous, report, shown, torn, faults>>

\* The status is collected.  (A round in which nothing changed posts the health
\* alone and is left out.)
Collect ==
  /\ report.at = "idle"
  /\ active # {s \in Sources : previous[s] = "on"} \/ \E s \in Sources : previous[s] = "none"
  /\ report' = [at |-> "health", seen |-> active, stored |-> FALSE,
                left |-> {s \in Sources : previous[s] # Value(s \in active)}]
  /\ UNCHANGED <<active, previous, shown, torn, changes, faults>>

\* The health of the room is posted first.
PostHealth ==
  /\ report.at = "health"
  /\ report' = [report EXCEPT !.at = "sources"]
  /\ UNCHANGED <<active, previous, shown, torn, changes, faults>>

\* record_event: the event and the state of the source, in one transaction.
Store(s) == shown' = IF s \in report.seen THEN shown \cup {s} ELSE shown \ {s}

PostSource(s) ==
  /\ report.at = "sources" /\ s \in report.left
  /\ Store(s)
  /\ report' = [report EXCEPT !.left = @ \ {s}, !.stored = TRUE]
  /\ UNCHANGED <<active, previous, torn, changes, faults>>

\* Only a complete report becomes the previous one.
Complete ==
  /\ report.at = "sources" /\ report.left = {}
  /\ previous' = [s \in Sources |-> Value(s \in report.seen)]
  /\ report' = Idle
  /\ UNCHANGED <<active, shown, torn, changes, faults>>

\* Mutant: the sources count as reported from the moment they are collected.
KeepSeen == previous' = [s \in Sources |-> Value(s \in report.seen)]

\* What the reporter keeps of a report that broke off.
KeepPrevious == UNCHANGED previous

Fault == faults < MaxFaults /\ faults' = faults + 1

\* A request is lost, refused or times out; Core may have stored what it brought.
BreaksOff ==
  /\ Fault /\ report.at # "idle"
  /\ \/ /\ torn' = (torn \/ report.stored) /\ UNCHANGED shown
     \/ \E s \in report.left : report.at = "sources" /\ Store(s) /\ torn' = TRUE
  /\ report' = Idle /\ KeepPrevious
  /\ UNCHANGED <<active, changes>>

\* The agent starts anew and reports everything.
AgentRestarts ==
  /\ Fault
  /\ previous' = [s \in Sources |-> "none"] /\ report' = Idle
  /\ UNCHANGED <<active, shown, torn, changes>>

-----------------------------------------------------------------------------
ReporterStep == Collect \/ PostHealth \/ (\E s \in Sources : PostSource(s)) \/ Complete
Next ==
  \/ \E s \in Sources : SourceChanges(s) \/ PostSource(s)
  \/ Collect \/ PostHealth \/ Complete \/ BreaksOff \/ AgentRestarts

Spec == Init /\ [][Next]_vars
FairSpec == Spec /\ WF_vars(ReporterStep)

-----------------------------------------------------------------------------
\* When the room is calm and Core can be reached, Core in the end shows the
\* sources that are active, unless a report broke off halfway: what it had
\* brought is then not in previous_sources, and a source that has gone back to
\* its previous value is never reported again.
ShownInTheEnd == <>[](shown = active \/ torn)

\* What the reporter remembers as reported is what Core shows, so that leaving an
\* unchanged source out of the next report loses nothing: through lost requests
\* and restarts in any order, unless a report broke off halfway.  While the sources
\* of a report arrive it holds of those that are not part of it.
RememberedIsShown ==
  \A s \in Sources :
    \/ torn \/ previous[s] = "none"
    \/ report.stored /\ previous[s] # Value(s \in report.seen)
    \/ previous[s] = Value(s \in shown)
=============================================================================
