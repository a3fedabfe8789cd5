------------------------------- MODULE PilotCore -------------------------------
(***************************************************************************)
(* Components of Pilot Core: who is let in, meetings, the home's catalogue,  *)
(* and the event log with the client that follows it.  They share the       *)
(* database file and no rows: component says which one a behaviour is       *)
(* about, and the others rest.  What DeviceAccess has is had directly.      *)
(***************************************************************************)
EXTENDS DeviceAccess, Sequences, FiniteSets

CONSTANTS
  Uploads, Processors, MaxWritten, MaxCrashes,             \* of Meetings
  Entities, Named, Hint, Other, NoArea,                    \* of HomeCatalogue
  MaxChanges, MaxRestarts,
  Topics, Hidden, Retention, PollLimit, SnapshotLimit,     \* of ClientEvents
  MaxEvents, MaxFailures, FirstStart

VARIABLES
  component,  \* the one the behaviour is about
  status, recording, transcript, evidence, author, uploads, procs, announced, written, crossed,
  died,
  ha, catalogue, override, sync, loop, latest, aged, said, changes, restarts,
  log, floor, at, cursor, view, fetching, events, adopt, missed, pruned, truncated,
  failures

meeting == <<status, recording, transcript, evidence, author, uploads, procs, announced,
  written, crossed, died>>
home == <<ha, catalogue, override, sync, loop, latest, aged, said, changes, restarts>>
client == <<log, floor, at, cursor, view, fetching, events, adopt, missed, pruned, truncated,
  failures>>

Meeting == INSTANCE Meetings
Home == INSTANCE HomeCatalogue WITH MaxCrashes <- MaxRestarts
Client == INSTANCE ClientEvents

\* The constants are what they stand for.
ASSUME CoreConstants ==
  /\ ConstantsFit /\ Meeting!BoundsAssumption /\ Home!BoundsAssumption
  /\ Client!BoundsAssumption

\* Each component keeps the types of its own variables.
TypesOK == TypeOK /\ Meeting!TypeOK /\ Home!TypeOK /\ Client!TypeOK

CoreInit ==
  /\ component \in {"access", "meeting", "home", "client"}
  /\ Init /\ Meeting!Init /\ Home!Init /\ Client!Init

AccessNext ==
  /\ component = "access" /\ Next
  /\ UNCHANGED <<component, meeting, home, client>>
MeetingNext ==
  /\ component = "meeting" /\ Meeting!Next
  /\ UNCHANGED <<component, vars, home, client>>
HomeNext ==
  /\ component = "home" /\ Home!Next
  /\ UNCHANGED <<component, vars, meeting, client>>
ClientNext ==
  /\ component = "client" /\ Client!Next
  /\ UNCHANGED <<component, vars, meeting, home>>

CoreNext == AccessNext \/ MeetingNext \/ HomeNext \/ ClientNext

CoreSpec == CoreInit /\ [][CoreNext]_<<component, vars, meeting, home, client>>

\* Each component is as fair as its own module says.
FairCoreSpec ==
  /\ CoreSpec
  /\ WF_vars(component = "access" /\ StreamStep)
  /\ \A p \in Processors : WF_meeting(component = "meeting" /\ Meeting!ProcessorStep(p))
  /\ WF_home(component = "home" /\ Home!LoopTurn)
  /\ WF_home(component = "home" /\ Home!IntervalPasses)
  /\ WF_home(component = "home" /\ Home!ReadStates)
  /\ WF_home(component = "home" /\ Home!ReadRegistry)
  /\ WF_home(component = "home" /\ Home!EndSync)
  /\ WF_client(component = "client" /\ Client!ClientStep)

-----------------------------------------------------------------------------
\* A meeting that is ready rests on its present recording and transcript, unless one of them was
\* replaced while a processor was at work.
ReadyIsConsistent == Meeting!ReadyIsConsistent

\* An entity reached without an explicit room is in the area the registries gave, never in one
\* guessed from a name (home_intelligence.py).
RoomIsRegistered == Home!RoomIsRegistered

\* A change the client's view does not show is one it will still hear of, and a poll is told to
\* reset exactly when events after its cursor have been deleted (storage.py client_events_after,
\* PilotModel.swift runUpdateLoop).
GapsAreTold == Client!NothingSkippedUnpruned /\ Client!ResetWhenPruned

\* A device that was told that its meeting is processing is told of the end, unless Core stopped
\* meanwhile (api.py process_device_meeting).
ProcessingEnds == Meeting!ProcessingEnds

\* If Home Assistant answers from some time on, the catalogue is fresh again and again
\* (home_intelligence.py run).
CatalogueRecovers == component = "home" => Home!CatalogueRecovers

\* Once nothing changes any more the client's view is that of Core, unless it says that a fetch
\* failed, a reset was needed or an answer was not complete.
EventuallyUpToDate == Client!EventuallyUpToDate
=============================================================================
