----------------------------- MODULE OutsideServices -----------------------------
(***************************************************************************)
(* What Pilot Core does with the services around it: the focus that follows  *)
(* a voice satellite, spoken answers, the assistant's exchanges, the home    *)
(* lab and the firmware of display nodes.  They share no state: component    *)
(* says which one a behaviour is about, and the others rest.  What           *)
(* FirmwareUpdate has is had directly.                                      *)
(***************************************************************************)
EXTENDS FirmwareUpdate, Sequences, FiniteSets

CONSTANTS
  MaxStates, MaxTroubles,                                  \* of AssistFocus
  Devices, Portable, Rooms, Assets, Turns, MaxUpsets,      \* of RoomSpeech
  Lights, Texts, RoomLights, Sessions, Requests,           \* of Assistant
  MaxTurns, MaxCalls, MaxTalks,
  Readers, Clients, Migrations, Providers, CacheTime,      \* of HomeLab
  ConfirmTime, MaxTime, MaxShifts

VARIABLES
  component,  \* the one the behaviour is about
  satellite, subscribed, news, noted, todo, online, waiting, line, flags, lapsed, lost, moves,
  troubles,
  devices, rows, clips, used, turns, sent, read, orphans, upsets,
  sessions, asked, last, talks,
  world, reachable, cached, asking, planned, submitted, clock, shifts

satellites == <<satellite, subscribed, news, noted, todo, online, waiting, line, flags, lapsed,
  lost, moves, troubles>>
speech == <<devices, rows, clips, used, turns, sent, read, orphans, upsets>>
exchanges == <<sessions, asked, last, talks>>
lab == <<world, reachable, cached, asking, planned, submitted, clock, shifts>>

Focus == INSTANCE AssistFocus
Speech == INSTANCE RoomSpeech WITH files <- clips
Assist == INSTANCE Assistant
Lab == INSTANCE HomeLab

\* The constants are what they stand for.
ASSUME ServicesConstants ==
  /\ ConstantsFit /\ Focus!BoundsAssumption /\ Speech!BoundsAssumption
  /\ Assist!BoundsAssumption /\ Lab!BoundsAssumption

\* Each component keeps the types of its own variables.
TypesOK == TypeOK /\ Focus!TypeOK /\ Speech!TypeOK /\ Assist!TypeOK /\ Lab!TypeOK

\* Where the devices are matters to speech only.
Somewhere == CHOOSE r \in Rooms : TRUE

ServicesInit ==
  /\ component \in {"satellites", "speech", "exchanges", "lab", "firmware"}
  /\ Init /\ Focus!Init /\ Speech!Init /\ Assist!Init /\ Lab!Init
  /\ component = "speech" \/ \A d \in Devices : devices[d].room = Somewhere

FirmwareNext ==
  /\ component = "firmware" /\ Next
  /\ UNCHANGED <<component, satellites, speech, exchanges, lab>>
SatellitesNext ==
  /\ component = "satellites" /\ Focus!Next
  /\ UNCHANGED <<component, vars, speech, exchanges, lab>>
SpeechNext ==
  /\ component = "speech" /\ Speech!Next
  /\ UNCHANGED <<component, vars, satellites, exchanges, lab>>
ExchangesNext ==
  /\ component = "exchanges" /\ Assist!Next
  /\ UNCHANGED <<component, vars, satellites, speech, lab>>
LabNext ==
  /\ component = "lab" /\ Lab!Next
  /\ UNCHANGED <<component, vars, satellites, speech, exchanges>>

ServicesNext == FirmwareNext \/ SatellitesNext \/ SpeechNext \/ ExchangesNext \/ LabNext

ServicesSpec ==
  ServicesInit /\ [][ServicesNext]_<<component, vars, satellites, speech, exchanges, lab>>

-----------------------------------------------------------------------------
\* A room that has executed every command has no focus but what its satellite asks for, and all
\* of that but what ended since it was set, with its lifetime or with the agent that held it,
\* unless an event or a command was lost, late or overtaken (assist_focus.py, controls.py).
FocusFollows == Focus!FocusFollows

\* What the assistant says is heard by one device at most, the one that is told to play it
\* (audio_assets.py, api.py dispatch_audio_asset).
SpeechIsPrivate == Speech!SpeechIsPrivate

\* A request changes a light it names; the room's, where it mentions lights or refers back to what
\* the exchange just before it in its session changed; or, by a pronoun, exactly that light
\* (conversation.py _recent_light_referent, _resolve_light).
FollowUpGrounded == Assist!FollowUpGrounded

\* Nobody is given home lab data out of the cache that was read longer ago than the cache time,
\* and one prepared migration is submitted to Proxmox at most once (homelab.py snapshot,
\* confirm_migration).
LabHolds == Lab!ServedIsRecent /\ Lab!MigratesOnce

\* No request reaches for a light twice, and after a change the reply does not say that nothing
\* was changed (conversation.py respond).
ActsOnceAndSaysSo == Assist!ActsOnceAndSaysSo
=============================================================================
