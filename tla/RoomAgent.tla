------------------------------- MODULE RoomAgent -------------------------------
(***************************************************************************)
(* The room agent, composed of its components.  They meet only in inputs    *)
(* that each of them leaves free (a source becomes active, a phone connects,*)
(* a request arrives), so that interleaving two of them reaches nothing new:*)
(* component says which one a behaviour is about, and the others rest.  What*)
(* RoomActivation has is had directly.                                      *)
(***************************************************************************)
EXTENDS RoomActivation, Sequences, FiniteSets

CONSTANTS
  Offers, MaxRequests, MaxLapses,                     \* of RoomAudio
  Sources, Volumes,                                   \* of AudioFocus
  MaxChanges, MaxDumpFailures, MaxCallFailures, MaxRestarts,
  MaxStarts, MaxFaults,                               \* of RoomVideo
  Phones, MaxModules, MaxEvents,                      \* of RoomBluetooth
  Reported, MaxTurns, MaxReportFaults                 \* of RoomReports

VARIABLES
  component,  \* the one the behaviour is about
  focus, expiry, lock, slot, kind, program, running, told, disturbed, started, requests, lapses,
  active, stream, natural, baselines, decided, nodes, left, applying, fresh, inherited, changes,
  dumpFailures, callFailures, restarts,
  alive, ready, screened, ipc, child, holder, at, missed, starts, faultsOfVideo,
  connected, modules, loopbacks, pass, renumbered, unsure, orphaned, taken, events,
  sources, previous, report, shown, torn, turns, faults

audio == <<focus, expiry, lock, slot, kind, program, running, told, disturbed, started,
  requests, lapses>>
volume == <<active, stream, natural, baselines, decided, nodes, left, applying, fresh, inherited, changes,
  dumpFailures, callFailures, restarts>>
video == <<alive, ready, screened, ipc, child, holder, at, missed, starts, faultsOfVideo>>
phone == <<connected, modules, loopbacks, pass, renumbered, unsure, orphaned, taken, events>>
reporter == <<sources, previous, report, shown, torn, turns, faults>>

Audio == INSTANCE RoomAudio WITH todo <- program
Volume == INSTANCE AudioFocus
Video == INSTANCE RoomVideo WITH playing <- screened
Phone == INSTANCE RoomBluetooth
Reporter == INSTANCE RoomReports WITH Sources <- Reported, MaxChanges <- MaxTurns,
  MaxFaults <- MaxReportFaults, active <- sources, changes <- turns

\* The constants are what they stand for.
ASSUME RoomConstants ==
  /\ ConstantsFit /\ Audio!BoundsAssumption /\ Volume!BoundsAssumption
  /\ Video!BoundsAssumption /\ Phone!BoundsAssumption /\ Reporter!BoundsAssumption

\* Each component keeps the types of its own variables.
TypesOK == TypeOK /\ Audio!TypeOK /\ Volume!TypeOK /\ Video!TypeOK /\ Phone!TypeOK /\
  Reporter!TypeOK

RoomInit ==
  /\ component \in {"audio", "volume", "video", "phone", "reporter", "gate"}
  /\ Audio!Init /\ Volume!Init /\ Video!Init /\ Phone!Init /\ Reporter!Init /\ Init
  /\ component = "gate" \/ file = AnyConfig

AudioNext ==
  /\ component = "audio" /\ Audio!Next
  /\ UNCHANGED <<component, volume, video, phone, reporter, vars>>
VolumeNext ==
  /\ component = "volume" /\ Volume!Next
  /\ UNCHANGED <<component, audio, video, phone, reporter, vars>>
VideoNext ==
  /\ component = "video" /\ Video!Next
  /\ UNCHANGED <<component, audio, volume, phone, reporter, vars>>
PhoneNext ==
  /\ component = "phone" /\ Phone!Next
  /\ UNCHANGED <<component, audio, volume, video, reporter, vars>>
ReporterNext ==
  /\ component = "reporter" /\ Reporter!Next
  /\ UNCHANGED <<component, audio, volume, video, phone, vars>>
GateNext ==
  /\ component = "gate" /\ Next
  /\ UNCHANGED <<component, audio, volume, video, phone, reporter>>

RoomNext == AudioNext \/ VolumeNext \/ VideoNext \/ PhoneNext \/ ReporterNext \/ GateNext

RoomSpec == RoomInit /\ [][RoomNext]_<<component, audio, volume, video, phone, reporter, vars>>

\* Each component is as fair as its own module says.
FairRoomSpec ==
  /\ RoomSpec
  /\ \A a \in Audio!Actors : WF_audio(component = "audio" /\ Audio!Step(a))
  /\ \A f \in Audio!Flags : WF_audio(component = "audio" /\ Audio!Lapse(f))
  /\ WF_volume(component = "volume" /\ Volume!LoopStep)
  /\ WF_phone(component = "phone" /\ Phone!PassStep)
  /\ WF_reporter(component = "reporter" /\ Reporter!ReporterStep)

-----------------------------------------------------------------------------
\* At most one speech or announcement is left to play, and it is the one that cancel and the
\* next asset would stop; and there is never a video player beside the one that requests reach,
\* unless one that runs did not answer in time.
OnePlayback == Audio!OneSpeaker /\ Video!OnePlayer

\* Speech has its focus while it plays, and playback leaves none behind when it is silent,
\* whichever thread or watcher replaces, stops or ends it.
FocusMatchesSpeech == Audio!SpeechKeepsFocus /\ Audio!SilenceHasNoFocus

\* After each pass of the focus loop the volumes follow the priorities; what was ducked can be
\* restored unless a call failed, and even then no stream is louder than it began; but for streams
\* that begin while another volume is remembered for their source.
VolumesFollow == Volume!RestorableUnlessFaulty /\ Volume!PriorityHolds /\ Volume!NeverLouder

\* No phone is heard twice at a time, and no module of the operator is unloaded before
\* PipeWire restarts, whichever agent loaded what and whenever phones come and go (bluetooth.py).
LoopbacksAreOwn == Phone!HeardOnlyOnce /\ Phone!OperatorsModulesStay

\* What the reporter will not report again is what Core shows of it (reporter.py), unless a
\* report broke off halfway.
ReportsAreShown == Reporter!RememberedIsShown

\* When requests cease no focus is left in the end, also when a speech never ends and nobody
\* ends it (controls.py); when nothing holds the focus any more all streams return to their
\* volume, unless a call failed or the agent restarted (audio_focus.py); in the end every
\* connected phone is heard over exactly one loopback and no other phone has one (bluetooth.py),
\* and Core shows the sources that are active in a calm room (reporter.py), but for the
\* exceptions RoomBluetooth and RoomReports name.
RoomSettles ==
  Audio!FocusEnds /\ Volume!FocusReturns /\ Phone!HeardOnce /\ Reporter!ShownInTheEnd
=============================================================================
