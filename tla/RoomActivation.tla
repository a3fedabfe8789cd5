----------------------------- MODULE RoomActivation -----------------------------
(***************************************************************************)
(* The gate before audible output.  Somebody in the room tests its devices,  *)
(* which leaves a receipt; with a fresh receipt an operator arms the gate,   *)
(* whose marker names the configuration; the agent looks at the marker       *)
(* before it downloads a sound.  The agent goes by the configuration it was  *)
(* started with, test and operator by the file as it is.                     *)
(***************************************************************************)
EXTENDS Naturals

CONSTANTS
  Devices,    \* combinations of room, capture, playback device and speaker node
  Releases,   \* versions of the room agent
  Threads,    \* threads that serve requests of sounds
  MaxEdits    \* changes of the configuration file, the release or the marker

None == "none"
Configs == [devices: Devices, release: Releases]

\* The constants are what they stand for.
ConstantsFit == MaxEdits \in Nat /\ None \notin Devices

VARIABLES
  file,      \* the installed configuration and release
  loaded,    \* what the running agent was started with
  marker,    \* audio-activation.json: missing, unusable, disarmed or armed for a configuration
  receipt,   \* the devices of the acceptance receipt, and whether it is recent
  request,   \* thread -> idle or fetching
  playing,   \* whether a sound can be heard
  tested,    \* history: the devices somebody has tested in the room
  armed,     \* history: the configurations an operator has armed
  edits

vars == <<file, loaded, marker, receipt, request, playing, tested, armed, edits>>

Unarmed == {"missing", "unusable", "disarmed"}
Marker(state, c) == [state |-> state, config |-> c]
AnyConfig == CHOOSE c \in Configs : TRUE

TypeOK ==
  /\ file \in Configs /\ loaded \in Configs
  /\ marker \in [state: Unarmed \cup {"armed"}, config: Configs]
  /\ receipt \in [devices: Devices \cup {None}, recent: BOOLEAN]
  /\ request \in [Threads -> {"idle", "fetching"}] /\ playing \in BOOLEAN
  /\ tested \subseteq Devices /\ armed \subseteq Configs
  /\ edits \in 0..MaxEdits

Init ==
  /\ file \in Configs /\ loaded = file
  /\ marker = Marker("missing", AnyConfig)
  /\ receipt = [devices |-> None, recent |-> FALSE]
  /\ request = [t \in Threads |-> "idle"] /\ playing = FALSE
  /\ tested = {} /\ armed = {} /\ edits = 0

-----------------------------------------------------------------------------
(* People and deployments                                                  *)

Edit == edits < MaxEdits /\ edits' = edits + 1

\* The file is edited or another release installed; the agent runs on.
Install ==
  /\ Edit
  /\ \E c \in Configs : file' = c
  /\ UNCHANGED <<loaded, marker, receipt, request, playing, tested, armed>>

\* Stopping the agent cancels what it plays.
AgentRestarts ==
  /\ loaded' = file
  /\ request' = [t \in Threads |-> "idle"] /\ playing' = FALSE
  /\ UNCHANGED <<file, marker, receipt, tested, armed, edits>>

\* pilot-validate --audio-tests: a receipt only if every check succeeds.
AcceptanceTest ==
  /\ receipt' = [devices |-> file.devices, recent |-> TRUE]
  /\ tested' = tested \cup {file.devices}
  /\ UNCHANGED <<file, loaded, marker, request, playing, armed, edits>>

ReceiptAges ==
  /\ receipt.recent /\ receipt' = [receipt EXCEPT !.recent = FALSE]
  /\ UNCHANGED <<file, loaded, marker, request, playing, tested, armed, edits>>

\* Mutant: any recent receipt will do.
ReceiptRecent == receipt.recent

\* _load_receipt
ReceiptValid == receipt.recent /\ receipt.devices = file.devices

\* pilot-activate arm and disarm put a new file in the marker's place.
Arm ==
  /\ ReceiptValid
  /\ marker' = Marker("armed", file) /\ armed' = armed \cup {file}
  /\ UNCHANGED <<file, loaded, receipt, request, playing, tested, edits>>

Disarm ==
  /\ marker' = Marker("disarmed", AnyConfig)
  /\ UNCHANGED <<file, loaded, receipt, request, playing, tested, armed, edits>>

\* The marker is removed, becomes writable to others, too long or unreadable.
MarkerSpoiled ==
  /\ Edit
  /\ \E s \in {"missing", "unusable"} : marker' = Marker(s, AnyConfig)
  /\ UNCHANGED <<file, loaded, receipt, request, playing, tested, armed>>

-----------------------------------------------------------------------------
(* The agent                                                               *)

\* Mutant: a marker is believed whatever it was made for.
AllowedOnce == marker.state = "armed"

\* ActivationGate.status
Allowed == marker.state = "armed" /\ marker.config = loaded

\* AudioPlayback.play: the gate, then the download.  (A refused request leaves
\* nothing behind and is left out.)
Play(t) ==
  /\ request[t] = "idle" /\ Allowed
  /\ request' = [request EXCEPT ![t] = "fetching"]
  /\ UNCHANGED <<file, loaded, marker, receipt, playing, tested, armed, edits>>

\* The verified sound replaces the one that plays; the gate is not asked again.
Starts(t) ==
  /\ request[t] = "fetching"
  /\ request' = [request EXCEPT ![t] = "idle"] /\ playing' = TRUE
  /\ UNCHANGED <<file, loaded, marker, receipt, tested, armed, edits>>

\* The download or pw-play fails; the latter after the old sound was stopped.
Fails(t) ==
  /\ request[t] = "fetching"
  /\ request' = [request EXCEPT ![t] = "idle"] /\ playing' \in {playing, FALSE}
  /\ UNCHANGED <<file, loaded, marker, receipt, tested, armed, edits>>

\* The sound ends, or is cancelled.
Ends ==
  /\ playing /\ playing' = FALSE
  /\ UNCHANGED <<file, loaded, marker, receipt, request, tested, armed, edits>>

-----------------------------------------------------------------------------
Next ==
  \/ Install \/ AgentRestarts \/ AcceptanceTest \/ ReceiptAges \/ Arm \/ Disarm
  \/ MarkerSpoiled
  \/ \E t \in Threads : Play(t) \/ Starts(t) \/ Fails(t)
  \/ Ends
Spec == Init /\ [][Next]_vars

-----------------------------------------------------------------------------
\* Whatever is edited, upgraded, armed, restarted or tested in between, what
\* can be heard is played by an agent whose own devices somebody has tested in
\* the room and whose own configuration an operator has armed.
SoundWasAccepted ==
  playing \/ (\E t \in Threads : request[t] = "fetching")
    => loaded.devices \in tested /\ loaded \in armed
=============================================================================
