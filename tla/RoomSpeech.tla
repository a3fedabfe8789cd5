------------------------------- MODULE RoomSpeech -------------------------------
(***************************************************************************)
(* Speech on its way to a room or a device.  A turn transcribes what was      *)
(* said (voice only), waits for an answer, synthesizes it and stores it as an *)
(* asset: a file and a row.  An assistant's asset is private to one device;   *)
(* an announcement belongs to a room.  Administrators upload, send and delete *)
(* assets besides.  Devices are registered anew in other rooms and revoked    *)
(* while any of this is awaited.                                              *)
(***************************************************************************)
EXTENDS Naturals, FiniteSets

CONSTANTS
  Devices,     \* devices; each can play audio
  Portable,    \* those that may speak from any room
  Rooms,
  Assets,      \* identifiers of assets; each is used once
  Turns,       \* turns
  MaxUpsets    \* devices that move, revocations, crashes

Nobody == "nobody"
Kinds == {"assistant", "announcement"}

BoundsAssumption == Nobody \notin Devices \cup Rooms /\ MaxUpsets \in Nat

VARIABLES
  devices,    \* the rows: room and revoked
  rows,       \* audio_assets: whether the row is there, kind, room, recipient, age
  files,      \* the assets whose file is there
  used,       \* identifiers given out
  turns,      \* turn -> what it awaits, and what it had decided before
  sent,       \* pairs of an asset and the device a play_audio command was made for
  read,       \* history: pairs of an asset and the device that downloaded it
  orphans,    \* history: files a crash left without their rows
  upsets

vars == <<devices, rows, files, used, turns, sent, read, orphans, upsets>>

NoRow == [live |-> FALSE, kind |-> "assistant", room |-> Nobody, recipient |-> Nobody,
          aged |-> FALSE]
NoTurn == [at |-> "idle", kind |-> "assistant", room |-> Nobody, device |-> Nobody, play |-> FALSE]
Awaiting == {"transcribing", "fallback", "answering", "synthesizing"}

TypeOK ==
  /\ devices \in [Devices -> [room: Rooms, revoked: BOOLEAN]]
  /\ rows \in [Assets -> [live: BOOLEAN, kind: Kinds, room: Rooms \cup {Nobody},
                          recipient: Devices \cup {Nobody}, aged: BOOLEAN]]
  /\ files \subseteq used /\ used \subseteq Assets /\ orphans \subseteq used
  /\ turns \in [Turns -> [at: {"idle", "over"} \cup Awaiting, kind: Kinds,
                          room: Rooms \cup {Nobody}, device: Devices \cup {Nobody},
                          play: BOOLEAN]]
  /\ sent \subseteq Assets \X Devices /\ read \subseteq Assets \X Devices
  /\ upsets \in 0..MaxUpsets
  /\ \A a \in Assets : rows[a].live => a \in used
  /\ \A a \in Assets : rows[a].kind = "announcement" => rows[a].recipient = Nobody

Init ==
  /\ devices \in [Devices -> [room: Rooms, revoked: {FALSE}]]
  /\ rows = [a \in Assets |-> NoRow] /\ files = {} /\ used = {}
  /\ turns = [t \in Turns |-> NoTurn]
  /\ sent = {} /\ read = {} /\ orphans = {} /\ upsets = 0

Upset == upsets < MaxUpsets /\ upsets' = upsets + 1
Valid(d) == ~devices[d].revoked

-----------------------------------------------------------------------------
(* Devices                                                                 *)

Registers(d) ==
  /\ Upset
  /\ \E r \in Rooms : devices' = [devices EXCEPT ![d] = [room |-> r, revoked |-> FALSE]]
  /\ UNCHANGED <<rows, files, used, turns, sent, read, orphans>>

Revoked(d) ==
  /\ Upset
  /\ devices' = [devices EXCEPT ![d].revoked = TRUE]
  /\ UNCHANGED <<rows, files, used, turns, sent, read, orphans>>

-----------------------------------------------------------------------------
(* Assets                                                                  *)

Aged == {a \in Assets : rows[a].live /\ rows[a].aged}

\* AudioAssets.cleanup comes before every other operation but delete.
KeptRows == [a \in Assets |-> IF a \in Aged THEN NoRow ELSE rows[a]]
KeptFiles == files \ Aged

Ages(a) ==
  /\ rows[a].live /\ ~rows[a].aged
  /\ rows' = [rows EXCEPT ![a].aged = TRUE]
  /\ UNCHANGED <<devices, files, used, turns, sent, read, orphans, upsets>>

\* create_audio_asset: a recipient must be active, and in the room or portable.
MayReceive(d, room) ==
  d = Nobody \/ (Valid(d) /\ (devices[d].room = room \/ d \in Portable))

\* The file, then the row; without the row the file is removed.
Create(a, kind, room, recipient) ==
  /\ a \notin used /\ used' = used \cup {a}
  /\ IF MayReceive(recipient, room)
     THEN /\ rows' = [KeptRows EXCEPT ![a] = [live |-> TRUE, kind |-> kind, room |-> room,
                                              recipient |-> recipient, aged |-> FALSE]]
          /\ files' = KeptFiles \cup {a}
     ELSE rows' = KeptRows /\ files' = KeptFiles

Upload(a) ==
  /\ \E k \in Kinds, r \in Rooms : Create(a, k, r, Nobody)
  /\ UNCHANGED <<devices, turns, sent, read, orphans, upsets>>

Delete(a) ==
  /\ rows[a].live
  /\ rows' = [rows EXCEPT ![a] = NoRow] /\ files' = files \ {a}
  /\ UNCHANGED <<devices, used, turns, sent, read, orphans, upsets>>

\* Mutant: whoever is chosen becomes the recipient.
BindableAnew(a, d) == Valid(d) /\ devices[d].room = rows[a].room

\* bind_audio_asset_recipient: nobody's asset, or this device's already.
Bindable(a, d) ==
  \/ rows[a].recipient = d
  \/ rows[a].recipient = Nobody /\ Valid(d) /\ devices[d].room = rows[a].room

\* room_audio: the asset is looked up, the target chosen (the hub's lock is
\* free), an assistant's asset bound, and the command made.
SendAsset(a, d) ==
  /\ a \notin Aged /\ rows[a].live /\ a \in files
  /\ devices[d].room = rows[a].room
  /\ IF rows[a].kind = "announcement"
     THEN rows' = KeptRows /\ sent' = sent \cup {<<a, d>>}
     ELSE /\ Bindable(a, d)
          /\ rows' = [KeptRows EXCEPT ![a].recipient = d] /\ sent' = sent \cup {<<a, d>>}
  /\ files' = KeptFiles
  /\ UNCHANGED <<devices, used, turns, read, orphans, upsets>>

\* A lookup of a row whose file is gone removes the row.
Lookup(a) ==
  /\ rows[a].live
  /\ files' = KeptFiles
  /\ rows' = IF a \in KeptFiles THEN KeptRows ELSE [KeptRows EXCEPT ![a] = NoRow]

Authorized(a, d) ==
  IF rows[a].kind = "assistant" THEN rows[a].recipient = d
  ELSE devices[d].room = rows[a].room

Download(a, d) ==
  /\ Valid(d) /\ Lookup(a)
  /\ read' = IF a \in KeptFiles /\ rows'[a].live /\ Authorized(a, d)
             THEN read \cup {<<a, d>>} ELSE read
  /\ UNCHANGED <<devices, used, turns, sent, orphans, upsets>>

-----------------------------------------------------------------------------
(* Turns                                                                   *)

Goes(t, at) == turns' = [turns EXCEPT ![t].at = at]
Unstored == UNCHANGED <<devices, rows, files, used, sent, read, orphans, upsets>>

\* A device speaks, from its own room or, if portable, from any.
VoiceStarts(t, d) ==
  /\ turns[t].at = "idle" /\ Valid(d)
  /\ \E r \in Rooms :
       /\ r = devices[d].room \/ d \in Portable
       /\ turns' = [turns EXCEPT ![t] = [at |-> "transcribing", kind |-> "assistant",
                                         room |-> r, device |-> d, play |-> FALSE]]
  /\ Unstored

\* A device previews a voice: synthesis alone.
PreviewStarts(t, d) ==
  /\ turns[t].at = "idle" /\ Valid(d)
  /\ turns' = [turns EXCEPT ![t] = [at |-> "synthesizing", kind |-> "assistant",
                                    room |-> devices[d].room, device |-> d, play |-> FALSE]]
  /\ Unstored

\* An administrator has a room speak, or asks the assistant to.  The target is
\* chosen before the synthesis, among all devices of the room.
SpeakStarts(t, d) ==
  /\ turns[t].at = "idle"
  /\ \E k \in Kinds :
       turns' = [turns EXCEPT ![t] = [at |-> "synthesizing", kind |-> k,
                                      room |-> devices[d].room, device |-> d, play |-> TRUE]]
  /\ Unstored

\* The first pipeline transcribes or fails over to the second, which gets the
\* buffered audio; that one's failure ends the turn.
Transcribed(t) ==
  /\ turns[t].at \in {"transcribing", "fallback"}
  /\ Goes(t, "answering") /\ Unstored
PrimaryFails(t) == turns[t].at = "transcribing" /\ Goes(t, "fallback") /\ Unstored
Answered(t) == turns[t].at = "answering" /\ Goes(t, "synthesizing") /\ Unstored
TurnFails(t) ==
  /\ turns[t].at \in {"fallback", "answering"}
  /\ Goes(t, "over") /\ Unstored

\* Neither the language that was asked for nor the configured one is spoken, or
\* the sound cannot be had.
SynthesisFails(t) == turns[t].at = "synthesizing" /\ Goes(t, "over") /\ Unstored

\* Mutant: a room's speech is bound when it is sent, not when it is stored.
RecipientLater(turn) == IF turn.play THEN Nobody ELSE turn.device

Recipient(turn) == IF turn.kind = "assistant" THEN turn.device ELSE Nobody

\* The speech is there: the asset, and for a room the command.
Synthesized(t, a) ==
  /\ turns[t].at = "synthesizing"
  /\ Create(a, turns[t].kind, turns[t].room, Recipient(turns[t]))
  /\ sent' = IF turns[t].play /\ rows'[a].live THEN sent \cup {<<a, turns[t].device>>} ELSE sent
  /\ Goes(t, "over")
  /\ UNCHANGED <<devices, read, orphans, upsets>>

\* Core stops; beside the turns, a file may be left whose row was not written
\* yet, or was purged already.
CoreCrashes ==
  /\ Upset
  /\ turns' = [t \in Turns |-> IF turns[t].at = "idle" THEN NoTurn ELSE [NoTurn EXCEPT !.at = "over"]]
  /\ \/ UNCHANGED <<rows, files, used, orphans>>
     \/ \E a \in Assets \ used :
          /\ used' = used \cup {a} /\ files' = KeptFiles \cup {a}
          /\ orphans' = orphans \cup {a} /\ rows' = KeptRows
     \/ /\ Aged # {} /\ rows' = KeptRows /\ orphans' = orphans \cup Aged
        /\ UNCHANGED <<files, used>>
  /\ UNCHANGED <<devices, sent, read>>

-----------------------------------------------------------------------------
Next ==
  \/ \E d \in Devices : Registers(d) \/ Revoked(d)
  \/ \E a \in Assets : \/ Ages(a) \/ Upload(a) \/ Delete(a)
                       \/ \E d \in Devices : SendAsset(a, d) \/ Download(a, d)
  \/ \E t \in Turns : \/ Transcribed(t) \/ PrimaryFails(t) \/ Answered(t)
                      \/ TurnFails(t) \/ SynthesisFails(t)
                      \/ \E d \in Devices : VoiceStarts(t, d) \/ PreviewStarts(t, d)
                                            \/ SpeakStarts(t, d)
                      \/ \E a \in Assets : Synthesized(t, a)
  \/ CoreCrashes
Spec == Init /\ [][Next]_vars

-----------------------------------------------------------------------------
\* What the assistant says is heard by one device at most, and the device that
\* is told to play it is the one that may download it, however devices move,
\* are revoked or are addressed anew between the choice of the target, the
\* synthesis and the download.  No file outlives its row but by a crash.
SpeechIsPrivate ==
  /\ \A a \in Assets : rows[a].live /\ rows[a].kind = "assistant" =>
       /\ Cardinality({d \in Devices : <<a, d>> \in read}) <= 1
       /\ \A d \in Devices : <<a, d>> \in sent => rows[a].recipient = d
  /\ \A a \in files : rows[a].live \/ a \in orphans
=============================================================================
