------------------------------- MODULE Meetings -------------------------------
(***************************************************************************)
(* A meeting from its recording to its analysis.  Recordings are uploaded   *)
(* and transcripts and analyses written by administrators; processors       *)
(* transcribe what was recorded, replace the transcript, let a model        *)
(* analyse it and replace the analysis.  Only a device that asks for        *)
(* processing is kept from asking twice; everything else may overlap.       *)
(* Each version of a recording or a transcript is a number of its own.      *)
(***************************************************************************)
EXTENDS Naturals, FiniteSets

CONSTANTS
  Uploads,     \* uploads of a recording
  Processors,  \* runs of MeetingProcessor.process
  MaxWritten,  \* versions written
  MaxCrashes   \* crashes of Core

BoundsAssumption == {MaxWritten, MaxCrashes} \subseteq Nat

None == 0
Versions == 1..MaxWritten
Busy == {"transcribing", "analysing"}

VARIABLES
  status,      \* meetings.status
  recording,   \* the version meeting_recordings refers to, None without one
  transcript,  \* its version, and the recording it was made from or None
  evidence,    \* the transcripts whose segments the decisions cite
  author,      \* who wrote the analysis: nobody, model or admin
  uploads,     \* upload -> idle, streaming or over
  procs,       \* processor -> where it stands and what it has read
  announced,   \* the status in the newest client event of the meeting
  written,     \* versions so far
  crossed,     \* a version was replaced under a processor that had read it
  died         \* a processor ended without a verdict

data == <<status, recording, transcript, evidence, author>>
vars == <<data, uploads, procs, announced, written, crossed, died>>

Idle == [at |-> "idle", device |-> FALSE, rec |-> None, tr |-> None]

TypeOK ==
  /\ status \in {"created", "recorded", "processing", "transcribed", "ready", "failed"}
  /\ recording \in Versions \cup {None}
  /\ transcript \in [version: Versions \cup {None}, of: Versions \cup {None}]
  /\ evidence \subseteq Versions /\ author \in {"nobody", "model", "admin"}
  /\ uploads \in [Uploads -> {"idle", "streaming", "over"}]
  /\ procs \in [Processors -> [at: {"idle", "queued", "over"} \cup Busy, device: BOOLEAN,
                               rec: Versions \cup {None}, tr: Versions \cup {None}]]
  /\ announced \in {"created", "recorded", "processing", "transcribed", "ready", "failed"}
  /\ written \in 0..MaxWritten /\ crossed \in BOOLEAN /\ died \in 0..MaxCrashes
  /\ \A p \in Processors : procs[p].at \in Busy => procs[p].rec # None

Init ==
  /\ status = "created" /\ recording = None
  /\ transcript = [version |-> None, of |-> None] /\ evidence = {} /\ author = "nobody"
  /\ uploads = [u \in Uploads |-> "idle"]
  /\ procs = [p \in Processors |-> Idle]
  /\ announced = "created"
  /\ written = 0 /\ crossed = FALSE /\ died = 0

Working == {p \in Processors : procs[p].at \in Busy}

-----------------------------------------------------------------------------
(* The store                                                               *)

NewVersion == written < MaxWritten /\ written' = written + 1

\* set_meeting_recording: the status forgets what had been made of the old one.
SetRecording ==
  /\ NewVersion
  /\ recording' = written + 1 /\ status' = "recorded"
  /\ UNCHANGED <<transcript, evidence, author>>

\* Mutant: the status is left to the analysis.
ReplaceTranscriptQuietly(of) ==
  /\ NewVersion
  /\ transcript' = [version |-> written + 1, of |-> of] /\ UNCHANGED status
  /\ UNCHANGED <<recording, evidence, author>>

\* replace_transcript: all segments get new identifiers.
ReplaceTranscript(of) ==
  /\ NewVersion
  /\ transcript' = [version |-> written + 1, of |-> of] /\ status' = "transcribed"
  /\ UNCHANGED <<recording, evidence, author>>

ReplaceAnalysis(cited, by) ==
  /\ evidence' = cited /\ author' = by /\ status' = "ready"
  /\ UNCHANGED <<recording, transcript>>

FailMeeting == status' = "failed" /\ UNCHANGED <<recording, transcript, evidence, author>>

-----------------------------------------------------------------------------
(* Requests                                                                *)

UploadStarts(u) ==
  /\ uploads[u] = "idle"
  /\ uploads' = [uploads EXCEPT ![u] = "streaming"]
  /\ UNCHANGED <<data, procs, announced, written, crossed, died>>

\* The last chunk: the file is put in place and the row follows.  A device's
\* upload is announced, an administrator's is not.
UploadEnds(u) ==
  /\ uploads[u] = "streaming"
  /\ uploads' = [uploads EXCEPT ![u] = "over"]
  /\ SetRecording
  /\ crossed' = (crossed \/ Working # {})
  /\ announced' \in {announced, "recorded"}
  /\ UNCHANGED <<procs, died>>

\* Too large, empty, or the client gives up.
UploadFails(u) ==
  /\ uploads[u] = "streaming"
  /\ uploads' = [uploads EXCEPT ![u] = "over"]
  /\ UNCHANGED <<data, procs, announced, written, crossed, died>>

AdminTranscript ==
  /\ ReplaceTranscript(None)
  /\ crossed' = (crossed \/ Working # {})
  /\ UNCHANGED <<uploads, procs, announced, died>>

\* An administrator's analysis cites what it likes.
AdminAnalysis ==
  /\ \E cited \in {{}, 1..written} : ReplaceAnalysis(cited, "admin")
  /\ UNCHANGED <<uploads, procs, announced, written, crossed, died>>

Beginnable == status # "processing" /\ recording # None

\* begin_meeting_processing, the background task and the announcement.
DeviceProcess(p) ==
  /\ procs[p].at = "idle" /\ Beginnable
  /\ status' = "processing" /\ announced' = "processing"
  /\ procs' = [procs EXCEPT ![p].at = "queued", ![p].device = TRUE]
  /\ UNCHANGED <<recording, transcript, evidence, author, uploads, written, crossed, died>>

-----------------------------------------------------------------------------
(* Processors                                                              *)

\* The recording is read and sent to the transcriber.  An administrator's
\* request begins here, whatever the status.
ProcessStarts(p) ==
  /\ procs[p].at = "queued" \/ (procs[p].at = "idle" /\ recording # None)
  /\ procs' = [procs EXCEPT ![p].at = "transcribing", ![p].rec = recording]
  /\ UNCHANGED <<data, uploads, announced, written, crossed, died>>

\* The transcriber answers with valid segments.
Transcribed(p) ==
  /\ procs[p].at = "transcribing"
  /\ ReplaceTranscript(procs[p].rec)
  /\ procs' = [procs EXCEPT ![p].at = "analysing", ![p].tr = written + 1]
  /\ crossed' = (crossed \/ Working # {p})
  /\ UNCHANGED <<uploads, announced, died>>

\* Mutant: what the model cites is believed.
SupportedByAny(p, cited) == cited

\* What the model cites, reduced to segments of the transcript it was shown.
Supported(p, cited) == cited \cap {procs[p].tr}

\* Mutant: the background task forgets the event.
AnnounceNothing(p) == UNCHANGED announced

\* The client event of a background processor, with no await since its verdict.
Announce(p) == announced' = IF procs[p].device THEN status' ELSE announced

Analysed(p) ==
  /\ procs[p].at = "analysing"
  /\ \E cited \in SUBSET (1..written) : ReplaceAnalysis(Supported(p, cited), "model")
  /\ procs' = [procs EXCEPT ![p] = [Idle EXCEPT !.at = "over"]]
  /\ Announce(p)
  /\ UNCHANGED <<uploads, written, crossed, died>>

\* Either service fails, or answers with what is not a transcript or an analysis.
ProcessFails(p) ==
  /\ procs[p].at \in Busy
  /\ FailMeeting
  /\ procs' = [procs EXCEPT ![p] = [Idle EXCEPT !.at = "over"]]
  /\ Announce(p)
  /\ UNCHANGED <<uploads, written, crossed, died>>

\* Core stops: tasks and uploads are gone, rows and events stay.
CoreCrashes ==
  /\ died < MaxCrashes
  /\ died' = died + 1
  /\ procs' = [p \in Processors |-> IF procs[p].at = "idle" THEN Idle
                                    ELSE [Idle EXCEPT !.at = "over"]]
  /\ uploads' = [u \in Uploads |-> IF uploads[u] = "idle" THEN "idle" ELSE "over"]
  /\ UNCHANGED <<data, announced, written, crossed>>

-----------------------------------------------------------------------------
ProcessorStep(p) ==
  \/ procs[p].at # "idle" /\ ProcessStarts(p)
  \/ Transcribed(p) \/ Analysed(p) \/ ProcessFails(p)
Next ==
  \/ \E u \in Uploads : UploadStarts(u) \/ UploadEnds(u) \/ UploadFails(u)
  \/ AdminTranscript \/ AdminAnalysis
  \/ \E p \in Processors : \/ DeviceProcess(p) \/ ProcessStarts(p)
                           \/ Transcribed(p) \/ Analysed(p) \/ ProcessFails(p)
  \/ CoreCrashes

Spec == Init /\ [][Next]_vars
FairSpec == Spec /\ \A p \in Processors : WF_vars(ProcessorStep(p))

-----------------------------------------------------------------------------
\* A meeting that is ready with the model's analysis shows one that rests on
\* its present transcript and cites nothing else, and a transcript that was
\* made from its present recording or written by an administrator; unless a
\* recording or a transcript was replaced while a processor was at work.
ReadyIsConsistent ==
  status = "ready" /\ author = "model" /\ ~crossed =>
    /\ evidence \subseteq {transcript.version}
    /\ transcript.of \in {None, recording}

\* A device that was told of the processing is told of its end, unless Core
\* stopped meanwhile; nothing else leaves a meeting in processing.
ProcessingEnds == (announced = "processing") ~> (announced # "processing" \/ died > 0)
=============================================================================
