------------------------------ MODULE AudioFocus ------------------------------
(***************************************************************************)
(* The room agent's focus enforcer: once a second it finds out which        *)
(* sources are active and which streams PipeWire plays, remembers the       *)
(* volume of a stream it changes for the first time, ducks or mutes what    *)
(* has lower priority and restores what is no longer active.                *)
(*                                                                         *)
(* Streams come and go, and sources start and stop, between any two steps.  *)
(* Nobody but the enforcer changes the volume of a stream, and a volume is   *)
(* counted in units of which it has at least two.                           *)
(***************************************************************************)
EXTENDS Integers, Sequences

CONSTANTS
  Sources,          \* the sources explored
  Volumes,          \* volumes with which streams begin
  MaxChanges,       \* changes of activity and of streams explored
  MaxDumpFailures,  \* failures of pw-dump
  MaxCallFailures,  \* failures of wpctl
  MaxRestarts       \* restarts of the agent

\* PRIORITY, highest first.  critical has no stream of its own.
Priority == <<"critical", "assistant", "bluetooth", "airplay", "music">>
AllSources == {Priority[i] : i \in DOMAIN Priority}
Streamed == Sources \ {"critical"}

BoundsAssumption ==
  /\ Sources \subseteq AllSources
  /\ Volumes \subseteq Nat \ {0, 1} /\ Volumes # {}
  /\ {MaxChanges, MaxDumpFailures, MaxCallFailures, MaxRestarts} \subseteq Nat

NoStream == -1
NoBaseline == -1

VARIABLES
  active,     \* sources that are playing or hold the focus
  stream,     \* source -> volume of its stream, or NoStream
  natural,    \* history: source -> the volume its stream began with
  baselines,  \* FocusEnforcer.baselines, or NoBaseline
  decided,    \* the active sources of the decision being applied
  nodes,      \* the sources of the streams pw-dump listed
  left,       \* those of them not yet looked at
  applying,   \* whether a pass is under way
  fresh,      \* history: streams that began since pw-dump
  inherited,  \* history: streams that began when another volume was remembered for
              \* their source, whose baseline is then not theirs
  changes, dumpFailures, callFailures, restarts

environment == <<active, stream, natural, fresh, inherited, changes>>
pass == <<decided, nodes, left, applying>>
faults == <<dumpFailures, callFailures, restarts>>
vars == <<environment, baselines, pass, faults>>

\* The volumes of streams: no louder than the loudest begin.
Levels == {n \in Nat : \E v \in Volumes : n <= v}

TypeOK ==
  /\ active \subseteq Sources /\ decided \subseteq Sources
  /\ stream \in [Streamed -> Levels \cup {NoStream}]
  /\ natural \in [Streamed -> Volumes \cup {NoStream}]
  /\ baselines \in [Streamed -> Levels \cup {NoBaseline}]
  /\ \A s \in Streamed : stream[s] = NoStream <=> natural[s] = NoStream
  /\ left \subseteq nodes /\ nodes \subseteq Streamed
  /\ applying \in BOOLEAN /\ fresh \subseteq Streamed /\ inherited \subseteq Streamed
  /\ changes \in 0..MaxChanges /\ dumpFailures \in 0..MaxDumpFailures
  /\ callFailures \in 0..MaxCallFailures /\ restarts \in 0..MaxRestarts

Init ==
  /\ active = {} /\ decided = {} /\ nodes = {} /\ left = {}
  /\ applying = FALSE /\ fresh = {} /\ inherited = {}
  /\ stream = [s \in Streamed |-> NoStream]
  /\ natural = [s \in Streamed |-> NoStream]
  /\ baselines = [s \in Streamed |-> NoBaseline]
  /\ changes = 0 /\ dumpFailures = 0 /\ callFailures = 0 /\ restarts = 0

-----------------------------------------------------------------------------
(* decide.                                                                 *)

Foreground(s, A) ==
  s \in A /\ \E i \in DOMAIN Priority :
               Priority[i] = s /\ \A j \in 1..(i - 1) : Priority[j] \notin A

\* Mutant: whatever is not in the foreground is muted.
ScaledOrMuted(s, A, v) == IF Foreground(s, A) THEN v ELSE 0

\* Mutant: the volume is divided by the gain.
ScaledUp(s, A, v) ==
  IF Foreground(s, A) THEN v
  ELSE IF \E f \in {"critical", "assistant"} : Foreground(f, A) THEN v * 2 ELSE 0

\* An active source in the foreground keeps its volume, speech ducks the
\* others (to a half here, audio_focus_duck_gain in the code), music mutes them.
Scaled(s, A, v) ==
  IF Foreground(s, A) THEN v
  ELSE IF \E f \in {"critical", "assistant"} : Foreground(f, A) THEN v \div 2 ELSE 0

-----------------------------------------------------------------------------
(* A pass of the loop.                                                     *)

Observe ==
  /\ ~applying /\ applying' = TRUE
  /\ decided' = active
  /\ \/ nodes' = {s \in Streamed : stream[s] # NoStream} /\ UNCHANGED dumpFailures
     \/ /\ dumpFailures < MaxDumpFailures /\ dumpFailures' = dumpFailures + 1
        /\ nodes' = {}
  /\ left' = nodes' /\ fresh' = {}
  /\ UNCHANGED <<active, stream, natural, inherited, changes, baselines, callFailures, restarts>>

\* The number pw-dump gave means nothing any more: the stream has ended, and one
\* that began instead may have the same number or another one.
Gone(s) == stream[s] = NoStream \/ s \in fresh

\* wpctl set-volume, whose result nobody looks at.
SetVolume(s, v) ==
  \/ /\ stream[s] # NoStream /\ stream' = [stream EXCEPT ![s] = v]
     /\ UNCHANGED callFailures
  \/ Gone(s) /\ UNCHANGED <<stream, callFailures>>
  \/ /\ callFailures < MaxCallFailures /\ callFailures' = callFailures + 1
     /\ UNCHANGED stream

\* Mutant: a source is released without its volume.
RestoreForgotten(s) ==
  /\ s \in left /\ s \notin decided
  /\ baselines' = [baselines EXCEPT ![s] = NoBaseline]
  /\ left' = left \ {s}
  /\ UNCHANGED <<environment, decided, nodes, applying, faults>>

\* A source that is no longer active gets its volume back.
Restore(s) ==
  /\ s \in left /\ s \notin decided
  /\ IF baselines[s] = NoBaseline THEN UNCHANGED <<stream, callFailures>>
                                  ELSE SetVolume(s, baselines[s])
  /\ baselines' = [baselines EXCEPT ![s] = NoBaseline]
  /\ left' = left \ {s}
  /\ UNCHANGED <<active, natural, fresh, inherited, changes, decided, nodes, applying, dumpFailures, restarts>>

\* Mutant: the volume is captured in every pass.
CapturedAnew(s) == stream[s]

\* Mutant: a volume that cannot be read is taken for 100 %.
CapturedBlindly(s) ==
  IF baselines[s] # NoBaseline THEN baselines[s]
  ELSE IF stream[s] = NoStream THEN 100 ELSE stream[s]

\* The volume to go by: captured before, or read now.
Captured(s) == IF baselines[s] # NoBaseline THEN baselines[s] ELSE stream[s]

Enforce(s) ==
  /\ s \in left /\ s \in decided /\ Captured(s) # NoBaseline
  /\ baselines' = [baselines EXCEPT ![s] = Captured(s)]
  /\ SetVolume(s, Scaled(s, decided, Captured(s)))
  /\ left' = left \ {s}
  /\ UNCHANGED <<active, natural, fresh, inherited, changes, decided, nodes, applying, dumpFailures, restarts>>

\* wpctl get-volume fails, or finds no stream: the source is left alone.
CannotCapture(s) ==
  /\ s \in left /\ s \in decided /\ baselines[s] = NoBaseline
  /\ \/ Gone(s) /\ UNCHANGED callFailures
     \/ callFailures < MaxCallFailures /\ callFailures' = callFailures + 1
  /\ left' = left \ {s}
  /\ UNCHANGED <<environment, baselines, decided, nodes, applying, dumpFailures, restarts>>

\* Baselines of streams that are gone are dropped; then the loop waits.
Prune ==
  /\ applying /\ left = {}
  /\ baselines' = [s \in Streamed |-> IF s \in nodes THEN baselines[s] ELSE NoBaseline]
  /\ applying' = FALSE
  /\ UNCHANGED <<environment, decided, nodes, left, faults>>

-----------------------------------------------------------------------------
(* Everything else.                                                        *)

Changes == changes < MaxChanges /\ changes' = changes + 1

SourceChanges(s) ==
  /\ Changes
  /\ active' = IF s \in active THEN active \ {s} ELSE active \cup {s}
  /\ UNCHANGED <<stream, natural, fresh, inherited, baselines, pass, faults>>

StreamBegins(s, v) ==
  /\ Changes /\ stream[s] = NoStream
  /\ stream' = [stream EXCEPT ![s] = v]
  /\ natural' = [natural EXCEPT ![s] = v]
  /\ fresh' = fresh \cup {s}
  /\ inherited' = IF baselines[s] \in {NoBaseline, v} THEN inherited ELSE inherited \cup {s}
  /\ UNCHANGED <<active, baselines, pass, faults>>

StreamEnds(s) ==
  /\ Changes /\ stream[s] # NoStream
  /\ stream' = [stream EXCEPT ![s] = NoStream]
  /\ natural' = [natural EXCEPT ![s] = NoStream]
  /\ inherited' = inherited \ {s}
  /\ UNCHANGED <<active, fresh, baselines, pass, faults>>

\* The agent is stopped or killed, which restores nothing, and started again.
AgentRestarts ==
  /\ restarts < MaxRestarts /\ restarts' = restarts + 1
  /\ baselines' = [s \in Streamed |-> NoBaseline]
  /\ decided' = {} /\ nodes' = {} /\ left' = {} /\ applying' = FALSE
  /\ UNCHANGED <<environment, dumpFailures, callFailures>>

-----------------------------------------------------------------------------
LoopStep ==
  Observe \/ Prune \/ \E s \in Streamed : Restore(s) \/ Enforce(s) \/ CannotCapture(s)

Next ==
  \/ LoopStep
  \/ \E s \in Sources : SourceChanges(s)
  \/ \E s \in Streamed : StreamEnds(s) \/ \E v \in Volumes : StreamBegins(s, v)
  \/ AgentRestarts

Spec == Init /\ [][Next]_vars

\* The loop goes on for ever.
FairSpec == Spec /\ WF_vars(LoopStep)

-----------------------------------------------------------------------------
(* Properties.                                                             *)

\* The streams whose baseline, if there is one, is their own.  (Baselines are kept by
\* source: a stream that begins while that of its predecessor is remembered gets the
\* predecessor's, which none of the properties below could survive.)
Owners == {s \in Streamed \ inherited : stream[s] # NoStream}

\* A stream whose volume the enforcer does not remember is at its own volume:
\* what has been ducked can be restored.
CanRestore == \A s \in Owners : baselines[s] = NoBaseline => stream[s] = natural[s]

\* Whether no call has failed and the agent has not restarted.
Faultless == dumpFailures + callFailures + restarts = 0

\* As long as every pw-dump and wpctl succeeds and the agent runs, whatever has
\* been ducked can be restored, although sources and streams come and go
\* between the calls of a pass.
RestorableUnlessFaulty == Faultless => CanRestore

\* No stream with a baseline of its own is ever louder than it began, whatever
\* fails: a lost restoration or a baseline taken too late leaves the room too
\* quiet, not too loud.
NeverLouder == \A s \in Owners : stream[s] <= natural[s]

\* After a pass, until something changes, the streams it saw follow the
\* priorities: the foreground is as loud as it began, the others are not, and
\* can still be heard when it is speech that they give way to.
PriorityHolds ==
  Faultless /\ ~applying /\ decided = active =>
    \A s \in ((nodes \cap active) \ fresh) \cap Owners :
      IF Foreground(s, active) THEN stream[s] = natural[s]
      ELSE /\ stream[s] < natural[s]
           /\ stream[s] > 0 <=> active \cap {"critical", "assistant"} # {}

\* When no source is active any more, all streams with a baseline of their own
\* return to their volume, unless a call failed or the agent restarted.
FocusReturns ==
  <>[](active = {} /\ Faultless) =>
    <>[](\A s \in Owners : stream[s] = natural[s])
=============================================================================
