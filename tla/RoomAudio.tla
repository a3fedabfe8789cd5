------------------------------- MODULE RoomAudio -------------------------------
(***************************************************************************)
(* Speech in a room: the agent's control requests, its single playback slot *)
(* and the self-expiring focus state that ducks the music while somebody    *)
(* speaks.                                                                  *)
(*                                                                         *)
(* Requests arrive on threads of their own (the command thread and those of *)
(* the local HTTP server), and every playback has a watcher thread.  The    *)
(* slot is guarded by one lock and the focus state by another, which is     *)
(* held for one operation at a time: an actor is a queue of operations      *)
(* between any two of which the others may run.                             *)
(***************************************************************************)
EXTENDS Naturals, Sequences, FiniteSets

CONSTANTS
  Threads,      \* threads that serve requests
  Offers,       \* the requests that are made, a subset of Requests
  MaxRequests,  \* requests explored
  MaxLapses     \* focus states that expire

Flags == {"listening", "assistant_speaking", "announcement_active",
          "critical_announcement"}
Kinds == {"assistant", "announcement", "critical"}
Processes == 1..MaxRequests
NoProcess == 0
NoActor == 0
None == "none"

PlayRequests == [do : {"play"}, kind : Kinds]
Requests ==
  PlayRequests
    \cup [do : {"cancel", "start_listening", "stop_listening", "assistant_start",
                "assistant_end", "announcement_start", "announcement_end"},
          kind : {None}]
    \cup [do : {"announcement_start"}, kind : {"critical"}]

BoundsAssumption ==
  /\ Offers \subseteq Requests
  /\ MaxRequests \in Nat \ {0} /\ MaxLapses \in Nat
  /\ Threads \cap (Processes \cup {NoActor}) = {}

\* The watcher of a playback is named by its process.
Actors == Threads \cup Processes

VARIABLES
  \* ControlState
  focus,     \* the flags that are on
  expiry,    \* flag -> none, ahead or past
  \* AudioPlayback
  lock,      \* the actor that holds it
  slot,      \* self.process
  kind,      \* self.kind, with critical announcements told apart
  \* actors
  todo,      \* actor -> the operations of its request that are left
  \* processes
  running,   \* processes that have not ended
  told,      \* processes that were terminated
  disturbed, \* history: those in the slot when another thread or the clock
             \* turned a flag off
  \* budgets
  started, requests, lapses

state == <<focus, expiry>>
playback == <<lock, slot, kind>>
processes == <<running, told, started, disturbed>>
vars == <<state, playback, todo, processes, requests, lapses>>

Set(f, on) == [do |-> "set", flag |-> f, on |-> on]
Op(name, k) == [do |-> name, flag |-> k, on |-> FALSE]
Operations ==
  [do : {"set"}, flag : Flags, on : BOOLEAN]
    \cup [do : {"fetch", "stop", "unlock", "clear", "reap"}, flag : {None}, on : {FALSE}]
    \cup [do : {"popen"}, flag : Kinds, on : {FALSE}]

TypeOK ==
  /\ focus \subseteq Flags
  /\ expiry \in [Flags -> {None, "ahead", "past"}]
  /\ \A f \in Flags : expiry[f] # None => f \in focus
  /\ lock \in Actors \cup {NoActor}
  /\ slot \in Processes \cup {NoProcess}
  /\ kind \in Kinds \cup {None}
  /\ kind = None <=> slot = NoProcess
  /\ todo \in [Actors -> Seq(Operations)]
  /\ running \subseteq 1..started /\ told \subseteq 1..started
  /\ disturbed \subseteq 1..started
  /\ started \in 0..MaxRequests /\ requests \in 0..MaxRequests
  /\ lapses \in 0..MaxLapses

Init ==
  /\ focus = {} /\ expiry = [f \in Flags |-> None]
  /\ lock = NoActor /\ slot = NoProcess /\ kind = None
  /\ todo = [a \in Actors |-> <<>>]
  /\ running = {} /\ told = {} /\ started = 0 /\ disturbed = {}
  /\ requests = 0 /\ lapses = 0

-----------------------------------------------------------------------------
(* What requests consist of.                                               *)

\* Mutant: the critical flag of an announcement is left on.
OffPartly(k) ==
  CASE k = None -> <<>>
    [] k = "assistant" -> <<Set("assistant_speaking", FALSE)>>
    [] OTHER -> <<Set("announcement_active", FALSE)>>

\* _set_state(kind, False, False), for a slot that was in use.
Off(k) ==
  CASE k = None -> <<>>
    [] k = "assistant" -> <<Set("assistant_speaking", FALSE)>>
    [] OTHER -> <<Set("announcement_active", FALSE),
                  Set("critical_announcement", FALSE)>>

\* _set_state(kind, critical, True).
On(k) ==
  IF k = "assistant" THEN <<Set("assistant_speaking", TRUE)>>
  ELSE <<Set("announcement_active", TRUE), Set("critical_announcement", k = "critical")>>

\* RoomController.execute, as far as it touches focus and playback.
Program(r) ==
  CASE r.do = "play" -> <<Op("fetch", None), Op("stop", None), Op("popen", r.kind)>>
    [] r.do = "cancel" ->
         <<Op("stop", None), Set("assistant_speaking", FALSE),
           Set("announcement_active", FALSE), Set("critical_announcement", FALSE),
           Op("unlock", None), Op("clear", None)>>
    [] r.do \in {"start_listening", "stop_listening"} ->
         <<Set("listening", r.do = "start_listening")>>
    [] r.do \in {"assistant_start", "assistant_end"} ->
         <<Set("assistant_speaking", r.do = "assistant_start")>>
    [] r.do = "announcement_start" ->
         <<Set("announcement_active", TRUE),
           Set("critical_announcement", r.kind = "critical")>>
    [] OTHER -> <<Set("announcement_active", FALSE),
                  Set("critical_announcement", FALSE)>>

Request(t, r) ==
  /\ todo[t] = <<>> /\ requests < MaxRequests
  /\ requests' = requests + 1
  /\ todo' = [todo EXCEPT ![t] = Program(r)]
  /\ UNCHANGED <<state, playback, processes, lapses>>

-----------------------------------------------------------------------------
(* The operations.                                                         *)

Doing(a, name) == todo[a] # <<>> /\ Head(todo[a]).do = name
Rest(a) == todo' = [todo EXCEPT ![a] = Tail(@)]

\* _expire_locked, which precedes everything that reads or sets the state.
Expired == {f \in Flags : expiry[f] = "past"}

\* Mutant: a state is set without a lifetime.
SetForGood(a) ==
  /\ Doing(a, "set")
  /\ LET f == Head(todo[a]).flag  on == Head(todo[a]).on IN
       /\ focus' = IF on THEN (focus \ Expired) \cup {f} ELSE focus \ (Expired \cup {f})
       /\ expiry' = [g \in Flags |-> IF g = f THEN None
                                    ELSE IF g \in Expired THEN None ELSE expiry[g]]
  /\ Rest(a)
  /\ UNCHANGED <<playback, processes, requests, lapses>>

\* A flag is turned off, which is nothing to the playback that did it itself.
Disturb(a) == disturbed' = IF lock = a THEN disturbed ELSE disturbed \cup ({slot} \cap running)

\* ControlState.set; whoever turns a state on gives it a lifetime.
SetFlag(a) ==
  /\ Doing(a, "set")
  /\ LET f == Head(todo[a]).flag  on == Head(todo[a]).on IN
       /\ focus' = IF on THEN (focus \ Expired) \cup {f} ELSE focus \ (Expired \cup {f})
       /\ expiry' = [g \in Flags |-> IF g = f THEN IF on THEN "ahead" ELSE None
                                    ELSE IF g \in Expired THEN None ELSE expiry[g]]
       /\ IF on THEN UNCHANGED disturbed ELSE Disturb(a)
  /\ Rest(a)
  /\ UNCHANGED <<playback, running, told, started, requests, lapses>>

\* ControlState.clear.
Clear(a) ==
  /\ Doing(a, "clear")
  /\ focus' = {} /\ expiry' = [f \in Flags |-> None]
  /\ Disturb(a) /\ Rest(a)
  /\ UNCHANGED <<playback, running, told, started, requests, lapses>>

\* The asset is in the cache or downloaded, or the request is rejected: by the
\* activation gate, the download or the digest.
Fetch(a) ==
  /\ Doing(a, "fetch")
  /\ Rest(a) \/ todo' = [todo EXCEPT ![a] = <<>>]
  /\ UNCHANGED <<state, playback, processes, requests, lapses>>

\* Mutant: the lock is not kept until the new playback has the slot.
StopUnlocked(a) ==
  /\ Doing(a, "stop") /\ lock = NoActor
  /\ slot' = NoProcess /\ kind' = None
  /\ told' = told \cup ({slot} \cap running)
  /\ todo' = [todo EXCEPT ![a] = Off(kind) \o Tail(@)]
  /\ UNCHANGED <<state, lock, running, started, disturbed, requests, lapses>>

\* The lock is taken and _stop_locked called.
Stop(a) ==
  /\ Doing(a, "stop") /\ lock = NoActor
  /\ lock' = a
  /\ slot' = NoProcess /\ kind' = None
  /\ told' = told \cup ({slot} \cap running)
  /\ todo' = [todo EXCEPT ![a] = Off(kind) \o Tail(@)]
  /\ UNCHANGED <<state, running, started, disturbed, requests, lapses>>

\* pw-play is started, or is not: its OSError releases the lock.
Popen(a) ==
  /\ Doing(a, "popen")
  /\ \/ /\ started < MaxRequests /\ started' = started + 1
        /\ running' = running \cup {started'}
        /\ slot' = started'
        /\ kind' = Head(todo[a]).flag
        /\ todo' = [todo EXCEPT ![a] = On(Head(@).flag) \o <<Op("unlock", None)>>]
        /\ UNCHANGED lock
     \/ /\ lock' = NoActor
        /\ todo' = [todo EXCEPT ![a] = <<>>]
        /\ UNCHANGED <<slot, kind, running, started>>
  /\ UNCHANGED <<state, told, disturbed, requests, lapses>>

Unlock(a) ==
  /\ Doing(a, "unlock")
  /\ lock' = NoActor
  /\ Rest(a)
  /\ UNCHANGED <<state, slot, kind, processes, requests, lapses>>

\* pw-play ends, by itself or because it was told to: its watcher goes on.
ProcessEnds(p) ==
  /\ p \in running
  /\ running' = running \ {p}
  /\ todo' = [todo EXCEPT ![p] = <<Op("reap", None)>>]
  /\ UNCHANGED <<state, playback, told, started, disturbed, requests, lapses>>

\* Mutant: a watcher does not look whose slot it frees.
ReapAny(p) ==
  /\ Doing(p, "reap") /\ lock = NoActor
  /\ lock' = p /\ slot' = NoProcess /\ kind' = None
  /\ todo' = [todo EXCEPT ![p] = Off(kind) \o <<Op("unlock", None)>>]
  /\ UNCHANGED <<state, processes, requests, lapses>>

\* Mutant: the kind of the playback outlives it.
ReapKeepingKind(p) ==
  /\ Doing(p, "reap") /\ lock = NoActor
  /\ IF slot # p
       THEN Rest(p) /\ UNCHANGED playback
       ELSE /\ lock' = p /\ slot' = NoProcess /\ kind' = kind
            /\ todo' = [todo EXCEPT ![p] = Off(kind) \o <<Op("unlock", None)>>]
  /\ UNCHANGED <<state, processes, requests, lapses>>

\* _watch frees the slot unless another playback has it by now.
Reap(p) ==
  /\ Doing(p, "reap") /\ lock = NoActor
  /\ IF slot # p
       THEN Rest(p) /\ UNCHANGED playback
       ELSE /\ lock' = p /\ slot' = NoProcess /\ kind' = None
            /\ todo' = [todo EXCEPT ![p] = Off(kind) \o <<Op("unlock", None)>>]
  /\ UNCHANGED <<state, processes, requests, lapses>>

\* The clock passes a lifetime, which nobody looks at before the next access.
Lapse(f) ==
  /\ expiry[f] = "ahead" /\ lapses < MaxLapses
  /\ expiry' = [expiry EXCEPT ![f] = "past"]
  /\ lapses' = lapses + 1
  /\ disturbed' = disturbed \cup ({slot} \cap running)
  /\ UNCHANGED <<focus, playback, todo, running, told, started, requests>>

-----------------------------------------------------------------------------
Step(a) ==
  \/ SetFlag(a) \/ Clear(a) \/ Fetch(a) \/ Stop(a) \/ Popen(a) \/ Unlock(a)
  \/ a \in Processes /\ Reap(a)

Next ==
  \/ \E t \in Threads, r \in Offers : Request(t, r)
  \/ \E a \in Actors : Step(a)
  \/ \E p \in Processes : ProcessEnds(p)
  \/ \E f \in Flags : Lapse(f)

Spec == Init /\ [][Next]_vars

\* Threads run, and lifetimes end; that speech does is not assumed.
FairSpec == Spec /\ \A a \in Actors : WF_vars(Step(a))
                 /\ \A f \in Flags : WF_vars(Lapse(f))

-----------------------------------------------------------------------------
(* Properties.                                                             *)

\* What focus_sources reports.
InFocus(f) == f \in focus \ Expired

\* At most one speech or announcement is left to play, and it is the one that
\* cancel and the next asset would stop.
OneSpeaker == running \ told \subseteq {slot}

\* While a speech or an announcement plays its focus is on, unless another
\* request or the end of a lifetime has taken it: the end or the replacement of
\* one playback never costs another its focus.
SpeechKeepsFocus ==
  lock = NoActor /\ (running \ told) \ disturbed # {} =>
    /\ kind = "assistant" => InFocus("assistant_speaking")
    /\ kind # "assistant" => InFocus("announcement_active")
    /\ kind = "critical" => InFocus("critical_announcement")

\* When nothing plays and nobody is about to change that, playback has left no
\* focus behind.
SilenceHasNoFocus ==
  slot = NoProcess /\ (\A a \in Actors : todo[a] = <<>>) =>
    ~\E f \in Flags \ {"listening"} : InFocus(f)

\* When requests cease no focus is left in the end, also when a speech never ends
\* and whoever turned its flag on never turns it off.
FocusEnds == <>[](\A f \in Flags : ~InFocus(f))
=============================================================================
