------------------------------- MODULE RoomVideo -------------------------------
(***************************************************************************)
(* The room agent's mpv: one player is wanted, which is found by its IPC     *)
(* socket and started when it does not answer there.  Requests of several   *)
(* threads take turns by a lock; the player outlives the agent.             *)
(***************************************************************************)
EXTENDS Naturals

CONSTANTS
  Threads,     \* threads that serve requests
  MaxStarts,   \* players started
  MaxFaults    \* crashes, late answers, restarts of the agent

Nobody == "nobody"
Players == 1..MaxStarts
NoPlayer == 0

BoundsAssumption == MaxStarts \in Nat /\ MaxFaults \in Nat /\ Nobody \notin Threads

VARIABLES
  alive,    \* the players that run
  ready,    \* those that listen on the socket they made
  playing,  \* those with a file loaded
  ipc,      \* the player whose socket has the path
  child,    \* MpvPlayback.process
  holder,   \* the thread that has the lock
  at,       \* thread -> where its request stands
  missed,   \* history: a player that runs did not answer in time
  starts, faultsOfVideo

vars == <<alive, ready, playing, ipc, child, holder, at, missed, starts, faultsOfVideo>>

TypeOK ==
  /\ alive \subseteq Players /\ ready \subseteq alive /\ playing \subseteq ready
  /\ ipc \in Players \cup {NoPlayer} /\ child \in Players \cup {NoPlayer}
  /\ holder \in Threads \cup {Nobody}
  /\ at \in [Threads -> {"idle", "play", "stop", "starting"}]
  /\ missed \in BOOLEAN /\ starts \in 0..MaxStarts /\ faultsOfVideo \in 0..MaxFaults

Init ==
  /\ alive = {} /\ ready = {} /\ playing = {} /\ ipc = NoPlayer /\ child = NoPlayer
  /\ holder = Nobody /\ at = [t \in Threads |-> "idle"]
  /\ missed = FALSE /\ starts = 0 /\ faultsOfVideo = 0

Answers == ipc \in ready
Fault == faultsOfVideo < MaxFaults /\ faultsOfVideo' = faultsOfVideo + 1

-----------------------------------------------------------------------------
\* Mutant: the lock is taken for the command alone.
Unlocked(t) == UNCHANGED holder

Locks(t) == holder = Nobody /\ holder' = t

\* A request for a file, or one that stops the player (stop, cancel).
Request(t, what) ==
  /\ at[t] = "idle" /\ Locks(t)
  /\ at' = [at EXCEPT ![t] = what]
  /\ UNCHANGED <<alive, ready, playing, ipc, child, missed, starts, faultsOfVideo>>

Done(t) ==
  /\ at' = [at EXCEPT ![t] = "idle"] /\ holder' = Nobody
  /\ UNCHANGED <<alive, ready, ipc, child, missed, starts, faultsOfVideo>>

\* The player answers the ping and gets the command.
Commands(t) ==
  /\ Answers
  /\ \/ at[t] \in {"play", "starting"} /\ playing' = playing \cup {ipc}
     \/ at[t] = "stop" /\ playing' = playing \ {ipc}
  /\ Done(t)

\* Nobody answers a cancel: there is nothing to stop.
NothingToStop(t) == at[t] = "stop" /\ ~Answers /\ UNCHANGED playing /\ Done(t)

\* _ensure_started: nobody answers, the socket's path is cleared and a player
\* started, which the agent remembers instead of the one before.
Starts(t) ==
  /\ at[t] = "play" /\ starts < MaxStarts
  /\ \/ ~Answers /\ UNCHANGED <<missed, faultsOfVideo>>
     \/ Answers /\ Fault /\ missed' = TRUE
  /\ starts' = starts + 1 /\ child' = starts + 1 /\ ipc' = NoPlayer
  /\ alive' = alive \cup {starts + 1}
  /\ at' = [at EXCEPT ![t] = "starting"]
  /\ UNCHANGED <<ready, playing, holder>>

\* mpv cannot be started.
CannotStart(t) ==
  /\ at[t] = "play" /\ ~Answers
  /\ ipc' = NoPlayer /\ holder' = Nobody /\ at' = [at EXCEPT ![t] = "idle"]
  /\ UNCHANGED <<alive, ready, playing, child, missed, starts, faultsOfVideo>>

\* The player makes its socket at the path.
BecomesReady(p) ==
  /\ p \in alive \ ready
  /\ ready' = ready \cup {p} /\ ipc' = p
  /\ UNCHANGED <<alive, playing, child, holder, at, missed, starts, faultsOfVideo>>

\* The player exits, or its socket is not there in time: the request fails, and
\* a player that is merely slow is left to itself.
GivesUp(t) ==
  /\ at[t] = "starting" /\ ~Answers
  /\ \/ child \notin alive /\ UNCHANGED <<missed, faultsOfVideo>>
     \/ child \in alive /\ Fault /\ missed' = TRUE
  /\ at' = [at EXCEPT ![t] = "idle"] /\ holder' = Nobody
  /\ UNCHANGED <<alive, ready, playing, ipc, child, starts>>

Dies(p) ==
  /\ p \in alive /\ Fault
  /\ alive' = alive \ {p} /\ ready' = ready \ {p} /\ playing' = playing \ {p}
  /\ UNCHANGED <<ipc, child, holder, at, missed, starts>>

\* The agent ends; close() waits for the lock, asks the player that answers to
\* quit and terminates the one it remembers.
AgentStops ==
  /\ Fault /\ holder = Nobody
  /\ LET gone == {child} \cup (IF Answers THEN {ipc} ELSE {})
     IN alive' = alive \ gone /\ ready' = ready \ gone /\ playing' = playing \ gone
  /\ child' = NoPlayer
  /\ UNCHANGED <<ipc, holder, at, missed, starts>>

\* The agent is killed: its players go on, in sessions of their own.
AgentDies ==
  /\ Fault
  /\ child' = NoPlayer /\ holder' = Nobody /\ at' = [t \in Threads |-> "idle"]
  /\ missed' = (missed \/ alive # ready)
  /\ UNCHANGED <<alive, ready, playing, ipc, starts>>

-----------------------------------------------------------------------------
Next ==
  \/ \E t \in Threads : \/ \E what \in {"play", "stop"} : Request(t, what)
                        \/ Commands(t) \/ NothingToStop(t) \/ Starts(t) \/ CannotStart(t)
                        \/ GivesUp(t)
  \/ \E p \in Players : BecomesReady(p) \/ Dies(p)
  \/ AgentStops \/ AgentDies

Spec == Init /\ [][Next]_vars

-----------------------------------------------------------------------------
\* Whatever requests are made at once, there is never a second player beside
\* the one that requests reach, unless a player that runs was given up because
\* it did not answer in time: it then plays on where no stop or cancel gets to.
OnePlayer == missed \/ \A p, q \in alive : p = q
=============================================================================
