------------------------------ MODULE AssistFocus ------------------------------
(***************************************************************************)
(* From a voice satellite's state in Home Assistant to the focus flags of    *)
(* its room.  The bridge takes note of each state, translates the change     *)
(* into two commands and sends them one after the other; a command that      *)
(* finds the room disconnected waits in Core's table and is replayed.        *)
(***************************************************************************)
EXTENDS Naturals, Sequences, SequencesExt

CONSTANTS
  MaxStates,    \* changes of the satellite's state
  MaxTroubles   \* outages, restarts, failures

BoundsAssumption == {MaxStates, MaxTroubles} \subseteq Nat

Hearing == {"listening", "processing"}
Active == Hearing \cup {"responding"}
States == Active \cup {"idle", "unavailable"}

VARIABLES
  satellite,   \* its state in Home Assistant
  subscribed,  \* the bridge's WebSocket is open
  news,        \* state_changed events on their way
  noted,       \* last_states of the satellite, "none" before the first
  todo,        \* the commands of the current event the bridge has yet to send
  online,      \* the room's agent is connected
  waiting,     \* commands queued while it was not
  line,        \* commands handed to its socket
  flags,       \* ControlState: listening and assistant_speaking
  lapsed,      \* history: flags that ended since they were set, with their lifetime
               \* or with the agent that held them
  lost,        \* history: an event or a command was lost, late or overtaken
  moves, troubles

bridge == <<subscribed, noted, todo>>
transport == <<online, waiting, line>>
vars == <<satellite, bridge, news, transport, flags, lapsed, lost, moves, troubles>>

FlagNames == {"listening", "speaking"}
On(flag) == [flag |-> flag, on |-> TRUE]
Off(flag) == [flag |-> flag, on |-> FALSE]
Commands == [flag: FlagNames, on: BOOLEAN]

TypeOK ==
  /\ satellite \in States /\ noted \in States \cup {"none"}
  /\ subscribed \in BOOLEAN /\ online \in BOOLEAN /\ lost \in BOOLEAN
  /\ news \in Seq(States) /\ {todo, waiting, line} \subseteq Seq(Commands)
  /\ flags \subseteq FlagNames /\ lapsed \subseteq FlagNames \ flags
  /\ moves \in 0..MaxStates /\ troubles \in 0..MaxTroubles
  /\ ~subscribed => news = << >>

Init ==
  /\ satellite = "idle" /\ subscribed = TRUE /\ news = << >> /\ noted = "none" /\ todo = << >>
  /\ online = TRUE /\ waiting = << >> /\ line = << >>
  /\ flags = {} /\ lapsed = {} /\ lost = FALSE /\ moves = 0 /\ troubles = 0

Trouble == troubles < MaxTroubles /\ troubles' = troubles + 1

-----------------------------------------------------------------------------
(* Home Assistant and the bridge's connection                              *)

SatelliteMoves ==
  /\ moves < MaxStates /\ moves' = moves + 1
  /\ satellite' \in States \ {satellite}
  /\ news' = IF subscribed THEN Append(news, satellite') ELSE news
  /\ lost' = (lost \/ ~subscribed)
  /\ UNCHANGED <<bridge, transport, flags, lapsed, troubles>>

\* The connection breaks, between two messages or while one is handled, whose
\* commands are sent all the same.
Unsubscribed ==
  /\ subscribed /\ Trouble
  /\ subscribed' = FALSE /\ news' = << >> /\ lost' = (lost \/ news # << >>)
  /\ UNCHANGED <<satellite, noted, todo, transport, flags, lapsed, moves>>

\* Home Assistant tells of changes only, not of the present state.
Subscribes ==
  /\ ~subscribed /\ todo = << >> /\ subscribed' = TRUE
  /\ UNCHANGED <<satellite, news, noted, todo, transport, flags, lapsed, lost, moves, troubles>>

-----------------------------------------------------------------------------
(* The bridge                                                              *)

\* Mutant: a satellite that ends while it processes is not seen to end.
FocusCommandsForgetful(previous, current) ==
  CASE current \in Hearing -> <<Off("speaking"), On("listening")>>
    [] current = "responding" -> <<Off("listening"), On("speaking")>>
    [] current \notin Active /\ previous \in {"listening", "responding"}
         -> <<Off("listening"), Off("speaking")>>
    [] OTHER -> << >>

FocusCommands(previous, current) ==
  CASE current \in Hearing -> <<Off("speaking"), On("listening")>>
    [] current = "responding" -> <<Off("listening"), On("speaking")>>
    [] current \notin Active /\ previous \in Active -> <<Off("listening"), Off("speaking")>>
    [] OTHER -> << >>

HandleMessage ==
  /\ subscribed /\ todo = << >> /\ news # << >>
  /\ noted' = Head(news) /\ news' = Tail(news)
  /\ todo' = IF Head(news) = noted THEN << >> ELSE FocusCommands(noted, Head(news))
  /\ UNCHANGED <<satellite, subscribed, transport, flags, lapsed, lost, moves, troubles>>

\* queue_device_command: the row, then the socket if there is one.  A command
\* sent past others that wait to be replayed overtakes them.
Send ==
  /\ todo # << >> /\ todo' = Tail(todo)
  /\ IF online
     THEN line' = Append(line, Head(todo)) /\ lost' = (lost \/ waiting # << >>) /\ UNCHANGED waiting
     ELSE waiting' = Append(waiting, Head(todo)) /\ UNCHANGED <<line, lost>>
  /\ UNCHANGED <<satellite, subscribed, news, noted, online, flags, lapsed, moves, troubles>>

\* The sender raises: the command is gone, the bridge goes on with the next.
SendFails ==
  /\ todo # << >> /\ Trouble /\ todo' = Tail(todo) /\ lost' = TRUE
  /\ UNCHANGED <<satellite, subscribed, news, noted, transport, flags, lapsed, moves>>

CoreRestarts ==
  /\ Trouble
  /\ subscribed' = FALSE /\ news' = << >> /\ noted' = "none" /\ todo' = << >>
  /\ online' = FALSE /\ waiting' = line \o waiting /\ line' = << >>
  /\ lost' = (lost \/ noted \in Active \/ news # << >> \/ todo # << >>)
  /\ UNCHANGED <<satellite, flags, lapsed, moves>>

-----------------------------------------------------------------------------
(* The room                                                                *)

\* What was handed to the socket and not answered is replayed first.
Disconnects ==
  /\ online /\ Trouble
  /\ online' = FALSE /\ waiting' = line \o waiting /\ line' = << >>
  /\ UNCHANGED <<satellite, bridge, news, flags, lapsed, lost, moves>>

\* A new agent has every flag off, and Core is not asked what they were.
AgentRestarts ==
  /\ Trouble
  /\ online' = FALSE /\ waiting' = line \o waiting /\ line' = << >>
  /\ flags' = {} /\ lapsed' = lapsed \cup flags
  /\ UNCHANGED <<satellite, bridge, news, lost, moves>>

Reconnects ==
  /\ ~online /\ online' = TRUE
  /\ UNCHANGED <<satellite, bridge, news, waiting, line, flags, lapsed, lost, moves, troubles>>

Replay ==
  /\ online /\ waiting # << >>
  /\ line' = Append(line, Head(waiting)) /\ waiting' = Tail(waiting)
  /\ UNCHANGED <<satellite, bridge, news, online, flags, lapsed, lost, moves, troubles>>

\* Half a minute passes before the room is back.
CommandExpires ==
  /\ waiting # << >> /\ Trouble
  /\ waiting' = Tail(waiting) /\ lost' = TRUE
  /\ UNCHANGED <<satellite, bridge, news, online, line, flags, lapsed, moves>>

\* RoomController.execute
Execute ==
  /\ line # << >> /\ line' = Tail(line)
  /\ LET c == Head(line)
     IN flags' = IF c.on THEN flags \cup {c.flag} ELSE flags \ {c.flag}
  /\ lapsed' = lapsed \ {Head(line).flag}
  /\ UNCHANGED <<satellite, bridge, news, online, waiting, lost, moves, troubles>>

\* A flag's 45 or 120 seconds are over.
Lapses ==
  /\ \E f \in flags : flags' = flags \ {f} /\ lapsed' = lapsed \cup {f}
  /\ UNCHANGED <<satellite, bridge, news, transport, lost, moves, troubles>>

-----------------------------------------------------------------------------
Next ==
  \/ SatelliteMoves \/ Unsubscribed \/ Subscribes
  \/ HandleMessage \/ Send \/ SendFails \/ CoreRestarts
  \/ Disconnects \/ AgentRestarts \/ Reconnects \/ Replay
  \/ CommandExpires \/ Execute \/ Lapses
Spec == Init /\ [][Next]_vars

-----------------------------------------------------------------------------
\* Unless an event or a command was lost, late or overtaken, a room that has
\* executed everything listens only while its satellite listens or processes,
\* and speaks only while it responds; and then it does, but for the flags that
\* have ended since they were set, with their lifetime or with an agent that
\* was restarted.  Disconnections that lose nothing change nothing.
FocusFollows ==
  ~lost /\ news = << >> /\ todo = << >> /\ waiting = << >> /\ line = << >> =>
    LET meant == (IF satellite \in Hearing THEN {"listening"} ELSE {})
                   \cup (IF satellite = "responding" THEN {"speaking"} ELSE {})
    IN flags \subseteq meant /\ meant \subseteq flags \cup lapsed
=============================================================================
