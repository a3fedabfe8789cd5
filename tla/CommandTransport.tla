-------------------------- MODULE CommandTransport --------------------------
(***************************************************************************)
(* The durable command transport between Pilot Core and one room endpoint. *)
(*                                                                         *)
(* Pilot Core persists a command in SQLite, pushes it over the endpoint's  *)
(* WebSocket when one is registered, and replays everything still pending  *)
(* when the endpoint reconnects.  The room agent runs the command, writes  *)
(* the result to its own SQLite journal and only then reports it, so a     *)
(* repeated command identifier is answered from the journal.               *)
(*                                                                         *)
(* The processes are the tasks of Core's event loop (one per WebSocket,    *)
(* one per HTTP request that creates a command) and the agent's command    *)
(* thread.  An action is the code between two awaits of a Core task, or    *)
(* between two durable or network effects of the agent.                    *)
(***************************************************************************)
EXTENDS Naturals, Sequences, FiniteSets

CONSTANTS
  MaxCmd,          \* commands created for the device: identifiers 1..MaxCmd
  MaxConn,         \* WebSocket connections the agent may open: 1..MaxConn
  JournalCap,      \* results the agent's journal keeps (1000 in the code)
  Results,         \* what RoomController.execute may come to
  MaxLapses,       \* commands whose lifetime may pass
  MaxBreaks,       \* network failures explored
  MaxAgentCrashes, \* crashes or restarts of the room agent explored
  MaxCoreCrashes   \* crashes or restarts of Pilot Core explored

ASSUME BoundsAssumption ==
  /\ MaxCmd \in Nat \ {0}
  /\ MaxConn \in Nat \ {0}
  /\ JournalCap \in Nat \ {0}
  /\ Results \subseteq {"succeeded", "failed"}
  /\ MaxLapses \in Nat
  /\ MaxBreaks \in Nat
  /\ MaxAgentCrashes \in Nat
  /\ MaxCoreCrashes \in Nat

Cmds == 1..MaxCmd
Conns == 1..MaxConn
Http == 0                                  \* the sender that is no connection
NoConn == 0
NoCmd == 0
None == "none"

Outcomes == {"succeeded", "failed"}
Pending == {"queued", "delivered"}
Statuses == {None, "expired"} \cup Pending \cup Outcomes
Terminal == {"expired"} \cup Outcomes

VARIABLES
  \* Pilot Core's database: survives a crash of Core
  status,      \* command -> state of its row, None before it is inserted
  lapsed,      \* commands whose expires_at lies in the past
  announced,   \* commands with a completed.v1 entry in the client event log
  \* Pilot Core's memory
  hub,         \* the connection registered in DeviceHub.connections
  handler,     \* connection -> where its device_socket task stands
  todo,        \* connection -> commands of its snapshot still to be replayed
  result,      \* connection -> command whose result it is processing
  line,        \* connection -> FIFO of the sends holding or awaiting send_lock
  written,     \* connections whose first send has reached the socket
  coreOpen,    \* connections whose socket Core still believes open
  \* the network
  down,        \* connection -> commands on their way to the agent
  up,          \* connection -> results on their way to Core
  cut,         \* connections the network has lost
  \* the room agent: the journal survives a crash of the agent
  journal,     \* command -> recorded result, None when there is none
  agent,       \* where the command thread stands
  session,     \* the connection the agent uses
  current,     \* the command the agent is processing
  outcome,     \* and its result
  \* history and budgets
  execs,       \* command -> number of times RoomController ran it
  nextConn, breaks, agentCrashes, coreCrashes

db      == <<status, lapsed, announced>>
hubs    == <<hub, handler, todo, result, line, written, coreOpen>>
net     == <<down, up, cut>>
room    == <<journal, agent, session, current, outcome, execs>>
budgets == <<nextConn, breaks, agentCrashes, coreCrashes>>
vars    == <<db, hubs, net, room, budgets>>

HandlerStates == {"unused", "accepted", "registered", "replay", "sending",
                  "receive", "notify", "done"}
AgentStates == {"offline", "ready", "executed", "recorded"}

TypeOK ==
  /\ status \in [Cmds -> Statuses]
  /\ lapsed \subseteq Cmds
  /\ announced \subseteq Cmds
  /\ hub \in Conns \cup {NoConn}
  /\ handler \in [Conns -> HandlerStates]
  /\ todo \in [Conns -> SUBSET Cmds]
  /\ result \in [Conns -> Cmds \cup {NoCmd}]
  /\ line \in [Conns -> Seq([by : Conns \cup {Http}, cmd : Cmds])]
  /\ written \subseteq Conns
  /\ coreOpen \subseteq Conns
  /\ down \in [Conns -> Seq(Cmds)]
  /\ up \in [Conns -> Seq([cmd : Cmds, res : Outcomes])]
  /\ cut \subseteq Conns
  /\ journal \in [Cmds -> Outcomes \cup {None}]
  /\ agent \in AgentStates
  /\ session \in Conns \cup {NoConn}
  /\ current \in Cmds \cup {NoCmd}
  /\ outcome \in Outcomes \cup {None}
  /\ execs \in [Cmds -> Nat]
  /\ nextConn \in 1..(MaxConn + 1)
  /\ breaks \in 0..MaxBreaks
  /\ agentCrashes \in 0..MaxAgentCrashes
  /\ coreCrashes \in 0..MaxCoreCrashes

Init ==
  /\ status = [c \in Cmds |-> None]
  /\ lapsed = {} /\ announced = {}
  /\ hub = NoConn
  /\ handler = [k \in Conns |-> "unused"]
  /\ todo = [k \in Conns |-> {}]
  /\ result = [k \in Conns |-> NoCmd]
  /\ line = [k \in Conns |-> <<>>]
  /\ written = {} /\ coreOpen = {}
  /\ down = [k \in Conns |-> <<>>]
  /\ up = [k \in Conns |-> <<>>]
  /\ cut = {}
  /\ journal = [c \in Cmds |-> None]
  /\ agent = "offline" /\ session = NoConn
  /\ current = NoCmd /\ outcome = None
  /\ execs = [c \in Cmds |-> 0]
  /\ nextConn = 1 /\ breaks = 0 /\ agentCrashes = 0 /\ coreCrashes = 0

-----------------------------------------------------------------------------
(* The command table.                                                      *)

\* _expire_commands_locked, which every statement on the table runs first.
Expired == [c \in Cmds |->
              IF status[c] \in Pending /\ c \in lapsed THEN "expired" ELSE status[c]]

\* Mutant: commands already delivered once are not replayed.
PendingCommandsQueued == {c \in Cmds : Expired[c] = "queued"}

PendingCommands == {c \in Cmds : Expired[c] \in Pending}

\* Mutant: the UPDATE that marks a delivery without its status guard.
DeliveredAnyway(c) == [Expired EXCEPT ![c] = "delivered"]

Delivered(c) ==
  [Expired EXCEPT ![c] = IF @ \in Pending THEN "delivered" ELSE @]

\* Mutants: a result for an expired row is accepted; the status of the message
\* is stored unchecked; complete_command does not expire rows first.
CompletedLate(c, r) == [Expired EXCEPT ![c] = IF @ \in Pending \cup {"expired"} THEN r ELSE @]
CompletedUnchecked(c, r) == [Expired EXCEPT ![c] = IF @ \in Pending THEN "ok" ELSE @]
CompletedUnexpired(c, r) == [status EXCEPT ![c] = IF @ \in Pending THEN r ELSE @]

\* complete_command: the KeyError for an expired row rolls the transaction back,
\* and with it the expiry of this and of any other row.
Completed(c, r) ==
  IF Expired[c] \in {None, "expired"} THEN status
  ELSE [Expired EXCEPT ![c] = IF @ \in Pending THEN r ELSE @]

\* The sender queues on the send_lock of the connection it found registered.
Enqueue(k, by, c) == line' = [line EXCEPT ![k] = Append(@, [by |-> by, cmd |-> c])]

\* Mutant: disconnect removes whatever connection is registered.
DroppedAny(k) == NoConn

\* DeviceHub.disconnect: only the connection itself may remove its entry.
Dropped(k) == IF hub = k THEN NoConn ELSE hub

\* A sender whose send has ended: an HTTP request is answered, a replaying
\* handler goes on with its snapshot.
SenderResumes(by) ==
  handler' = IF by = Http THEN handler ELSE [handler EXCEPT ![by] = "replay"]

-----------------------------------------------------------------------------
(* Pilot Core.                                                             *)

\* queue_device_command up to the first await that can suspend: the row is
\* inserted, and the connection looked up, in one run of the event loop.
Create(c) ==
  /\ status[c] = None
  /\ \A d \in Cmds : d < c => status[d] # None
  /\ status' = [Expired EXCEPT ![c] = "queued"]
  /\ IF hub = NoConn THEN line' = line ELSE Enqueue(hub, Http, c)
  /\ UNCHANGED <<lapsed, announced, hub, handler, todo, result, written, coreOpen,
                 net, room, budgets>>

\* The clock passes the command's expires_at.
Lapse(c) ==
  /\ status[c] \in Pending /\ c \notin lapsed
  /\ Cardinality(lapsed) < MaxLapses
  /\ lapsed' = lapsed \cup {c}
  /\ UNCHANGED <<status, announced, hubs, net, room, budgets>>

\* get_command or list_commands on behalf of a client.
ReadCommands ==
  /\ Expired # status
  /\ status' = Expired
  /\ UNCHANGED <<lapsed, announced, hubs, net, room, budgets>>

\* DeviceHub.connect: register, then close the connection it replaces.  Tasks
\* reach this point in the order in which their sockets were accepted.
Register(k) ==
  /\ handler[k] = "accepted"
  /\ \A j \in Conns : j < k => handler[j] # "accepted"
  /\ hub' = k
  /\ coreOpen' = coreOpen \ {hub}
  /\ handler' = [handler EXCEPT ![k] = "registered"]
  /\ UNCHANGED <<db, todo, result, line, written, net, room, budgets>>

\* device_socket reads the pending commands, after the hello.
Snapshot(k) ==
  /\ handler[k] = "registered"
  /\ status' = Expired
  /\ todo' = [todo EXCEPT ![k] = PendingCommands]
  /\ handler' = [handler EXCEPT ![k] = "replay"]
  /\ UNCHANGED <<lapsed, announced, hub, result, line, written, coreOpen,
                 net, room, budgets>>

\* The next command of the snapshot, lowest identifier first, is sent to
\* whichever connection is registered for the device by now.
Replay(k, c) ==
  /\ handler[k] = "replay"
  /\ c \in todo[k] /\ \A d \in todo[k] : c <= d
  /\ todo' = [todo EXCEPT ![k] = @ \ {c}]
  /\ IF hub = NoConn
       THEN UNCHANGED <<handler, line>>
       ELSE /\ Enqueue(hub, k, c)
            /\ handler' = [handler EXCEPT ![k] = "sending"]
  /\ UNCHANGED <<db, hub, result, written, coreOpen, net, room, budgets>>

ReplayEnds(k) ==
  /\ handler[k] = "replay" /\ todo[k] = {}
  /\ handler' = [handler EXCEPT ![k] = "receive"]
  /\ UNCHANGED <<db, hub, todo, result, line, written, coreOpen, net, room, budgets>>

\* send_json puts the message on the socket.  Nobody reads a lost one.
Write(k) ==
  /\ line[k] # <<>> /\ k \notin written /\ k \in coreOpen
  /\ written' = written \cup {k}
  /\ down' = IF k \in cut THEN down ELSE [down EXCEPT ![k] = Append(@, Head(line[k]).cmd)]
  /\ UNCHANGED <<db, hub, handler, todo, result, line, coreOpen, up, cut, room, budgets>>

\* DeviceHub.send returns True and its caller marks the row.
SendDone(k) ==
  /\ k \in written
  /\ status' = Delivered(Head(line[k]).cmd)
  /\ SenderResumes(Head(line[k]).by)
  /\ line' = [line EXCEPT ![k] = Tail(@)]
  /\ written' = written \ {k}
  /\ UNCHANGED <<lapsed, announced, hub, todo, result, coreOpen, net, room, budgets>>

\* send_json raises: the connection is dropped and its caller told False.
SendFailed(k) ==
  /\ line[k] # <<>> /\ k \notin coreOpen
  /\ hub' = Dropped(k)
  /\ SenderResumes(Head(line[k]).by)
  /\ line' = [line EXCEPT ![k] = Tail(@)]
  /\ written' = written \ {k}
  /\ UNCHANGED <<db, todo, result, coreOpen, net, room, budgets>>

\* Mutant: nobody is told of a result whose connection has just closed.
ReceiveSilently(k) ==
  /\ handler[k] = "receive" /\ up[k] # <<>>
  /\ LET m == Head(up[k])
     IN  /\ status' = Completed(m.cmd, m.res)
         /\ IF k \in coreOpen /\ Completed(m.cmd, m.res)[m.cmd] \in Outcomes
              THEN /\ handler' = [handler EXCEPT ![k] = "notify"]
                   /\ result' = [result EXCEPT ![k] = m.cmd]
              ELSE UNCHANGED <<handler, result>>
  /\ up' = [up EXCEPT ![k] = Tail(@)]
  /\ UNCHANGED <<lapsed, announced, hub, todo, line, written, coreOpen,
                 down, cut, room, budgets>>

\* A command_result: complete_command, whose KeyError for an expired row ends
\* in an error message to the device.
Receive(k) ==
  /\ handler[k] = "receive" /\ up[k] # <<>>
  /\ LET m == Head(up[k])
     IN  /\ status' = Completed(m.cmd, m.res)
         /\ IF Completed(m.cmd, m.res)[m.cmd] \in Outcomes
              THEN /\ handler' = [handler EXCEPT ![k] = "notify"]
                   /\ result' = [result EXCEPT ![k] = m.cmd]
              ELSE UNCHANGED <<handler, result>>
  /\ up' = [up EXCEPT ![k] = Tail(@)]
  /\ UNCHANGED <<lapsed, announced, hub, todo, line, written, coreOpen,
                 down, cut, room, budgets>>

\* After the awaited broadcast the completion enters the client event log.
Notify(k) ==
  /\ handler[k] = "notify"
  /\ announced' = announced \cup {result[k]}
  /\ handler' = [handler EXCEPT ![k] = "receive"]
  /\ result' = [result EXCEPT ![k] = NoCmd]
  /\ UNCHANGED <<status, lapsed, hub, todo, line, written, coreOpen, net, room, budgets>>

\* Core's end learns that the peer is gone.
CoreNotices(k) ==
  /\ k \in coreOpen /\ (k \in cut \/ session # k)
  /\ coreOpen' = coreOpen \ {k}
  /\ UNCHANGED <<db, hub, handler, todo, result, line, written, net, room, budgets>>

\* A failed hello, acknowledgement or error message, which change nothing else.
OtherSendFails(k) ==
  /\ hub = k /\ k \notin coreOpen
  /\ hub' = NoConn
  /\ UNCHANGED <<db, handler, todo, result, line, written, coreOpen, net, room, budgets>>

\* receive_json raises, and the finally clause drops the connection.
HandlerExits(k) ==
  /\ handler[k] = "receive" /\ k \notin coreOpen
  /\ handler' = [handler EXCEPT ![k] = "done"]
  /\ hub' = Dropped(k)
  /\ up' = [up EXCEPT ![k] = <<>>]
  /\ UNCHANGED <<db, todo, result, line, written, coreOpen, down, cut, room, budgets>>

-----------------------------------------------------------------------------
(* The room agent's command thread.                                        *)

\* The connector returns once Core has accepted the upgrade.
AgentConnects(k) ==
  /\ agent = "offline" /\ k = nextConn
  /\ agent' = "ready" /\ session' = k
  /\ handler' = [handler EXCEPT ![k] = "accepted"]
  /\ coreOpen' = coreOpen \cup {k}
  /\ nextConn' = nextConn + 1
  /\ UNCHANGED <<db, hub, todo, result, line, written, net, journal, current, outcome,
                 execs, breaks, agentCrashes, coreCrashes>>

\* socket.send of the recorded result: lost when the link is.
Reply(c, r) ==
  up' = IF session \in cut \/ session \notin coreOpen THEN up
        ELSE [up EXCEPT ![session] = Append(@, [cmd |-> c, res |-> r])]

\* _handle_message for a command the journal knows.
AnswerFromJournal ==
  /\ agent = "ready" /\ down[session] # <<>>
  /\ journal[Head(down[session])] # None
  /\ Reply(Head(down[session]), journal[Head(down[session])])
  /\ down' = [down EXCEPT ![session] = Tail(@)]
  /\ UNCHANGED <<db, hubs, cut, room, budgets>>

\* Mutant: the result is sent before it is recorded.
ExecuteReplyFirst(r) ==
  /\ agent = "ready" /\ down[session] # <<>>
  /\ LET c == Head(down[session])
     IN  /\ journal[c] = None
         /\ execs' = [execs EXCEPT ![c] = @ + 1]
         /\ current' = c
         /\ Reply(c, r)
  /\ outcome' = r
  /\ agent' = "executed"
  /\ down' = [down EXCEPT ![session] = Tail(@)]
  /\ UNCHANGED <<db, hubs, cut, journal, session, budgets>>

\* _handle_message for any other command, up to the end of execute.
Execute(r) ==
  /\ agent = "ready" /\ down[session] # <<>>
  /\ LET c == Head(down[session])
     IN  /\ journal[c] = None
         /\ execs' = [execs EXCEPT ![c] = @ + 1]
         /\ current' = c
  /\ outcome' = r
  /\ agent' = "executed"
  /\ down' = [down EXCEPT ![session] = Tail(@)]
  /\ UNCHANGED <<db, hubs, up, cut, journal, session, budgets>>

\* Mutant: the pruning DELETE keeps one result fewer.
KeptFewer(known) == {c \in known : Cardinality({d \in known : d > c}) + 1 < JournalCap}

\* The identifiers the pruning DELETE keeps: the JournalCap highest.
Kept(known) == {c \in known : Cardinality({d \in known : d > c}) < JournalCap}

\* CommandJournal.record: insert and prune in one transaction.
Recorded(c, r) ==
  LET known == {d \in Cmds : journal[d] # None} \cup {c}
  IN  [d \in Cmds |-> IF d \notin Kept(known) THEN None
                      ELSE IF d = c /\ journal[c] = None THEN r ELSE journal[d]]

\* The result is recorded; when pruning has already removed it, the assertion
\* ends the session.
Record ==
  /\ agent = "executed"
  /\ journal' = Recorded(current, outcome)
  /\ IF journal'[current] # None
       THEN /\ agent' = "recorded"
            /\ UNCHANGED <<session, current, outcome>>
       ELSE /\ agent' = "offline" /\ session' = NoConn
            /\ current' = NoCmd /\ outcome' = None
  /\ UNCHANGED <<db, hubs, net, execs, budgets>>

SendResult ==
  /\ agent = "recorded"
  /\ Reply(current, outcome)
  /\ agent' = "ready" /\ current' = NoCmd /\ outcome' = None
  /\ UNCHANGED <<db, hubs, down, cut, journal, session, execs, budgets>>

\* recv or send raises in the loop of run_once.
AgentNotices ==
  /\ agent = "ready" /\ (session \in cut \/ session \notin coreOpen)
  /\ agent' = "offline" /\ session' = NoConn
  /\ UNCHANGED <<db, hubs, net, journal, current, outcome, execs, budgets>>

-----------------------------------------------------------------------------
(* Failures.                                                               *)

LinkBreaks(k) ==
  /\ breaks < MaxBreaks
  /\ k \notin cut /\ (k \in coreOpen \/ session = k)
  /\ cut' = cut \cup {k}
  /\ down' = [down EXCEPT ![k] = <<>>]
  /\ up' = [up EXCEPT ![k] = <<>>]
  /\ breaks' = breaks + 1
  /\ UNCHANGED <<db, hubs, room, nextConn, agentCrashes, coreCrashes>>

\* The agent process dies or is restarted at any point; its journal stays.
AgentCrashes ==
  /\ agentCrashes < MaxAgentCrashes
  /\ agent # "offline"
  /\ agent' = "offline" /\ session' = NoConn
  /\ current' = NoCmd /\ outcome' = None
  /\ agentCrashes' = agentCrashes + 1
  /\ UNCHANGED <<db, hubs, net, journal, execs, nextConn, breaks, coreCrashes>>

\* Core dies or is restarted at any await; its database stays.
CoreCrashes ==
  /\ coreCrashes < MaxCoreCrashes
  /\ hub' = NoConn
  /\ handler' = [k \in Conns |-> IF handler[k] = "unused" THEN "unused" ELSE "done"]
  /\ todo' = [k \in Conns |-> {}]
  /\ result' = [k \in Conns |-> NoCmd]
  /\ line' = [k \in Conns |-> <<>>]
  /\ written' = {} /\ coreOpen' = {}
  /\ up' = [k \in Conns |-> <<>>]
  /\ coreCrashes' = coreCrashes + 1
  /\ UNCHANGED <<db, down, cut, room, nextConn, breaks, agentCrashes>>

-----------------------------------------------------------------------------
CoreStep ==
  \E k \in Conns : \/ Register(k) \/ Snapshot(k) \/ ReplayEnds(k)
                   \/ \E c \in Cmds : Replay(k, c)
                   \/ Write(k) \/ SendDone(k) \/ SendFailed(k)
                   \/ Receive(k) \/ Notify(k)
                   \/ CoreNotices(k) \/ OtherSendFails(k) \/ HandlerExits(k)

AgentStep ==
  \/ \E k \in Conns : AgentConnects(k)
  \/ AnswerFromJournal
  \/ \E r \in Results : Execute(r)
  \/ Record \/ SendResult \/ AgentNotices

Environment ==
  \/ \E c \in Cmds : Create(c) \/ Lapse(c)
  \/ ReadCommands
  \/ \E k \in Conns : LinkBreaks(k)
  \/ AgentCrashes \/ CoreCrashes

Next == CoreStep \/ AgentStep \/ Environment

Spec == Init /\ [][Next]_vars

\* The event loop runs every ready task and the agent's thread keeps looping
\* and reconnecting; nothing obliges a client to act or a failure to happen.
Fairness ==
  /\ \A k \in Conns :
       /\ WF_vars(Register(k) \/ Snapshot(k) \/ ReplayEnds(k) \/ \E c \in Cmds : Replay(k, c))
       /\ WF_vars(Write(k) \/ SendDone(k) \/ SendFailed(k))
       /\ WF_vars(Receive(k) \/ Notify(k) \/ HandlerExits(k))
       /\ WF_vars(CoreNotices(k))
  /\ WF_vars(AgentStep)

FairSpec == Spec /\ Fairness

-----------------------------------------------------------------------------
(* Properties.                                                             *)

\* A command runs again only when the agent died between running it and
\* recording its result: replays, duplicates and reconnects never rerun one.
\* This is the idempotence CommandJournal exists for.
ExecutionBound == \A c \in Cmds : execs[c] <= 1 + agentCrashes

\* The journal is kept so that a command already executed is not replayed.
ExecutedIsNotReplayed == \A c \in Cmds : execs[c] <= 1

\* The result Core reports for a command is the one the endpoint's journal
\* holds for it: never the result of another run, nor one without a run.
ReportedIsRecorded ==
  \A c \in Cmds : status[c] \in Outcomes => execs[c] > 0 /\ journal[c] = status[c]

\* While Core believes a registered socket open, it is the one that
\* DeviceHub.send finds: the late exit of a handler whose connection was
\* replaced never unregisters its successor.
SessionReachable ==
  \A k \in Conns :
    /\ handler[k] \in {"registered", "replay", "sending", "receive", "notify"}
    /\ k \in coreOpen
    => hub = k

Elements(s) == {s[i] : i \in DOMAIN s}

OnTheWay(k) ==
  todo[k] \cup {e.cmd : e \in Elements(line[k])} \cup Elements(down[k])
          \cup {current} \cup {m.cmd : m \in Elements(up[k])}

\* Over a working session every pending command within its lifetime is on its
\* way: about to be replayed, being sent, at the agent, or coming back as a
\* result.  One that were not would stay pending until the next reconnect.
NoCommandStranded ==
  \A k \in Conns :
    /\ handler[k] \in {"replay", "sending", "receive", "notify"}
    /\ k \in coreOpen /\ k \notin cut /\ session = k
    => \A c \in Cmds : Expired[c] \in Pending => c \in OnTheWay(k)

\* complete_command and mark_command_delivered leave a terminal row alone,
\* although a result can overtake the marking and results are repeated.
TerminalIsStable ==
  [][\A c \in Cmds : status[c] \in Terminal => status'[c] = status[c]]_vars

\* A result that reaches Core after the command's lifetime is refused, also
\* when nothing has looked at the command since.
LateResultRefused ==
  [][\A c \in Cmds : status[c] \in Pending /\ c \in lapsed
                       => status'[c] \notin Outcomes]_vars

\* A command still within its lifetime is eventually completed, whatever
\* connections, agent and Core go through: replay makes up for lost messages.
EventuallyCompleted ==
  \A c \in Cmds : status[c] \in Pending ~> (status[c] \in Outcomes \/ c \in lapsed)

\* A completion enters the client event log unless Core dies in between.
EventuallyAnnounced ==
  \A c \in Cmds : status[c] \in Outcomes ~> (c \in announced \/ coreCrashes > 0)

\* The transport implements its contract: the journal decides, Core reports.
Reported == [c \in Cmds |-> IF status[c] \in Pending THEN "pending" ELSE status[c]]

Contract == INSTANCE CommandContract
              WITH report <- Reported, decided <- journal, late <- lapsed
ContractSpec == Contract!Spec
=============================================================================
