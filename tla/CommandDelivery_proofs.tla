----------------------- MODULE CommandDelivery_proofs -----------------------
(***************************************************************************)
(* Proofs about CommandTransport: a session that works is the one that is  *)
(* sent to, and no command is stranded, for every number of commands,       *)
(* connections and failures and every capacity of the journal.              *)
(***************************************************************************)
EXTENDS CommandTransport_proofs

-----------------------------------------------------------------------------
(* Which handlers there are, and what waits for them.                      *)

\* Connections are used in the order of their numbers.
InOrder == \A k \in Conns : k >= nextConn => handler[k] = "unused"

\* A handler that has exited has no open socket.
Closed == \A k \in Conns : handler[k] = "done" => k \notin coreOpen

\* Only a handler that has registered is sent to.
SentTo ==
  \A k \in Conns : hub = k \/ line[k] # <<>> => handler[k] \notin {"unused", "accepted"}

\* Only a handler that has a snapshot sends.
Sends ==
  \A k \in Conns : \A e \in Elements(line[k]) :
    e.by # Http => handler[e.by] \notin {"unused", "accepted", "registered"}

Placed == SessionReachable /\ InOrder /\ Closed /\ SentTo /\ Sends

LEMMA PlacedInit == Init => Placed
  BY DEF Init, Placed, SessionReachable, InOrder, Closed, SentTo, Sends, Elements,
     NoConn, Conns

\* Steps after which every handler stands where it stood, and queues and sockets
\* have not grown.
LEMMA StillPlaced ==
  ASSUME Placed, UNCHANGED <<hub, handler, nextConn>>, coreOpen' \subseteq coreOpen,
         \A k \in Conns : Elements(line'[k]) \subseteq Elements(line[k])
                         /\ (line'[k] # <<>> => line[k] # <<>>)
  PROVE  Placed'
  BY DEF Placed, SessionReachable, InOrder, Closed, SentTo, Sends

\* The head of a line is one of its entries, and the others make up its tail.
LEMMA Lines ==
  ASSUME TypeOK, NEW k \in Conns
  PROVE  /\ line[k] \in Seq(Entry)
         /\ \A e \in Entry : Elements(Append(line[k], e)) = Elements(line[k]) \cup {e}
         /\ \A e \in Entry : Append(line[k], e) # <<>>
         /\ line[k] # <<>> => /\ Head(line[k]) \in Elements(line[k]) /\ Head(line[k]) \in Entry
                              /\ Elements(Tail(line[k])) \subseteq Elements(line[k])
<1>1. line \in [Conns -> Seq(Entry)]
  BY DEF TypeOK, Entry
<1> QED
  BY <1>1, QueueOps, QueueElements

\* Who waits in a line is a handler or an HTTP request.
LEMMA Senders ==
  ASSUME TypeOK
  PROVE  \A j \in Conns : \A e \in Elements(line[j]) :
           e.by # Http => e.by \in Conns
<1> SUFFICES ASSUME NEW j \in Conns, NEW e \in Elements(line[j]), e.by # Http
             PROVE e.by \in Conns
  OBVIOUS
<1>1. line[j] \in Seq(Entry)
  BY Lines
<1>2. e \in Entry
  BY <1>1 DEF Elements
<1> QED
  BY <1>2 DEF Entry

\* A send that has ended: its sender, if it is a handler, has a snapshot.
LEMMA SenderPlaced ==
  ASSUME Typed, Placed, NEW k \in Conns, line[k] # <<>>, SenderResumes(Head(line[k]).by),
         line' = [line EXCEPT ![k] = Tail(@)], UNCHANGED <<coreOpen, nextConn>>,
         hub' = hub \/ (k \notin coreOpen /\ hub' = Dropped(k))
  PROVE  Placed'
<1> DEFINE by == Head(line[k]).by
<1>1. TypeOK /\ Head(line[k]) \in Elements(line[k]) /\ by \in Conns \cup {Http}
  BY Lines DEF Typed, Entry
<1>2. by # Http => by \in Conns /\ handler[by] \notin {"unused", "accepted", "registered"}
  BY <1>1 DEF Placed, Sends
<1>3. handler' = IF by = Http THEN handler ELSE [handler EXCEPT ![by] = "replay"]
  BY DEF SenderResumes
<1>4. \A j \in Conns : Elements(line'[j]) \subseteq Elements(line[j])
                      /\ (line'[j] # <<>> => line[j] # <<>>)
  BY <1>1, Lines DEF TypeOK
<1> HIDE DEF by
<1>5. \A j \in Conns : \/ handler'[j] = handler[j]
                      \/ /\ handler'[j] = "replay"
                         /\ handler[j] \notin {"unused", "accepted", "registered"}
  BY <1>1, <1>2, <1>3 DEF TypeOK
<1>6. \A j \in Conns : handler'[j] \in {"unused", "accepted", "registered", "done"}
                        => handler'[j] = handler[j]
  BY <1>5
<1>7. SessionReachable'
  <2> SUFFICES ASSUME NEW j \in Conns, j \in coreOpen,
                      handler'[j] \in {"registered", "replay", "sending", "receive", "notify"}
               PROVE  hub' = j
    BY DEF SessionReachable
  <2>1. handler[j] \in {"registered", "replay", "sending", "receive", "notify"}
    BY <1>1, <1>5 DEF Placed, Closed, TypeOK, HandlerStates
  <2>2. hub = j
    BY <2>1 DEF Placed, SessionReachable
  <2> QED
    BY <2>2 DEF Dropped
<1>8. \A j \in Conns : hub' = j => hub = j
  BY DEF Dropped, Conns, NoConn
<1>9. InOrder' /\ Closed'
  BY <1>5 DEF Placed, InOrder, Closed
<1>10. SentTo'
  BY <1>4, <1>6, <1>8 DEF Placed, SentTo
<1>11. Sends'
  BY <1>1, <1>4, <1>6, Senders DEF Placed, Sends
<1> QED
  BY <1>7, <1>9, <1>10, <1>11 DEF Placed

LEMMA PlacedCore == Typed /\ Placed /\ CoreStep => Placed'
<1> SUFFICES ASSUME Typed, Placed, CoreStep PROVE Placed'
  OBVIOUS
<1>a. TypeOK /\ nextConn' = nextConn
  BY DEF Typed, CoreStep, Register, Snapshot, ReplayEnds, Replay, Write, SendDone,
     SendFailed,
     Receive, Notify, CoreNotices, OtherSendFails, HandlerExits, budgets
<1>b. PICK k \in Conns : \/ Register(k) \/ Snapshot(k) \/ ReplayEnds(k)
                         \/ \E c \in Cmds : Replay(k, c)
                         \/ Write(k) \/ SendDone(k) \/ SendFailed(k)
                         \/ Receive(k) \/ Notify(k)
                         \/ CoreNotices(k) \/ OtherSendFails(k) \/ HandlerExits(k)
  BY DEF CoreStep
\* Steps of a handler that keep what else there is.
<1>c. ASSUME UNCHANGED <<hub, line, coreOpen>>,
             handler[k] \in {"registered", "replay", "receive", "notify"},
             NEW h \in {"replay", "receive", "notify"}, handler' = [handler EXCEPT ![k] = h]
      PROVE  Placed'
  <2>1. \A j \in Conns : handler'[j] = IF j = k THEN h ELSE handler[j]
    BY <1>a, <1>c DEF TypeOK
  <2>2. \A j \in Conns : \A e \in Elements(line[j]) : e.by # Http => e.by \in Conns
    BY <1>a, Senders
  <2> QED
    BY <1>a, <1>c, <2>1, <2>2 DEF Placed, SessionReachable, InOrder, Closed, SentTo, Sends
<1>1. CASE Register(k)
  <2>1. /\ handler[k] = "accepted" /\ hub' = k /\ coreOpen' = coreOpen \ {hub}
        /\ handler' = [handler EXCEPT ![k] = "registered"] /\ line' = line
    BY <1>1 DEF Register
  <2>2. \A j \in Conns : handler'[j] = IF j = k THEN "registered" ELSE handler[j]
    BY <1>a, <2>1 DEF TypeOK
  <2>3. \A j \in Conns : \A e \in Elements(line[j]) : e.by # Http => e.by \in Conns /\ e.by # k
    BY <1>a, <2>1, Senders DEF Placed, Sends
  <2> QED
    BY <1>a, <2>1, <2>2, <2>3 DEF Placed, SessionReachable, InOrder, Closed, SentTo, Sends
<1>2. CASE Snapshot(k)
  BY <1>2, <1>c DEF Snapshot
<1>3. CASE ReplayEnds(k)
  BY <1>3, <1>c DEF ReplayEnds
<1>4. CASE \E c \in Cmds : Replay(k, c)
  <2>1. PICK c \in Cmds : Replay(k, c)
    BY <1>4
  <2>2. handler[k] = "replay" /\ UNCHANGED <<hub, coreOpen>>
    BY <2>1 DEF Replay
  <2>3. CASE hub = NoConn
    BY <1>a, <2>1, <2>2, <2>3, StillPlaced DEF Replay
  <2>4. CASE hub # NoConn
    <3> DEFINE e == [by |-> k, cmd |-> c]
    <3>1. hub \in Conns /\ e \in Entry
      BY <1>a, <2>4 DEF TypeOK, Entry
    <3>2. line' = [line EXCEPT ![hub] = Append(@, e)]
            /\ handler' = [handler EXCEPT ![k] = "sending"]
      BY <2>1, <2>4 DEF Replay, Enqueue
    <3>3. e.by = k
      OBVIOUS
    <3> HIDE DEF e
    <3>4. \A j \in Conns : Elements(line'[j]) \subseteq Elements(line[j]) \cup {e}
                          /\ (line'[j] # <<>> => line[j] # <<>> \/ hub = j)
      BY <1>a, <3>1, <3>2, Lines DEF TypeOK
    <3>5. \A j \in Conns : handler'[j] = IF j = k THEN "sending" ELSE handler[j]
      BY <1>a, <3>2 DEF TypeOK
    <3>6. \A j \in Conns : \A f \in Elements(line[j]) : f.by # Http => f.by \in Conns
      BY <1>a, Senders
    <3>7. SessionReachable'
      BY <2>2, <3>5 DEF Placed, SessionReachable
    <3>8. Sends'
      BY <3>3, <3>4, <3>5, <3>6 DEF Placed, Sends
    <3>9. InOrder' /\ Closed' /\ SentTo'
      BY <1>a, <2>2, <3>4, <3>5 DEF Placed, InOrder, Closed, SentTo
    <3> QED
      BY <3>7, <3>8, <3>9 DEF Placed
  <2> QED
    BY <2>3, <2>4
<1>5. CASE Write(k) \/ CoreNotices(k)
  BY <1>a, <1>5, StillPlaced DEF Write, CoreNotices
<1>6. CASE SendDone(k)
  BY <1>a, <1>6, SenderPlaced DEF SendDone, Typed, Shape
<1>7. CASE SendFailed(k)
  BY <1>a, <1>7, SenderPlaced DEF SendFailed
<1>8. CASE Receive(k)
  BY <1>8, <1>a, <1>c, StillPlaced DEF Receive
<1>9. CASE Notify(k)
  BY <1>9, <1>c DEF Notify
<1>10. CASE OtherSendFails(k)
  BY <1>a, <1>10 DEF OtherSendFails, Placed, SessionReachable, InOrder, Closed,
     SentTo, Sends, NoConn, Conns
<1>11. CASE HandlerExits(k)
  <2>1. /\ handler[k] = "receive" /\ k \notin coreOpen /\ hub' = Dropped(k)
        /\ handler' = [handler EXCEPT ![k] = "done"] /\ UNCHANGED <<line, coreOpen>>
    BY <1>11 DEF HandlerExits
  <2>2. \A j \in Conns : handler'[j] = IF j = k THEN "done" ELSE handler[j]
    BY <1>a, <2>1 DEF TypeOK
  <2>3. \A j \in Conns : \A e \in Elements(line[j]) : e.by # Http => e.by \in Conns
    BY <1>a, Senders
  <2>4. \A j \in Conns : hub' = j => hub = j
    BY <2>1 DEF Dropped, Conns, NoConn
  <2>5. SessionReachable'
    BY <2>1, <2>2 DEF Placed, SessionReachable, Dropped
  <2> QED
    BY <1>a, <2>1, <2>2, <2>3, <2>4, <2>5 DEF Placed, InOrder, Closed, SentTo, Sends
<1> QED
  BY <1>b, <1>1, <1>2, <1>3, <1>4, <1>5, <1>6, <1>7, <1>8, <1>9, <1>10, <1>11

LEMMA PlacedOthers == Typed /\ Placed /\ (AgentStep \/ Environment) => Placed'
<1> SUFFICES ASSUME Typed, Placed, AgentStep \/ Environment PROVE Placed'
  OBVIOUS
<1>a. TypeOK
  BY DEF Typed
<1>b. \A j \in Conns : \A e \in Elements(line[j]) : e.by # Http => e.by \in Conns
  BY <1>a, Senders
<1>1. ASSUME NEW k \in Conns, AgentConnects(k) PROVE Placed'
  <2>1. /\ k = nextConn /\ nextConn' = nextConn + 1 /\ UNCHANGED <<hub, line>>
        /\ handler' = [handler EXCEPT ![k] = "accepted"] /\ coreOpen' = coreOpen \cup {k}
    BY <1>1 DEF AgentConnects
  <2>2. handler[k] = "unused"
    BY <2>1, BoundsAssumption DEF Placed, InOrder, Conns
  <2>3. \A j \in Conns : handler'[j] = IF j = k THEN "accepted" ELSE handler[j]
    BY <1>a, <2>1 DEF TypeOK
  <2>4. \A j \in Conns : j >= nextConn' => j # k /\ j >= nextConn
    BY <1>a, <2>1, BoundsAssumption DEF TypeOK, Conns
  <2>5. hub # k /\ line[k] = <<>>
    BY <2>2 DEF Placed, SentTo
  <2>6. \A j \in Conns : \A e \in Elements(line[j]) : e.by # Http => e.by # k
    BY <2>2 DEF Placed, Sends
  <2> QED
    BY <1>b, <2>1, <2>2, <2>3, <2>4, <2>5, <2>6 DEF Placed, SessionReachable,
       InOrder, Closed, SentTo, Sends
<1>2. ASSUME NEW c \in Cmds, Create(c) PROVE Placed'
  <2>1. UNCHANGED <<hub, handler, coreOpen, nextConn>>
    BY <1>2 DEF Create, budgets
  <2>2. CASE hub = NoConn
    BY <1>2, <2>1, <2>2, StillPlaced DEF Create
  <2>3. CASE hub # NoConn
    <3> DEFINE e == [by |-> Http, cmd |-> c]
    <3>1. hub \in Conns /\ e \in Entry /\ e.by = Http
      BY <1>a, <2>3 DEF TypeOK, Entry
    <3>2. line' = [line EXCEPT ![hub] = Append(@, e)]
      BY <1>2, <2>3 DEF Create, Enqueue
    <3> HIDE DEF e
    <3>3. \A j \in Conns : Elements(line'[j]) \subseteq Elements(line[j]) \cup {e}
                          /\ (line'[j] # <<>> => line[j] # <<>> \/ hub = j)
      BY <1>a, <3>1, <3>2, Lines DEF TypeOK
    <3> QED
      BY <2>1, <3>1, <3>3 DEF Placed, SessionReachable, InOrder, Closed, SentTo, Sends
  <2> QED
    BY <2>2, <2>3
<1>3. CASE CoreCrashes
  BY <1>a, <1>3 DEF CoreCrashes, Placed, SessionReachable, InOrder, Closed, SentTo,
     Sends, Elements, NoConn, Conns, TypeOK
<1>4. CASE \/ AnswerFromJournal \/ (\E r \in Results : Execute(r)) \/ Record \/ SendResult
           \/ AgentNotices \/ (\E c \in Cmds : Lapse(c)) \/ ReadCommands
           \/ (\E k \in Conns : LinkBreaks(k)) \/ AgentCrashes
  <2>1. UNCHANGED <<hub, handler, nextConn, coreOpen, line>>
    BY <1>4 DEF AnswerFromJournal, Execute, Record, SendResult, AgentNotices, Lapse,
       ReadCommands, LinkBreaks, AgentCrashes, hubs, budgets
  <2> QED
    BY <2>1, StillPlaced
<1> QED
  BY <1>1, <1>2, <1>3, <1>4 DEF AgentStep, Environment

LEMMA PlacedStep == Typed /\ Placed /\ [Next]_vars => Placed'
<1>1. Placed /\ UNCHANGED vars => Placed'
  BY DEF Placed, SessionReachable, InOrder, Closed, SentTo, Sends, vars, hubs, budgets
<1> QED
  BY <1>1, PlacedCore, PlacedOthers DEF Next

\* While Core believes the socket of a registered handler open, it is the one
\* that is sent to, however the handlers of replaced connections end
\* (api.py DeviceHub.connect, disconnect).
THEOREM SessionsAreReachable == Spec => []SessionReachable
<1>1. Placed => SessionReachable
  BY DEF Placed
<1> QED
  BY <1>1, TypedInit, TypedStep, PlacedInit, PlacedStep, PTL DEF Spec

-----------------------------------------------------------------------------
(* Where pending commands are.                                             *)

\* A session that works in both directions, and one whose snapshot was taken.
Live(k) == k \in coreOpen /\ k \notin cut /\ session = k
Replaying(k) == handler[k] \in {"replay", "sending", "receive", "notify"}

\* Beyond Core's socket: at the agent, or under way to or from it.
Reached(k) == Elements(down[k]) \cup {current} \cup {m.cmd : m \in Elements(up[k])}

Track(k) ==
  Live(k) =>
    /\ Replaying(k) => PendingCommands \subseteq OnTheWay(k)
    /\ k \in written /\ Head(line[k]).cmd \in PendingCommands
         => Head(line[k]).cmd \in Reached(k)

Tracked ==
  /\ agent \notin {"executed", "recorded"} => current = NoCmd
  /\ \A k \in Conns : Track(k)

LEMMA TrackedInit == Init => Tracked
  BY DEF Init, Tracked, Track, Live

\* Nothing but its creation makes a command pending.
LEMMA PendingShrinks ==
  ASSUME Typed
  PROVE  /\ PendingCommands = {c \in Cmds : status[c] \in Pending /\ c \notin lapsed}
         /\ lapsed \subseteq lapsed' /\ lapsed' \subseteq Cmds =>
              /\ status' = status \/ status' = Expired
                   => PendingCommands' \subseteq PendingCommands
              /\ \A c \in Cmds : status' = Delivered(c)
                   => PendingCommands' \subseteq PendingCommands
              /\ \A c \in Cmds, r \in Outcomes : status' = Completed(c, r) =>
                   PendingCommands' \subseteq PendingCommands \ {c}
              /\ \A c \in Cmds : status' = [Expired EXCEPT ![c] = "queued"] =>
                   PendingCommands' \subseteq PendingCommands \cup {c}
<1>1. status \in [Cmds -> Statuses]
  BY DEF Typed, TypeOK
<1>2. PendingCommands = {c \in Cmds : status[c] \in Pending /\ c \notin lapsed}
  BY <1>1 DEF PendingCommands, Expired, Pending
<1>3. PendingCommands' = {c \in Cmds : status'[c] \in Pending /\ c \notin lapsed'}
  BY DEF PendingCommands, Expired, Pending
<1>4. ASSUME lapsed \subseteq lapsed', status' = status \/ status' = Expired
      PROVE  PendingCommands' \subseteq PendingCommands
  BY <1>2, <1>3, <1>4 DEF Expired, Pending
<1>5. ASSUME lapsed \subseteq lapsed', NEW c \in Cmds, status' = Delivered(c)
      PROVE  PendingCommands' \subseteq PendingCommands
  BY <1>1, <1>2, <1>3, <1>5 DEF Expired, Delivered, Pending
<1>6. ASSUME lapsed \subseteq lapsed', NEW c \in Cmds, NEW r \in Outcomes,
             status' = Completed(c, r)
      PROVE  PendingCommands' \subseteq PendingCommands \ {c}
  BY <1>1, <1>2, <1>3, <1>6 DEF Expired, Completed, Pending, Outcomes, Statuses, None
<1>7. ASSUME lapsed \subseteq lapsed', NEW c \in Cmds, status' = [Expired EXCEPT ![c] = "queued"]
      PROVE  PendingCommands' \subseteq PendingCommands \cup {c}
  BY <1>1, <1>2, <1>3, <1>7 DEF Expired, Pending
<1> QED
  BY <1>2, <1>4, <1>5, <1>6, <1>7

\* A step that adds no pending command, takes none out of a live session's
\* queues, and makes no session live, or a handler past its snapshot.
LEMMA StillTracked ==
  ASSUME Typed, NEW k \in Conns, Track(k), PendingCommands' \subseteq PendingCommands,
         Live(k)' => /\ Live(k)
                     /\ Replaying(k)' => Replaying(k)
                     /\ Replaying(k) => OnTheWay(k) \cap PendingCommands' \subseteq OnTheWay(k)'
                     /\ Reached(k) \cap PendingCommands' \subseteq Reached(k)'
                     /\ k \in written' => k \in written /\ Head(line'[k]) = Head(line[k])
  PROVE  Track(k)'
<1> SUFFICES ASSUME Live(k)'
             PROVE  /\ Replaying(k)' => PendingCommands' \subseteq OnTheWay(k)'
                    /\ k \in written' /\ Head(line'[k]).cmd \in PendingCommands'
                         => Head(line'[k]).cmd \in Reached(k)'
  BY DEF Track
<1>1. Replaying(k)' => PendingCommands' \subseteq OnTheWay(k)'
  BY DEF Track
<1>2. k \in written' /\ Head(line'[k]).cmd \in PendingCommands'
        => Head(line'[k]).cmd \in Reached(k)'
  BY DEF Track
<1> QED
  BY <1>1, <1>2

\* What is in a queue is its head or in its tail, and appending keeps the head.
LEMMA HeadOrTail ==
  ASSUME NEW S, NEW s \in Seq(S), s # <<>>
  PROVE  /\ Elements(s) \subseteq {Head(s)} \cup Elements(Tail(s))
         /\ \A e \in S : Head(Append(s, e)) = Head(s)
<1>1. \A e \in S : Head(Append(s, e)) = Head(s)
  OBVIOUS
<1>2. Elements(s) \subseteq {Head(s)} \cup Elements(Tail(s))
  <2> DEFINE t == Tail(s)
  <2>1. /\ DOMAIN s = 1..Len(s) /\ Len(s) \in Nat \ {0} /\ Head(s) = s[1]
        /\ DOMAIN t = 1..(Len(s) - 1)
        /\ \A i \in 1..(Len(s) - 1) : t[i] = s[i + 1]
    OBVIOUS
  <2> HIDE DEF t
  <2>2. ASSUME NEW i \in 1..Len(s), i # 1 PROVE s[i] \in Elements(t)
    <3>1. i - 1 \in 1..(Len(s) - 1) /\ i = (i - 1) + 1
      BY <2>1, <2>2
    <3>2. t[i - 1] = s[i]
      BY <2>1, <3>1
    <3> QED
      BY <2>1, <3>1, <3>2 DEF Elements
  <2>3. Elements(s) \subseteq {Head(s)} \cup Elements(t)
    BY <2>1, <2>2 DEF Elements
  <2> QED
    BY <2>3 DEF t
<1> QED
  BY <1>1, <1>2

LEMMA TrackedCore == Typed /\ Placed /\ Tracked /\ CoreStep => Tracked'
<1> SUFFICES ASSUME Typed, Placed, Tracked, CoreStep PROVE Tracked'
  OBVIOUS
<1>a. TypeOK /\ \A j \in Conns : j \in written => line[j] # <<>>
  BY DEF Typed, Shape
<1>b. PICK k \in Conns : \/ Register(k) \/ Snapshot(k) \/ ReplayEnds(k)
                         \/ \E c \in Cmds : Replay(k, c)
                         \/ Write(k) \/ SendDone(k) \/ SendFailed(k)
                         \/ Receive(k) \/ Notify(k)
                         \/ CoreNotices(k) \/ OtherSendFails(k) \/ HandlerExits(k)
  BY DEF CoreStep
<1>c. UNCHANGED <<lapsed, agent, current, session, cut>> /\ coreOpen' \subseteq coreOpen
  BY <1>b DEF Register, Snapshot, ReplayEnds, Replay, Write, SendDone, SendFailed,
     Receive, Notify, CoreNotices, OtherSendFails, HandlerExits, db, net, room
<1>d. \A j \in Conns : Live(j)' => Live(j)
  BY <1>c DEF Live
<1>e. /\ \A j \in Conns : OnTheWay(j) = todo[j] \cup Sending(j) \cup Reached(j)
      /\ \A j \in Conns : OnTheWay(j)' = todo'[j] \cup Sending(j)' \cup Reached(j)'
  BY DEF OnTheWay, Sending, Reached
<1>f. lapsed \subseteq Cmds /\ lapsed' \subseteq Cmds /\ lapsed \subseteq lapsed'
  BY <1>a, <1>c DEF TypeOK
<1> SUFFICES \A j \in Conns : Track(j)'
  BY <1>c DEF Tracked
\* What becomes of a session none of whose queues the step touches.
<1>g. ASSUME NEW j \in Conns, PendingCommands' \subseteq PendingCommands,
             UNCHANGED <<todo[j], line[j], down[j], up[j]>>, Replaying(j)' => Replaying(j),
             j \in written' => j \in written
      PROVE  Track(j)'
  <2>1. Sending(j)' = Sending(j) /\ Reached(j)' = Reached(j)
    BY <1>c, <1>g DEF Sending, Reached
  <2> QED
    BY <1>d, <1>e, <1>g, <2>1, StillTracked DEF Tracked
<1>1. CASE Register(k) \/ ReplayEnds(k) \/ Notify(k) \/ CoreNotices(k) \/ OtherSendFails(k)
  <2>1. UNCHANGED <<status, lapsed, todo, line, down, up, written>>
    BY <1>1 DEF Register, ReplayEnds, Notify, CoreNotices, OtherSendFails, db, net
  <2>2. PendingCommands' \subseteq PendingCommands
    BY <1>f, <2>1, PendingShrinks
  <2>3. \A j \in Conns : Replaying(j)' => Replaying(j)
    BY <1>1, <1>a DEF Register, ReplayEnds, Notify, CoreNotices, OtherSendFails,
       Replaying, TypeOK
  <2> QED
    BY <1>g, <2>1, <2>2, <2>3
<1>2. CASE Snapshot(k)
  <2>1. /\ status' = Expired /\ todo' = [todo EXCEPT ![k] = PendingCommands]
        /\ handler' = [handler EXCEPT ![k] = "replay"] /\ UNCHANGED <<line, written, down, up>>
    BY <1>2 DEF Snapshot, net
  <2>2. PendingCommands' \subseteq PendingCommands
    BY <1>f, <2>1, PendingShrinks
  <2>3. ASSUME NEW j \in Conns, j # k PROVE Track(j)'
    BY <1>a, <1>g, <2>1, <2>2, <2>3 DEF Replaying, TypeOK
  <2>4. Track(k)'
    <3>1. todo'[k] = PendingCommands /\ Reached(k)' = Reached(k)
      BY <1>a, <1>c, <2>1 DEF TypeOK, Reached
    <3>2. PendingCommands' \subseteq OnTheWay(k)'
      BY <1>e, <2>2, <3>1
    <3>3. Live(k) /\ k \in written /\ Head(line[k]).cmd \in PendingCommands
            => Head(line[k]).cmd \in Reached(k)
      BY DEF Tracked, Track
    <3> QED
      BY <1>d, <2>1, <2>2, <3>1, <3>2, <3>3 DEF Track
  <2> QED
    BY <2>3, <2>4
<1>3. ASSUME NEW c \in Cmds, Replay(k, c) PROVE \A j \in Conns : Track(j)'
  <2>1. /\ handler[k] = "replay" /\ todo' = [todo EXCEPT ![k] = @ \ {c}]
        /\ UNCHANGED <<status, lapsed, written, down, up>>
    BY <1>3 DEF Replay, db, net
  <2>2. PendingCommands' \subseteq PendingCommands
    BY <1>f, <2>1, PendingShrinks
  <2>3. \A j \in Conns : Replaying(j)' => Replaying(j)
    BY <1>3, <1>a DEF Replay, Replaying, TypeOK
  <2>4. Live(k) => hub = k
    BY <2>1 DEF Live, Placed, SessionReachable
  <2>5. \A j \in Conns \ {k} : todo'[j] = todo[j]
    BY <1>a, <2>1 DEF TypeOK
  <2>6. CASE hub = NoConn
    <3>1. line' = line
      BY <1>3, <2>6 DEF Replay
    <3>2. ~Live(k)'
      BY <1>d, <2>4, <2>6 DEF NoConn, Conns
    <3>3. Track(k)'
      BY <3>2 DEF Track
    <3>4. ASSUME NEW j \in Conns \ {k} PROVE Track(j)'
      BY <1>g, <2>1, <2>2, <2>3, <2>5, <3>1
    <3> QED
      BY <3>3, <3>4
  <2>7. CASE hub # NoConn
    <3> DEFINE e == [by |-> k, cmd |-> c]
    <3>1. hub \in Conns /\ e \in Entry /\ e.cmd = c
      BY <1>a, <2>7 DEF TypeOK, Entry
    <3>2. line' = [line EXCEPT ![hub] = Append(@, e)]
      BY <1>3, <2>7 DEF Replay, Enqueue
    <3> HIDE DEF e
    <3>3. \A j \in Conns : line'[j] = IF j = hub THEN Append(line[j], e) ELSE line[j]
      BY <1>a, <3>1, <3>2 DEF TypeOK
    <3>4. \A j \in Conns : Sending(j)' = IF j = hub THEN Sending(j) \cup {c} ELSE Sending(j)
      <4> SUFFICES ASSUME NEW j \in Conns
                   PROVE  Sending(j)' = IF j = hub THEN Sending(j) \cup {c} ELSE Sending(j)
        OBVIOUS
      <4>1. CASE j = hub
        <5>1. Elements(line'[j]) = Elements(line[j]) \cup {e}
          BY <1>a, <3>1, <3>3, <4>1, Lines
        <5> QED
          BY <3>1, <4>1, <5>1 DEF Sending
      <4>2. CASE j # hub
        BY <3>3, <4>2 DEF Sending
      <4> QED
        BY <4>1, <4>2
    <3>5. ASSUME NEW j \in Conns, j \in written PROVE Head(line'[j]) = Head(line[j])
      <4>1. line[j] \in Seq(Entry) /\ line[j] # <<>>
        BY <1>a, <3>5, Lines
      <4>2. Head(Append(line[j], e)) = Head(line[j])
        BY <3>1, <4>1, HeadOrTail
      <4> QED
        BY <3>3, <4>2
    <3>6. \A j \in Conns : Reached(j)' = Reached(j)
      BY <1>c, <2>1 DEF Reached
    <3>7. ASSUME NEW j \in Conns, Live(j)' PROVE OnTheWay(j) \subseteq OnTheWay(j)'
      <4>1. todo[j] \subseteq todo'[j] \cup (IF j = k THEN {c} ELSE {})
        BY <1>a, <2>1, <2>5 DEF TypeOK
      <4>2. j = k => hub = j
        BY <1>d, <2>4, <3>7
      <4> QED
        BY <1>e, <3>4, <3>6, <4>1, <4>2
    <3> QED
      BY <1>d, <2>1, <2>2, <2>3, <3>5, <3>6, <3>7, StillTracked DEF Tracked
  <2> QED
    BY <2>6, <2>7
<1>4. CASE Write(k)
  <2> DEFINE h == Head(line[k]).cmd
  <2>1. /\ written' = written \cup {k} /\ UNCHANGED <<status, lapsed, handler, todo, line, up>>
        /\ down' = IF k \in cut THEN down ELSE [down EXCEPT ![k] = Append(@, h)]
        /\ line[k] # <<>>
    BY <1>4 DEF Write, db
  <2>2. PendingCommands' \subseteq PendingCommands
    BY <1>f, <2>1, PendingShrinks
  <2>3. h \in Cmds /\ down \in [Conns -> Seq(Cmds)]
    BY <1>a, <2>1, Lines DEF Entry, TypeOK
  <2> HIDE DEF h
  <2>4. ASSUME NEW j \in Conns, j # k PROVE Track(j)'
    BY <1>g, <2>1, <2>2, <2>3, <2>4 DEF Replaying
  <2>5. Live(k)' => Reached(k)' = Reached(k) \cup {h}
    <3>1. Live(k)' => down'[k] = Append(down[k], h)
      BY <1>c, <2>1, <2>3 DEF Live
    <3>2. Elements(Append(down[k], h)) = Elements(down[k]) \cup {h}
      BY <2>3, QueueElements
    <3> QED
      BY <1>c, <2>1, <3>1, <3>2 DEF Reached
  <2>6. Sending(k)' = Sending(k)
    BY <2>1 DEF Sending
  <2>7. Live(k)' /\ Replaying(k)' => PendingCommands' \subseteq OnTheWay(k)'
    BY <1>d, <1>e, <2>1, <2>2, <2>5, <2>6 DEF Tracked, Track, Replaying
  <2>8. Head(line'[k]).cmd = h
    BY <2>1 DEF h
  <2>9. Track(k)'
    BY <2>5, <2>7, <2>8 DEF Track
  <2> QED
    BY <2>4, <2>9
<1>5. CASE SendDone(k) \/ SendFailed(k)
  <2> DEFINE h == Head(line[k])
  <2>1. /\ line[k] # <<>> /\ SenderResumes(h.by) /\ line' = [line EXCEPT ![k] = Tail(@)]
        /\ written' = written \ {k} /\ UNCHANGED <<todo, down, up>>
        /\ status' = Delivered(h.cmd) \/ status' = status
        /\ k \in written \/ k \notin coreOpen
    BY <1>5, <1>a DEF SendDone, SendFailed, db, net
  <2>2. h \in Elements(line[k]) /\ h \in Entry /\ h.cmd \in Cmds /\ line[k] \in Seq(Entry)
    BY <1>a, <2>1, Lines DEF Entry
  <2>3. PendingCommands' \subseteq PendingCommands
    BY <1>f, <2>1, <2>2, PendingShrinks
  <2>4. h.by # Http => h.by \in Conns
                        /\ handler[h.by] \notin {"unused", "accepted", "registered"}
    BY <2>2 DEF Entry, Placed, Sends
  <2> HIDE DEF h
  <2>5. \A j \in Conns : handler'[j] = handler[j]
                        \/ handler[j] \notin {"unused", "accepted", "registered"}
    BY <1>a, <2>1, <2>4 DEF SenderResumes, TypeOK
  <2>6. \A j \in Conns : Live(j) /\ Replaying(j)' => Replaying(j)
    BY <1>a, <2>5 DEF Live, Replaying, Placed, Closed, TypeOK, HandlerStates
  <2>7. ASSUME NEW j \in Conns, j # k PROVE Track(j)'
    <3>1. line'[j] = line[j]
      BY <1>a, <2>1, <2>7 DEF TypeOK
    <3>2. Sending(j)' = Sending(j) /\ Reached(j)' = Reached(j)
      BY <1>c, <2>1, <3>1 DEF Sending, Reached
    <3> QED
      BY <1>d, <1>e, <2>1, <2>3, <2>6, <3>1, <3>2, StillTracked DEF Tracked
  <2>8. Track(k)'
    <3> SUFFICES ASSUME Live(k)' PROVE Track(k)'
      BY DEF Track
    <3>1. Live(k) /\ k \in written
      BY <1>d, <2>1 DEF Live
    <3>2. h.cmd \in PendingCommands => h.cmd \in Reached(k)
      BY <3>1 DEF Tracked, Track, h
    <3>3. Elements(line[k]) \subseteq {h} \cup Elements(line'[k])
      <4>1. line'[k] = Tail(line[k])
        BY <1>a, <2>1 DEF TypeOK
      <4> QED
        BY <2>1, <2>2, <4>1, HeadOrTail DEF h
    <3>4. Sending(k) \subseteq {h.cmd} \cup Sending(k)'
      BY <3>3 DEF Sending
    <3>5. Reached(k)' = Reached(k) /\ k \notin written'
      BY <1>c, <2>1 DEF Reached
    <3>6. OnTheWay(k) \cap PendingCommands' \subseteq OnTheWay(k)'
      BY <1>e, <2>1, <2>3, <3>2, <3>4, <3>5
    <3> QED
      BY <2>3, <2>6, <3>1, <3>5, <3>6, StillTracked DEF Tracked
  <2> QED
    BY <2>7, <2>8
<1>6. CASE Receive(k)
  <2> DEFINE m == Head(up[k])
  <2>1. /\ handler[k] = "receive" /\ up[k] # <<>> /\ up' = [up EXCEPT ![k] = Tail(@)]
        /\ status' = Completed(m.cmd, m.res)
        /\ handler' = handler \/ handler' = [handler EXCEPT ![k] = "notify"]
        /\ UNCHANGED <<todo, line, written, down>>
    BY <1>6 DEF Receive
  <2>2. up \in [Conns -> Seq(Message)]
    BY <1>a DEF TypeOK, Message
  <2>3. m.cmd \in Cmds /\ m.res \in Outcomes
    <3>1. m \in Message
      BY <2>1, <2>2, QueueOps
    <3> QED
      BY <3>1 DEF Message
  <2>4. Elements(up[k]) \subseteq {m} \cup Elements(up'[k])
    BY <2>1, <2>2, HeadOrTail
  <2> HIDE DEF m
  <2>5. PendingCommands' \subseteq PendingCommands \ {m.cmd}
    BY <1>f, <2>1, <2>3, PendingShrinks
  <2>6. \A j \in Conns : Replaying(j)' => Replaying(j)
    BY <1>a, <2>1 DEF Replaying, TypeOK
  <2>7. ASSUME NEW j \in Conns, j # k PROVE Track(j)'
    BY <1>g, <2>1, <2>2, <2>5, <2>6, <2>7
  <2>8. Track(k)'
    <3>1. Reached(k) \subseteq {m.cmd} \cup Reached(k)'
      BY <1>c, <2>1, <2>4 DEF Reached
    <3>2. Sending(k)' = Sending(k)
      BY <2>1 DEF Sending
    <3> QED
      BY <1>d, <1>e, <2>1, <2>5, <2>6, <3>1, <3>2, StillTracked DEF Tracked
  <2> QED
    BY <2>7, <2>8
<1>7. CASE HandlerExits(k)
  <2>1. /\ k \notin coreOpen /\ handler' = [handler EXCEPT ![k] = "done"]
        /\ up' = [up EXCEPT ![k] = <<>>]
        /\ UNCHANGED <<status, lapsed, todo, line, written, down>>
    BY <1>7 DEF HandlerExits, db
  <2>2. PendingCommands' \subseteq PendingCommands
    BY <1>f, <2>1, PendingShrinks
  <2>3. Track(k)'
    BY <1>c, <2>1 DEF Track, Live
  <2>4. ASSUME NEW j \in Conns, j # k PROVE Track(j)'
    BY <1>a, <1>g, <2>1, <2>2, <2>4 DEF Replaying, TypeOK
  <2> QED
    BY <2>3, <2>4
<1> QED
  BY <1>b, <1>1, <1>2, <1>3, <1>4, <1>5, <1>6, <1>7

\* What the agent sends over a live session reaches the queue to Core.
LEMMA Answered ==
  ASSUME TypeOK, NEW k \in Conns, Live(k), NEW c \in Cmds, NEW r \in Outcomes, Reply(c, r)
  PROVE  {m.cmd : m \in Elements(up'[k])} = {m.cmd : m \in Elements(up[k])} \cup {c}
<1> DEFINE m0 == [cmd |-> c, res |-> r]
<1>1. up \in [Conns -> Seq(Message)] /\ m0 \in Message /\ m0.cmd = c
  BY DEF TypeOK, Message
<1>2. up' = [up EXCEPT ![k] = Append(@, m0)]
  BY DEF Reply, Live
<1> HIDE DEF m0
<1>3. Elements(up'[k]) = Elements(up[k]) \cup {m0}
  BY <1>1, <1>2, QueueElements
<1> QED
  BY <1>1, <1>3

LEMMA TrackedAgent == Typed /\ Placed /\ Tracked /\ AgentStep => Tracked'
<1> SUFFICES ASSUME Typed, Placed, Tracked, AgentStep PROVE Tracked'
  OBVIOUS
<1>a. /\ TypeOK /\ \A j \in Conns : j \in written => line[j] # <<>>
      /\ agent # "offline" => session \in Conns
      /\ agent \in {"executed", "recorded"} => current \in Cmds /\ outcome \in Outcomes
  BY DEF Typed, Shape
<1>b. UNCHANGED <<status, lapsed, todo, line, written, cut>>
  BY DEF AgentStep, AgentConnects, AnswerFromJournal, Execute, Record, SendResult,
     AgentNotices, db, hubs, net
<1>c. PendingCommands' = PendingCommands
  BY <1>b DEF PendingCommands, Expired
<1>d. \A j \in Conns : Sending(j)' = Sending(j)
  BY <1>b DEF Sending
<1>e. /\ \A j \in Conns : OnTheWay(j) = todo[j] \cup Sending(j) \cup Reached(j)
      /\ \A j \in Conns : OnTheWay(j)' = todo'[j] \cup Sending(j)' \cup Reached(j)'
  BY DEF OnTheWay, Sending, Reached
<1>f. PendingCommands \subseteq Cmds /\ NoCmd \notin Cmds /\ NoConn \notin Conns
  BY DEF PendingCommands, Cmds, Conns, NoCmd, NoConn
\* What becomes of a session that stays the same.
<1>g. ASSUME UNCHANGED <<handler, coreOpen, session>>,
             \A j \in Conns : Live(j) => Reached(j) \cap PendingCommands \subseteq Reached(j)'
      PROVE  \A j \in Conns : Track(j)'
  <2> SUFFICES ASSUME NEW j \in Conns PROVE Track(j)'
    OBVIOUS
  <2>1. Live(j)' => Live(j)
    BY <1>b, <1>g DEF Live
  <2>2. Replaying(j)' => Replaying(j)
    BY <1>g DEF Replaying
  <2>3. Live(j) => OnTheWay(j) \cap PendingCommands \subseteq OnTheWay(j)'
    BY <1>b, <1>d, <1>e, <1>g
  <2> QED
    BY <1>b, <1>c, <1>g, <2>1, <2>2, <2>3, StillTracked DEF Tracked
\* A session that ends.
<1>h. ASSUME session' = NoConn PROVE \A j \in Conns : Track(j)'
  BY <1>f, <1>h DEF Track, Live
<1>1. ASSUME NEW k \in Conns, AgentConnects(k) PROVE Tracked'
  <2>1. /\ agent = "offline" /\ agent' = "ready" /\ current' = current /\ session' = k
        /\ k = nextConn /\ handler' = [handler EXCEPT ![k] = "accepted"]
    BY <1>1 DEF AgentConnects
  <2>2. handler[k] = "unused"
    BY <2>1, BoundsAssumption DEF Placed, InOrder, Conns
  <2>3. k \notin written /\ ~Replaying(k)'
    BY <1>a, <2>1, <2>2 DEF Placed, SentTo, Replaying, TypeOK
  <2>4. Track(k)'
    BY <1>b, <2>3 DEF Track
  <2>5. \A j \in Conns : j # k => Track(j)'
    BY <2>1 DEF Track, Live
  <2> QED
    BY <2>1, <2>4, <2>5 DEF Tracked
<1>2. CASE AnswerFromJournal
  <2> DEFINE c == Head(down[session])
  <2>1. /\ agent = "ready" /\ down[session] # <<>> /\ journal[c] # None /\ Reply(c, journal[c])
        /\ down' = [down EXCEPT ![session] = Tail(@)]
        /\ UNCHANGED <<handler, coreOpen, session, agent, current>>
    BY <1>2 DEF AnswerFromJournal, hubs, room
  <2>2. session \in Conns /\ down \in [Conns -> Seq(Cmds)]
    BY <1>a, <2>1 DEF TypeOK
  <2>3. c \in Cmds /\ Elements(down[session]) \subseteq {c} \cup Elements(down'[session])
    BY <2>1, <2>2, QueueOps, HeadOrTail
  <2> HIDE DEF c
  <2>4. journal[c] \in Outcomes
    BY <1>a, <2>1, <2>3 DEF TypeOK
  <2>5. ASSUME NEW j \in Conns, Live(j) PROVE Reached(j) \subseteq Reached(j)'
    <3>1. j = session
      BY <2>5 DEF Live
    <3>2. {m.cmd : m \in Elements(up'[j])} = {m.cmd : m \in Elements(up[j])} \cup {c}
      BY <1>a, <2>1, <2>3, <2>4, <2>5, Answered
    <3> QED
      BY <2>1, <2>3, <3>1, <3>2 DEF Reached
  <2> QED
    BY <1>g, <2>1, <2>5 DEF Tracked
<1>3. ASSUME NEW r \in Results, Execute(r) PROVE Tracked'
  <2> DEFINE c == Head(down[session])
  <2>1. /\ agent = "ready" /\ down[session] # <<>> /\ agent' = "executed" /\ current' = c
        /\ down' = [down EXCEPT ![session] = Tail(@)]
        /\ UNCHANGED <<handler, coreOpen, session, up>>
    BY <1>3 DEF Execute, hubs
  <2>2. session \in Conns /\ down \in [Conns -> Seq(Cmds)]
    BY <1>a, <2>1 DEF TypeOK
  <2>3. Elements(down[session]) \subseteq {c} \cup Elements(down'[session])
    BY <2>1, <2>2, HeadOrTail
  <2> HIDE DEF c
  <2>4. current = NoCmd
    BY <2>1 DEF Tracked
  <2>5. ASSUME NEW j \in Conns, Live(j)
        PROVE  Reached(j) \cap PendingCommands \subseteq Reached(j)'
    <3>1. j = session
      BY <2>5 DEF Live
    <3> QED
      BY <1>f, <2>1, <2>3, <2>4, <3>1 DEF Reached
  <2> QED
    BY <1>g, <2>1, <2>5 DEF Tracked
<1>4. CASE Record
  <2>1. UNCHANGED <<handler, coreOpen, down, up>>
    BY <1>4 DEF Record, hubs, net
  <2>2. CASE agent' = "recorded" /\ UNCHANGED <<session, current>>
    BY <1>g, <2>1, <2>2 DEF Tracked, Reached
  <2>3. CASE agent' = "offline" /\ session' = NoConn /\ current' = NoCmd
    BY <1>h, <2>3 DEF Tracked
  <2> QED
    BY <1>4, <2>2, <2>3 DEF Record
<1>5. CASE SendResult
  <2>1. /\ agent = "recorded" /\ Reply(current, outcome) /\ agent' = "ready" /\ current' = NoCmd
        /\ UNCHANGED <<handler, coreOpen, session, down>>
    BY <1>5 DEF SendResult, hubs
  <2>2. current \in Cmds /\ outcome \in Outcomes
    BY <1>a, <2>1
  <2>3. ASSUME NEW j \in Conns, Live(j) PROVE Reached(j) \subseteq Reached(j)'
    <3>1. {m.cmd : m \in Elements(up'[j])} = {m.cmd : m \in Elements(up[j])} \cup {current}
      BY <1>a, <2>1, <2>2, <2>3, Answered
    <3> QED
      BY <2>1, <3>1 DEF Reached
  <2> QED
    BY <1>g, <2>1, <2>3 DEF Tracked
<1>6. CASE AgentNotices
  BY <1>6, <1>h DEF AgentNotices, Tracked
<1> QED
  BY <1>1, <1>2, <1>3, <1>4, <1>5, <1>6 DEF AgentStep

LEMMA TrackedEnvironment ==
  Typed /\ Submitted /\ Placed /\ Tracked /\ Environment => Tracked'
<1> SUFFICES ASSUME Typed, Submitted, Placed, Tracked, Environment PROVE Tracked'
  OBVIOUS
<1>a. TypeOK /\ \A j \in Conns : j \in written => line[j] # <<>>
  BY DEF Typed, Shape
<1>f. NoConn \notin Conns
  BY DEF Conns, NoConn
<1>1. ASSUME NEW c \in Cmds, Create(c) PROVE Tracked'
  <2>1. /\ status[c] = None /\ status' = [Expired EXCEPT ![c] = "queued"]
        /\ UNCHANGED <<lapsed, handler, todo, written, coreOpen, down, up, cut, agent,
                       current, session>>
    BY <1>1 DEF Create, net, room
  <2>2. PendingCommands' \subseteq PendingCommands \cup {c}
    BY <1>a, <2>1, PendingShrinks DEF TypeOK
  <2>3. \A j \in Conns : c \notin Sending(j)
    BY <2>1 DEF Submitted, Issued
  <2>4. \A j \in Conns : Live(j)' = Live(j) /\ Replaying(j)' = Replaying(j)
                        /\ Reached(j)' = Reached(j)
    BY <2>1 DEF Live, Replaying, Reached
  <2>5. ASSUME NEW j \in Conns, Live(j), Replaying(j) PROVE hub = j
    BY <2>5 DEF Live, Replaying, Placed, SessionReachable
  <2>6. ASSUME NEW j \in Conns
        PROVE  /\ Sending(j) \subseteq Sending(j)' /\ (hub = j => c \in Sending(j)')
               /\ j \in written => Head(line'[j]) = Head(line[j])
    <3>1. CASE hub = NoConn
      BY <1>1, <1>f, <3>1 DEF Create, Sending
    <3>2. CASE hub # NoConn
      <4> DEFINE e == [by |-> Http, cmd |-> c]
      <4>1. hub \in Conns /\ e \in Entry /\ e.cmd = c
        BY <1>a, <3>2 DEF TypeOK, Entry
      <4>2. line' = [line EXCEPT ![hub] = Append(@, e)]
        BY <1>1, <3>2 DEF Create, Enqueue
      <4> HIDE DEF e
      <4>3. line'[j] = IF j = hub THEN Append(line[j], e) ELSE line[j]
        BY <1>a, <4>1, <4>2 DEF TypeOK
      <4>4. CASE j = hub
        <5>1. Elements(line'[j]) = Elements(line[j]) \cup {e} /\ line[j] \in Seq(Entry)
          BY <1>a, <4>1, <4>3, <4>4, Lines
        <5>2. j \in written => Head(line'[j]) = Head(line[j])
          BY <1>a, <4>1, <4>3, <4>4, <5>1, HeadOrTail
        <5> QED
          BY <4>1, <5>1, <5>2 DEF Sending
      <4>5. CASE j # hub
        BY <4>3, <4>5 DEF Sending
      <4> QED
        BY <4>4, <4>5
    <3> QED
      BY <3>1, <3>2
  <2>7. ASSUME NEW j \in Conns, Live(j)' PROVE Track(j)'
    <3>1. Replaying(j)' => PendingCommands' \subseteq OnTheWay(j)'
      <4> SUFFICES ASSUME Replaying(j)' PROVE PendingCommands' \subseteq OnTheWay(j)'
        OBVIOUS
      <4>1. PendingCommands \subseteq todo[j] \cup Sending(j) \cup Reached(j)
        BY <2>4, <2>7 DEF Tracked, Track, OnTheWay, Sending, Reached
      <4>2. c \in Sending(j)'
        BY <2>4, <2>5, <2>6, <2>7
      <4>3. OnTheWay(j)' = todo'[j] \cup Sending(j)' \cup Reached(j)'
        BY DEF OnTheWay, Sending, Reached
      <4> QED
        BY <2>1, <2>2, <2>4, <2>6, <4>1, <4>2, <4>3
    <3>2. ASSUME j \in written', Head(line'[j]).cmd \in PendingCommands'
          PROVE  Head(line'[j]).cmd \in Reached(j)'
      <4>1. j \in written /\ Head(line'[j]) = Head(line[j]) /\ Head(line[j]).cmd \in Sending(j)
        BY <1>a, <2>1, <2>6, <3>2, Lines DEF Sending
      <4>2. Head(line[j]).cmd \in PendingCommands
        BY <2>2, <2>3, <3>2, <4>1
      <4> QED
        BY <2>4, <2>7, <4>1, <4>2 DEF Tracked, Track
    <3> QED
      BY <3>1, <3>2 DEF Track
  <2> QED
    BY <2>1, <2>7 DEF Tracked, Track
<1>2. CASE (\E c \in Cmds : Lapse(c)) \/ ReadCommands
  <2>1. /\ lapsed \subseteq lapsed' /\ lapsed' \subseteq Cmds /\ status' \in {status, Expired}
        /\ UNCHANGED <<handler, todo, line, written, coreOpen, down, up, cut, agent,
                       current, session>>
    BY <1>2, <1>a DEF Lapse, ReadCommands, hubs, net, room, TypeOK
  <2>2. PendingCommands' \subseteq PendingCommands
    BY <2>1, PendingShrinks
  <2>3. \A j \in Conns : Live(j)' = Live(j) /\ Replaying(j)' = Replaying(j)
                        /\ Reached(j)' = Reached(j) /\ OnTheWay(j)' = OnTheWay(j)
    BY <2>1 DEF Live, Replaying, Reached, OnTheWay
  <2> QED
    BY <2>1, <2>2, <2>3, StillTracked DEF Tracked
<1>3. ASSUME NEW k \in Conns, LinkBreaks(k) PROVE Tracked'
  <2>1. /\ cut' = cut \cup {k} /\ UNCHANGED <<status, lapsed, handler, todo, line, written,
                                             coreOpen, agent, current, session>>
        /\ down' = [down EXCEPT ![k] = <<>>] /\ up' = [up EXCEPT ![k] = <<>>]
    BY <1>3 DEF LinkBreaks, db, hubs, room
  <2>2. Track(k)'
    BY <2>1 DEF Track, Live
  <2>3. PendingCommands' = PendingCommands
    BY <2>1 DEF PendingCommands, Expired
  <2>4. ASSUME NEW j \in Conns, j # k PROVE Track(j)'
    <3>1. down'[j] = down[j] /\ up'[j] = up[j]
      BY <1>a, <2>1, <2>4 DEF TypeOK
    <3>2. /\ Live(j)' => Live(j)
          /\ Replaying(j)' = Replaying(j) /\ Reached(j)' = Reached(j)
          /\ OnTheWay(j)' = OnTheWay(j)
      BY <2>1, <3>1 DEF Live, Replaying, Reached, OnTheWay
    <3> QED
      BY <2>1, <2>3, <3>2, StillTracked DEF Tracked
  <2> QED
    BY <2>1, <2>2, <2>4 DEF Tracked
<1>4. CASE AgentCrashes
  BY <1>4, <1>f DEF AgentCrashes, Tracked, Track, Live
<1>5. CASE CoreCrashes
  BY <1>5 DEF CoreCrashes, room, Tracked, Track, Live
<1> QED
  BY <1>1, <1>2, <1>3, <1>4, <1>5 DEF Environment

LEMMA TrackedStep == Typed /\ Submitted /\ Placed /\ Tracked /\ [Next]_vars => Tracked'
<1>1. Tracked /\ UNCHANGED vars => Tracked'
  BY DEF Tracked, Track, Live, Replaying, Reached, OnTheWay, PendingCommands, Expired,
     vars, db, hubs, net, room
<1> QED
  BY <1>1, TrackedCore, TrackedAgent, TrackedEnvironment DEF Next

\* Over a session that works every pending command within its lifetime is about
\* to be replayed, being sent, at the agent or coming back as a result: none
\* waits for the next reconnect (api.py device_socket, DeviceHub.send,
\* queue_device_command).
THEOREM NothingIsStranded == Spec => []NoCommandStranded
<1>1. Tracked => NoCommandStranded
  BY DEF Tracked, Track, Live, Replaying, PendingCommands, NoCommandStranded
<1> QED
  BY <1>1, TypedInit, TypedStep, SubmittedInit, SubmittedStep, PlacedInit, PlacedStep,
     TrackedInit, TrackedStep, PTL DEF Spec
=============================================================================
