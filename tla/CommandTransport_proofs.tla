----------------------- MODULE CommandTransport_proofs -----------------------
(***************************************************************************)
(* Proofs about CommandTransport, for every number of commands,             *)
(* connections and failures.                                                *)
(***************************************************************************)
EXTENDS CommandTransport, FiniteSetTheorems, TLAPS

-----------------------------------------------------------------------------
(* Type correctness.                                                       *)

Entry == [by : Conns \cup {Http}, cmd : Cmds]
Message == [cmd : Cmds, res : Outcomes]

\* What the program counters say about the variables they go with.
Shape ==
  /\ \A k \in written : line[k] # <<>>
  /\ \A k \in Conns : handler[k] = "notify" => result[k] \in Cmds
  /\ agent # "offline" => session \in Conns
  /\ agent \in {"executed", "recorded"} => current \in Cmds /\ outcome \in Outcomes

Typed == TypeOK /\ Shape

LEMMA TypedInit == Init => Typed
  BY BoundsAssumption DEF Init, Typed, TypeOK, Shape, Cmds, Conns, NoConn, NoCmd, Http,
     None, Outcomes, Pending, Statuses, HandlerStates, AgentStates

\* A row never leaves the set of statuses, whichever operator computes it.
LEMMA ExpiredType ==
  ASSUME TypeOK
  PROVE  /\ Expired \in [Cmds -> Statuses]
         /\ PendingCommands \subseteq Cmds
         /\ \A c \in Cmds : Delivered(c) \in [Cmds -> Statuses]
         /\ \A c \in Cmds, r \in Outcomes : Completed(c, r) \in [Cmds -> Statuses]
  BY DEF TypeOK, Expired, PendingCommands, Delivered, Completed, Statuses, Pending,
     Outcomes

\* The queues of line, down and up: what appending to and taking from one of
\* them does to the whole family.
LEMMA QueueOps ==
  ASSUME NEW S, NEW q \in [Conns -> Seq(S)], NEW k \in Conns
  PROVE  /\ \A e \in S : /\ [q EXCEPT ![k] = Append(@, e)] \in [Conns -> Seq(S)]
                         /\ Append(q[k], e) # <<>>
         /\ [q EXCEPT ![k] = <<>>] \in [Conns -> Seq(S)]
         /\ q[k] # <<>> => /\ Head(q[k]) \in S
                           /\ [q EXCEPT ![k] = Tail(@)] \in [Conns -> Seq(S)]
<1>1. q[k] \in Seq(S)
  OBVIOUS
<1>2. \A e \in S : Append(q[k], e) \in Seq(S) /\ Append(q[k], e) # <<>>
  BY <1>1
<1>3. q[k] # <<>> => Head(q[k]) \in S /\ Tail(q[k]) \in Seq(S)
  BY <1>1
<1>4. <<>> \in Seq(S)
  OBVIOUS
<1> QED
  BY <1>2, <1>3, <1>4

LEMMA TypedCore == Typed /\ CoreStep => Typed'
<1> SUFFICES ASSUME Typed, CoreStep PROVE Typed'
  OBVIOUS
<1> USE DEF Typed, Shape, NoConn, NoCmd, Http
<1>0. PICK k \in Conns : \/ Register(k) \/ Snapshot(k) \/ ReplayEnds(k)
                         \/ \E c \in Cmds : Replay(k, c)
                         \/ Write(k) \/ SendDone(k) \/ SendFailed(k)
                         \/ Receive(k) \/ Notify(k)
                         \/ CoreNotices(k) \/ OtherSendFails(k) \/ HandlerExits(k)
  BY DEF CoreStep
<1>1. CASE Register(k)
  BY <1>1 DEF TypeOK, Register, HandlerStates, db, net, room, budgets
<1>2. CASE Snapshot(k)
  BY <1>2, ExpiredType DEF TypeOK, Snapshot, HandlerStates, net, room, budgets
<1>3. CASE ReplayEnds(k)
  BY <1>3 DEF TypeOK, ReplayEnds, HandlerStates, db, net, room, budgets
<1>4. CASE \E c \in Cmds : Replay(k, c)
  <2>1. PICK c \in Cmds : Replay(k, c)
    BY <1>4
  <2>2. CASE hub = NoConn
    BY <2>1, <2>2 DEF TypeOK, Replay, HandlerStates, db, net, room, budgets
  <2>3. CASE hub # NoConn
    <3>1. hub \in Conns /\ line \in [Conns -> Seq(Entry)] /\ [by |-> k, cmd |-> c] \in Entry
      BY <2>3 DEF TypeOK, Entry
    <3>2. line' = [line EXCEPT ![hub] = Append(@, [by |-> k, cmd |-> c])]
      BY <2>1, <2>3 DEF Replay, Enqueue
    <3>3. line' \in [Conns -> Seq(Entry)]
      BY <3>1, <3>2, QueueOps
    <3>4. Append(line[hub], [by |-> k, cmd |-> c]) # <<>>
      BY <3>1, QueueOps
    <3>5. \A j \in written : line'[j] # <<>>
      BY <3>1, <3>2, <3>4 DEF TypeOK
    <3>6. handler' = [handler EXCEPT ![k] = "sending"]
      BY <2>1, <2>3 DEF Replay
    <3>7. todo' \in [Conns -> SUBSET Cmds]
      BY <2>1 DEF TypeOK, Replay
    <3>8. UNCHANGED <<db, hub, result, written, coreOpen, net, room, budgets>>
      BY <2>1 DEF Replay
    <3> QED
      BY <3>3, <3>5, <3>6, <3>7, <3>8
      DEF TypeOK, Entry, HandlerStates, db, net, room, budgets
  <2> QED
    BY <2>2, <2>3
<1>5. CASE Write(k)
  <2> DEFINE c == Head(line[k]).cmd
  <2>0. line \in [Conns -> Seq(Entry)] /\ line[k] # <<>> /\ down \in [Conns -> Seq(Cmds)]
    BY <1>5 DEF TypeOK, Entry, Write
  <2>1. Head(line[k]) \in Entry
    BY <2>0, QueueOps
  <2>2. c \in Cmds
    BY <2>1 DEF Entry
  <2>3. [down EXCEPT ![k] = Append(@, c)] \in [Conns -> Seq(Cmds)]
    BY <2>0, <2>2, QueueOps
  <2>4. down' = IF k \in cut THEN down ELSE [down EXCEPT ![k] = Append(@, c)]
    BY <1>5 DEF Write
  <2>5. down' \in [Conns -> Seq(Cmds)]
    BY <2>0, <2>3, <2>4
  <2> QED
    BY <1>5, <2>5 DEF TypeOK, Write, db, room, budgets
<1>6. CASE SendDone(k)
  <2>1. line \in [Conns -> Seq(Entry)] /\ line[k] # <<>>
    BY <1>6 DEF TypeOK, Entry, SendDone
  <2>2. Head(line[k]) \in Entry /\ line' \in [Conns -> Seq(Entry)]
    BY <1>6, <2>1, QueueOps DEF SendDone
  <2>3. \A j \in written' : line'[j] # <<>>
    BY <1>6 DEF TypeOK, SendDone
  <2> QED
    BY <1>6, <2>2, <2>3, ExpiredType
    DEF TypeOK, Entry, SendDone, SenderResumes, HandlerStates, net, room, budgets
<1>7. CASE SendFailed(k)
  <2>1. line \in [Conns -> Seq(Entry)] /\ line[k] # <<>>
    BY <1>7 DEF TypeOK, Entry, SendFailed
  <2>2. Head(line[k]) \in Entry /\ line' \in [Conns -> Seq(Entry)]
    BY <1>7, <2>1, QueueOps DEF SendFailed
  <2>3. \A j \in written' : line'[j] # <<>>
    BY <1>7 DEF TypeOK, SendFailed
  <2> QED
    BY <1>7, <2>2, <2>3
    DEF TypeOK, Entry, SendFailed, SenderResumes, Dropped, HandlerStates, db, net, room,
        budgets
<1>8. CASE Receive(k)
  <2>1. up \in [Conns -> Seq(Message)] /\ up[k] # <<>>
    BY <1>8 DEF TypeOK, Message, Receive
  <2>2. Head(up[k]) \in Message /\ up' \in [Conns -> Seq(Message)]
    BY <1>8, <2>1, QueueOps DEF Receive
  <2> DEFINE m == Head(up[k])
  <2>3. m.cmd \in Cmds /\ m.res \in Outcomes
    BY <2>2 DEF Message
  <2>4. status' \in [Cmds -> Statuses]
    BY <1>8, <2>3, ExpiredType DEF Receive
  <2>5. handler' \in [Conns -> HandlerStates] /\ result' \in [Conns -> Cmds \cup {NoCmd}]
    BY <1>8, <2>3 DEF Receive, TypeOK, HandlerStates
  <2>6. UNCHANGED <<lapsed, announced, hub, todo, line, written, coreOpen, down, cut>>
    BY <1>8 DEF Receive
  <2>7. UNCHANGED <<room, budgets>>
    BY <1>8 DEF Receive
  <2>8. hub' \in Conns \cup {NoConn}
    BY <2>6 DEF TypeOK
  <2>9. /\ todo' \in [Conns -> SUBSET Cmds] /\ lapsed' \subseteq Cmds /\ announced' \subseteq Cmds
    BY <2>6 DEF TypeOK
  <2>10. /\ line' \in [Conns -> Seq([by : Conns \cup {Http}, cmd : Cmds])]
         /\ written' \subseteq Conns /\ coreOpen' \subseteq Conns
         /\ down' \in [Conns -> Seq(Cmds)] /\ cut' \subseteq Conns
    BY <2>6 DEF TypeOK
  <2>11. /\ journal' \in [Cmds -> Outcomes \cup {None}] /\ agent' \in AgentStates
         /\ session' \in Conns \cup {NoConn} /\ current' \in Cmds \cup {NoCmd}
         /\ outcome' \in Outcomes \cup {None} /\ execs' \in [Cmds -> Nat]
    BY <2>7 DEF TypeOK, room
  <2>12. /\ nextConn' \in 1..(MaxConn + 1) /\ breaks' \in 0..MaxBreaks
         /\ agentCrashes' \in 0..MaxAgentCrashes /\ coreCrashes' \in 0..MaxCoreCrashes
    BY <2>7 DEF TypeOK, budgets
  <2>13. TypeOK'
    BY <2>2, <2>4, <2>5, <2>8, <2>9, <2>10, <2>11, <2>12, Zenon DEF TypeOK, Message
  <2>14. \A j \in Conns : handler'[j] = "notify" => result'[j] \in Cmds
    BY <1>8, <2>3 DEF Receive, TypeOK
  <2>15. Shape'
    BY <2>6, <2>7, <2>14 DEF room
  <2> QED
    BY <2>13, <2>15
<1>9. CASE Notify(k)
  BY <1>9 DEF TypeOK, Notify, HandlerStates, net, room, budgets
<1>10. CASE CoreNotices(k)
  BY <1>10 DEF TypeOK, CoreNotices, db, net, room, budgets
<1>11. CASE OtherSendFails(k)
  BY <1>11 DEF TypeOK, OtherSendFails, db, net, room, budgets
<1>12. CASE HandlerExits(k)
  <2>1. up' \in [Conns -> Seq([cmd : Cmds, res : Outcomes])]
    BY <1>12, QueueOps DEF TypeOK, HandlerExits
  <2> QED
    BY <1>12, <2>1 DEF TypeOK, HandlerExits, Dropped, HandlerStates, db, room, budgets
<1> QED
  BY <1>0, <1>1, <1>2, <1>3, <1>4, <1>5, <1>6, <1>7, <1>8, <1>9, <1>10, <1>11, <1>12

LEMMA TypedAgent == Typed /\ AgentStep => Typed'
<1> SUFFICES ASSUME Typed, AgentStep PROVE Typed'
  OBVIOUS
<1> USE DEF Typed, Shape, NoConn, NoCmd, Http
<1>1. CASE \E k \in Conns : AgentConnects(k)
  <2>1. PICK k \in Conns : AgentConnects(k)
    BY <1>1
  <2>2. nextConn' \in 1..(MaxConn + 1)
    BY <2>1, BoundsAssumption DEF AgentConnects, Conns, TypeOK
  <2> QED
    BY <2>1, <2>2 DEF TypeOK, AgentConnects, HandlerStates, AgentStates, db, net
<1>2. CASE AnswerFromJournal
  <2> DEFINE c == Head(down[session])
             m == [cmd |-> c, res |-> journal[c]]
  <2>1. session \in Conns /\ down[session] # <<>>
    BY <1>2 DEF AnswerFromJournal
  <2>2. c \in Cmds /\ down' \in [Conns -> Seq(Cmds)]
    BY <1>2, <2>1, QueueOps DEF TypeOK, AnswerFromJournal
  <2>3. m \in Message /\ up \in [Conns -> Seq(Message)]
    BY <1>2, <2>2 DEF TypeOK, AnswerFromJournal, Message, Outcomes, None
  <2>4. [up EXCEPT ![session] = Append(@, m)] \in [Conns -> Seq(Message)]
    BY <2>1, <2>3, QueueOps
  <2>5. up' \in [Conns -> Seq(Message)]
    BY <1>2, <2>3, <2>4 DEF AnswerFromJournal, Reply
  <2> QED
    BY <1>2, <2>2, <2>5 DEF TypeOK, AnswerFromJournal, Message, db, hubs, room, budgets
<1>3. CASE \E r \in Results : Execute(r)
  <2>1. PICK r \in Results : Execute(r)
    BY <1>3
  <2>2. r \in Outcomes
    BY BoundsAssumption DEF Outcomes
  <2>3. session \in Conns /\ down[session] # <<>> /\ down \in [Conns -> Seq(Cmds)]
    BY <2>1 DEF TypeOK, Execute
  <2>4. Head(down[session]) \in Cmds /\ down' \in [Conns -> Seq(Cmds)]
    BY <2>1, <2>3, QueueOps DEF Execute
  <2>5. execs' \in [Cmds -> Nat]
    <3> DEFINE c == Head(down[session])
    <3>1. c \in Cmds /\ execs \in [Cmds -> Nat]
      BY <2>4 DEF TypeOK
    <3>2. execs' = [execs EXCEPT ![c] = @ + 1]
      BY <2>1 DEF Execute
    <3> HIDE DEF c
    <3> QED
      BY <3>1, <3>2
  <2>6. /\ agent' = "executed" /\ outcome' = r /\ current' = Head(down[session])
        /\ UNCHANGED <<db, hubs, up, cut, journal, session, budgets>>
    BY <2>1 DEF Execute
  <2> QED
    BY <2>2, <2>3, <2>4, <2>5, <2>6 DEF TypeOK, AgentStates, db, hubs, budgets
<1>4. CASE Record
  <2>1. journal' \in [Cmds -> Outcomes \cup {None}]
    BY <1>4 DEF TypeOK, Record, Recorded
  <2> QED
    BY <1>4, <2>1 DEF TypeOK, Record, AgentStates, db, hubs, net, budgets
<1>5. CASE SendResult
  <2> DEFINE m == [cmd |-> current, res |-> outcome]
  <2>1. m \in Message /\ up \in [Conns -> Seq(Message)] /\ session \in Conns
    BY <1>5 DEF TypeOK, SendResult, Message
  <2>2. [up EXCEPT ![session] = Append(@, m)] \in [Conns -> Seq(Message)]
    BY <2>1, QueueOps
  <2>3. up' \in [Conns -> Seq(Message)]
    BY <1>5, <2>1, <2>2 DEF SendResult, Reply
  <2> QED
    BY <1>5, <2>3 DEF TypeOK, SendResult, Message, AgentStates, db, hubs, budgets
<1>6. CASE AgentNotices
  BY <1>6 DEF TypeOK, AgentNotices, AgentStates, db, hubs, net, budgets
<1> QED
  BY <1>1, <1>2, <1>3, <1>4, <1>5, <1>6 DEF AgentStep

LEMMA TypedEnvironment == Typed /\ Environment => Typed'
<1> SUFFICES ASSUME Typed, Environment PROVE Typed'
  OBVIOUS
<1> USE DEF Typed, Shape, NoConn, NoCmd, Http
<1>1. CASE \E c \in Cmds : Create(c)
  <2>1. PICK c \in Cmds : Create(c)
    BY <1>1
  <2>2. status' \in [Cmds -> Statuses]
    BY <2>1, ExpiredType DEF Create, Statuses, Pending
  <2>3. CASE hub = NoConn
    BY <2>1, <2>2, <2>3 DEF TypeOK, Create, net, room, budgets
  <2>4. CASE hub # NoConn
    <3>1. /\ hub \in Conns /\ line \in [Conns -> Seq(Entry)]
          /\ [by |-> Http, cmd |-> c] \in Entry
      BY <2>4 DEF TypeOK, Entry
    <3>2. line' = [line EXCEPT ![hub] = Append(@, [by |-> Http, cmd |-> c])]
      BY <2>1, <2>4 DEF Create, Enqueue
    <3>3. line' \in [Conns -> Seq(Entry)]
      BY <3>1, <3>2, QueueOps
    <3>4. Append(line[hub], [by |-> Http, cmd |-> c]) # <<>>
      BY <3>1, QueueOps
    <3>5. \A j \in written : line'[j] # <<>>
      BY <3>1, <3>2, <3>4 DEF TypeOK
    <3> QED
      BY <2>1, <2>2, <3>3, <3>5 DEF TypeOK, Entry, Create, net, room, budgets
  <2> QED
    BY <2>3, <2>4
<1>2. CASE \E c \in Cmds : Lapse(c)
  BY <1>2 DEF TypeOK, Lapse, hubs, net, room, budgets
<1>3. CASE ReadCommands
  BY <1>3, ExpiredType DEF TypeOK, ReadCommands, hubs, net, room, budgets
<1>4. CASE \E k \in Conns : LinkBreaks(k)
  <2>1. PICK k \in Conns : LinkBreaks(k)
    BY <1>4
  <2>2. /\ down' \in [Conns -> Seq(Cmds)]
        /\ up' \in [Conns -> Seq([cmd : Cmds, res : Outcomes])]
    BY <2>1, QueueOps DEF TypeOK, LinkBreaks
  <2>3. breaks' \in 0..MaxBreaks
    BY <2>1, BoundsAssumption DEF TypeOK, LinkBreaks
  <2> QED
    BY <2>1, <2>2, <2>3 DEF TypeOK, LinkBreaks, db, hubs, room
<1>5. CASE AgentCrashes
  <2>1. agentCrashes' \in 0..MaxAgentCrashes
    BY <1>5, BoundsAssumption DEF TypeOK, AgentCrashes
  <2> QED
    BY <1>5, <2>1 DEF TypeOK, AgentCrashes, AgentStates, db, hubs, net
<1>6. CASE CoreCrashes
  <2>1. /\ line' \in [Conns -> Seq([by : Conns \cup {Http}, cmd : Cmds])]
        /\ up' \in [Conns -> Seq([cmd : Cmds, res : Outcomes])]
    BY <1>6 DEF CoreCrashes
  <2>2. coreCrashes' \in 0..MaxCoreCrashes
    BY <1>6, BoundsAssumption DEF TypeOK, CoreCrashes
  <2> QED
    BY <1>6, <2>1, <2>2 DEF TypeOK, CoreCrashes, HandlerStates, db, room
<1> QED
  BY <1>1, <1>2, <1>3, <1>4, <1>5, <1>6 DEF Environment

LEMMA TypedStep == Typed /\ [Next]_vars => Typed'
<1>1. Typed /\ UNCHANGED vars => Typed'
  BY DEF Typed, TypeOK, Shape, vars, db, hubs, net, room, budgets
<1> QED
  BY <1>1, TypedCore, TypedAgent, TypedEnvironment DEF Next

\* Every variable keeps its type, and every program counter the data that the
\* code behind it relies on.
THEOREM TypeCorrect == Spec => []TypeOK
<1>1. Typed => TypeOK
  BY DEF Typed
<1> QED
  BY <1>1, TypedInit, TypedStep, PTL DEF Spec

-----------------------------------------------------------------------------
(* The journal decides.  The journal is assumed to hold every command, so  *)
(* that pruning removes nothing: with more commands than JournalCap a       *)
(* pruned one could run again.                                              *)

JournalSuffices == MaxCmd <= JournalCap

\* How one journalled result is known: messages on the way and the agent agree
\* with it, Core reports it, and each run of a command but the recorded or the
\* unfinished one was lost to a crash of the agent.
Journaled ==
  /\ \A k \in Conns : \A m \in Elements(up[k]) : journal[m.cmd] = m.res
  /\ agent = "recorded" => journal[current] = outcome
  /\ agent = "executed" => journal[current] = None /\ execs[current] > 0
  /\ \A c \in Cmds : status[c] \in Outcomes => journal[c] = status[c]
  /\ \A c \in Cmds : journal[c] # None => execs[c] > 0
  /\ \A c \in Cmds : execs[c] <= agentCrashes
                       + (IF journal[c] # None \/ (agent = "executed" /\ current = c)
                          THEN 1 ELSE 0)

\* The members of a queue after taking from it and appending to it.
LEMMA QueueElements ==
  ASSUME NEW S, NEW s \in Seq(S)
  PROVE  /\ \A e \in S : Elements(Append(s, e)) = Elements(s) \cup {e}
         /\ s # <<>> => Head(s) \in Elements(s) /\ Elements(Tail(s)) \subseteq Elements(s)
         /\ Elements(<<>>) = {}
<1>1. ASSUME NEW e \in S PROVE Elements(Append(s, e)) = Elements(s) \cup {e}
  <2> DEFINE t == Append(s, e)
  <2>1. /\ DOMAIN s = 1..Len(s) /\ DOMAIN t = 1..(Len(s) + 1) /\ Len(s) \in Nat
        /\ \A i \in 1..Len(s) : t[i] = s[i]
        /\ t[Len(s) + 1] = e
    OBVIOUS
  <2>2. 1..(Len(s) + 1) = (1..Len(s)) \cup {Len(s) + 1}
    BY <2>1
  <2> HIDE DEF t
  <2>3. Elements(t) = Elements(s) \cup {e}
    BY <2>1, <2>2 DEF Elements
  <2> QED
    BY <2>3 DEF t
<1>2. ASSUME s # <<>>
      PROVE  Head(s) \in Elements(s) /\ Elements(Tail(s)) \subseteq Elements(s)
  <2> DEFINE t == Tail(s)
  <2>1. /\ DOMAIN s = 1..Len(s) /\ Len(s) \in Nat \ {0} /\ Head(s) = s[1]
        /\ DOMAIN t = 1..(Len(s) - 1)
        /\ \A i \in 1..(Len(s) - 1) : t[i] = s[i + 1]
    BY <1>2
  <2>2. \A i \in 1..(Len(s) - 1) : i + 1 \in 1..Len(s)
    BY <2>1
  <2>3. 1 \in 1..Len(s)
    BY <2>1
  <2> HIDE DEF t
  <2>4. Head(s) \in Elements(s) /\ Elements(t) \subseteq Elements(s)
    BY <2>1, <2>2, <2>3 DEF Elements
  <2> QED
    BY <2>4 DEF t
<1>3. Elements(<<>>) = {}
  BY DEF Elements
<1> QED
  BY <1>1, <1>2, <1>3

\* A journal with room for every command is never pruned.
LEMMA NothingPruned ==
  ASSUME JournalSuffices, NEW known \in SUBSET Cmds
  PROVE  Kept(known) = known
<1>1. ASSUME NEW c \in known PROVE Cardinality({d \in known : d > c}) < JournalCap
  <2> DEFINE higher == {d \in known : d > c}
             others == Cmds \ {c}
  <2>1. IsFiniteSet(Cmds) /\ Cardinality(Cmds) = MaxCmd
    BY BoundsAssumption, FS_Interval DEF Cmds
  <2>2. IsFiniteSet(others) /\ Cardinality(others) = MaxCmd - 1
    BY <2>1, FS_RemoveElement
  <2>3. higher \subseteq others
    <3>1. \A d \in known : d \in Int /\ d \in Cmds
      BY BoundsAssumption DEF Cmds
    <3>2. \A d \in known : d > c => d # c
      BY <3>1
    <3> QED
      BY <3>1, <3>2
  <2>4. IsFiniteSet(higher) /\ Cardinality(higher) <= MaxCmd - 1
    <3> HIDE DEF higher, others
    <3>1. higher \in SUBSET others
      BY <2>3
    <3> QED
      BY <2>2, <3>1, FS_Subset
  <2>5. Cardinality(higher) \in Nat
    BY <2>4, FS_CardinalityType
  <2> QED
    BY <2>4, <2>5, BoundsAssumption DEF JournalSuffices
<1> QED
  BY <1>1 DEF Kept

LEMMA RecordedAddsOne ==
  ASSUME JournalSuffices, Typed, NEW c \in Cmds, NEW r \in Outcomes
  PROVE  Recorded(c, r) = [journal EXCEPT ![c] = IF @ = None THEN r ELSE @]
<1> DEFINE known == {d \in Cmds : journal[d] # None} \cup {c}
<1>1. Kept(known) = known
  <2>1. known \in SUBSET Cmds
    OBVIOUS
  <2> HIDE DEF known
  <2> QED
    BY <2>1, NothingPruned
<1>2. journal \in [Cmds -> Outcomes \cup {None}]
  BY DEF Typed, TypeOK
<1>3. Recorded(c, r) = [d \in Cmds |-> IF d \notin known THEN None
                          ELSE IF d = c /\ journal[c] = None THEN r ELSE journal[d]]
  BY <1>1 DEF Recorded
<1> QED
  BY <1>2, <1>3

-----------------------------------------------------------------------------
LEMMA JournaledInit == Init => Journaled
  BY BoundsAssumption
  DEF Init, Journaled, Elements, Cmds, Conns, None, Outcomes

\* Most steps leave the agent's side alone, add no result to the way back, and
\* complete no command but with its journalled result.
LEMMA QuietStep ==
  ASSUME Typed, Journaled,
         UNCHANGED <<journal, agent, current, outcome, execs, agentCrashes>>,
         \A k \in Conns : Elements(up'[k]) \subseteq Elements(up[k]),
         \A c \in Cmds : status'[c] \in Outcomes =>
                           status'[c] = status[c] \/ status'[c] = journal[c]
  PROVE  Journaled'
  BY DEF Journaled

\* Expiring and delivering complete nothing.
LEMMA StatusKept ==
  ASSUME TypeOK
  PROVE  /\ \A c \in Cmds : Expired[c] \in Outcomes => Expired[c] = status[c]
         /\ \A c, d \in Cmds : Delivered(d)[c] \in Outcomes => Delivered(d)[c] = status[c]
         /\ \A c, d \in Cmds, r \in Outcomes :
              Completed(d, r)[c] \in Outcomes =>
                Completed(d, r)[c] = status[c] \/ (c = d /\ Completed(d, r)[c] = r)
  BY DEF TypeOK, Expired, Delivered, Completed, Statuses, Pending, Outcomes, None

LEMMA JournaledCore == Typed /\ Journaled /\ CoreStep => Journaled'
<1> SUFFICES ASSUME Typed, Journaled, CoreStep PROVE Journaled'
  OBVIOUS
<1>0. PICK k \in Conns : \/ Register(k) \/ Snapshot(k) \/ ReplayEnds(k)
                         \/ \E c \in Cmds : Replay(k, c)
                         \/ Write(k) \/ SendDone(k) \/ SendFailed(k)
                         \/ Receive(k) \/ Notify(k)
                         \/ CoreNotices(k) \/ OtherSendFails(k) \/ HandlerExits(k)
  BY DEF CoreStep
<1>1. UNCHANGED <<journal, agent, current, outcome, execs, agentCrashes>>
  BY <1>0 DEF Register, Snapshot, ReplayEnds, Replay, Write, SendDone, SendFailed,
     Receive, Notify, CoreNotices, OtherSendFails, HandlerExits, room, budgets
<1>2. TypeOK
  BY DEF Typed
<1>3. CASE Receive(k)
  <2> DEFINE m == Head(up[k])
  <2>1. up \in [Conns -> Seq(Message)] /\ up[k] # <<>>
    BY <1>2, <1>3 DEF TypeOK, Message, Receive
  <2>2. m \in Message /\ m \in Elements(up[k])
    BY <2>1, QueueElements, QueueOps
  <2>3. journal[m.cmd] = m.res /\ m.cmd \in Cmds /\ m.res \in Outcomes
    BY <2>2 DEF Journaled, Message
  <2>4. \A j \in Conns : Elements(up'[j]) \subseteq Elements(up[j])
    <3>1. up' = [up EXCEPT ![k] = Tail(@)]
      BY <1>3 DEF Receive
    <3>2. Elements(Tail(up[k])) \subseteq Elements(up[k])
      BY <2>1, QueueElements
    <3> QED
      BY <2>1, <3>1, <3>2
  <2>5. status' = Completed(m.cmd, m.res)
    BY <1>3 DEF Receive
  <2>6. \A c \in Cmds : status'[c] \in Outcomes =>
                          status'[c] = status[c] \/ status'[c] = journal[c]
    <3> HIDE DEF m
    <3> QED
      BY <1>2, <2>3, <2>5, StatusKept
  <2> QED
    BY <1>1, <2>4, <2>6, QuietStep
<1>4. CASE HandlerExits(k)
  <2>1. \A j \in Conns : Elements(up'[j]) \subseteq Elements(up[j])
    BY <1>2, <1>4 DEF HandlerExits, TypeOK, Elements
  <2>2. status' = status
    BY <1>4 DEF HandlerExits, db
  <2> QED
    BY <1>1, <2>1, <2>2, QuietStep
<1>5. CASE Snapshot(k)
  <2>1. status' = Expired /\ up' = up
    BY <1>5 DEF Snapshot, net
  <2> QED
    BY <1>1, <1>2, <2>1, QuietStep, StatusKept
<1>6. CASE SendDone(k)
  <2>1. line \in [Conns -> Seq(Entry)] /\ line[k] # <<>>
    BY <1>2, <1>6 DEF Typed, Shape, TypeOK, Entry, SendDone
  <2>2. Head(line[k]).cmd \in Cmds
    <3>1. Head(line[k]) \in Entry
      BY <2>1, QueueOps
    <3> QED
      BY <3>1 DEF Entry
  <2>3. status' = Delivered(Head(line[k]).cmd) /\ up' = up
    BY <1>6 DEF SendDone, net
  <2> QED
    BY <1>1, <1>2, <2>2, <2>3, QuietStep, StatusKept
<1>7. CASE \/ Register(k) \/ ReplayEnds(k) \/ (\E c \in Cmds : Replay(k, c))
           \/ Write(k) \/ SendFailed(k) \/ Notify(k) \/ CoreNotices(k) \/ OtherSendFails(k)
  <2>1. status' = status /\ up' = up
    BY <1>7 DEF Register, ReplayEnds, Replay, Write, SendFailed, Notify, CoreNotices,
       OtherSendFails, db, net
  <2> QED
    BY <1>1, <2>1, QuietStep
<1> QED
  BY <1>0, <1>3, <1>4, <1>5, <1>6, <1>7

\* A reply carries what the journal holds.
LEMMA ReplyElements ==
  ASSUME TypeOK, session \in Conns, NEW c \in Cmds, NEW r \in Outcomes, Reply(c, r)
  PROVE  \A k \in Conns : Elements(up'[k]) \subseteq
                            Elements(up[k]) \cup {[cmd |-> c, res |-> r]}
<1> DEFINE m == [cmd |-> c, res |-> r]
<1>1. up \in [Conns -> Seq(Message)] /\ m \in Message
  BY DEF TypeOK, Message
<1>2. up' = up \/ up' = [up EXCEPT ![session] = Append(@, m)]
  BY DEF Reply
<1>3. Elements(Append(up[session], m)) = Elements(up[session]) \cup {m}
  BY <1>1, QueueElements
<1> HIDE DEF m
<1>4. \A k \in Conns : Elements(up'[k]) \subseteq Elements(up[k]) \cup {m}
  BY <1>1, <1>2, <1>3
<1> QED
  BY <1>4 DEF m

LEMMA JournaledAgent ==
  ASSUME JournalSuffices
  PROVE  Typed /\ Journaled /\ AgentStep => Journaled'
<1> SUFFICES ASSUME Typed, Journaled, AgentStep PROVE Journaled'
  OBVIOUS
<1>0. TypeOK /\ (agent # "offline" => session \in Conns)
  BY DEF Typed, Shape
<1>1. CASE \E k \in Conns : AgentConnects(k)
  BY <1>1 DEF AgentConnects, Journaled, db, net
<1>2. CASE AnswerFromJournal
  <2> DEFINE c == Head(down[session])
  <2>1. session \in Conns /\ down[session] # <<>> /\ down \in [Conns -> Seq(Cmds)]
    BY <1>0, <1>2 DEF AnswerFromJournal, TypeOK
  <2>2. c \in Cmds
    BY <2>1, QueueOps
  <2>3. journal[c] \in Outcomes /\ Reply(c, journal[c])
    BY <1>0, <1>2, <2>2 DEF AnswerFromJournal, TypeOK
  <2>4. UNCHANGED <<status, journal, agent, current, outcome, execs, agentCrashes>>
    BY <1>2 DEF AnswerFromJournal, db, room, budgets
  <2> HIDE DEF c
  <2>5. \A k \in Conns : \A m \in Elements(up'[k]) : journal[m.cmd] = m.res
    BY <1>0, <2>1, <2>2, <2>3, ReplyElements DEF Journaled
  <2> QED
    BY <2>4, <2>5 DEF Journaled
<1>3. CASE \E r \in Results : Execute(r)
  <2> DEFINE c == Head(down[session])
  <2>1. session \in Conns /\ down[session] # <<>> /\ down \in [Conns -> Seq(Cmds)]
    BY <1>0, <1>3 DEF Execute, TypeOK
  <2>2. c \in Cmds
    BY <2>1, QueueOps
  <2>3. /\ agent = "ready" /\ journal[c] = None /\ execs' = [execs EXCEPT ![c] = @ + 1]
        /\ current' = c /\ agent' = "executed"
        /\ UNCHANGED <<status, up, journal, agentCrashes>>
    BY <1>3 DEF Execute, db, budgets
  <2> HIDE DEF c
  <2>4. /\ execs \in [Cmds -> Nat] /\ agentCrashes \in Nat
    BY <1>0, BoundsAssumption DEF TypeOK
  <2>5. \A d \in Cmds : execs'[d] = IF d = c THEN execs[d] + 1 ELSE execs[d]
    BY <2>3, <2>4
  <2>6. \A d \in Cmds : journal'[d] # None => execs'[d] > 0
    BY <2>3, <2>4, <2>5 DEF Journaled
  <2>7. \A d \in Cmds : execs'[d] <= agentCrashes'
                          + (IF journal'[d] # None \/ (agent' = "executed" /\ current' = d)
                             THEN 1 ELSE 0)
    BY <2>3, <2>4, <2>5 DEF Journaled
  <2>8. execs'[current'] > 0
    BY <2>2, <2>3, <2>4, <2>5
  <2> QED
    BY <2>3, <2>6, <2>7, <2>8 DEF Journaled
<1>4. CASE Record
  <2>1. agent = "executed" /\ current \in Cmds /\ outcome \in Outcomes
    BY <1>4 DEF Record, Typed, Shape
  <2>2. journal' = [journal EXCEPT ![current] = IF @ = None THEN outcome ELSE @]
    BY <1>4, <2>1, RecordedAddsOne DEF Record
  <2>3. journal[current] = None /\ journal \in [Cmds -> Outcomes \cup {None}]
    BY <1>0, <2>1 DEF Journaled, TypeOK
  <2>4. \A c \in Cmds : journal'[c] = IF c = current THEN outcome ELSE journal[c]
    BY <2>1, <2>2, <2>3
  <2>5. agent' = "recorded" /\ UNCHANGED <<status, up, current, outcome, execs, agentCrashes>>
    BY <1>4, <2>1, <2>4 DEF Record, Outcomes, None, db, net, budgets
  <2>6. \A k \in Conns : \A m \in Elements(up'[k]) : journal'[m.cmd] = m.res
    <3> SUFFICES ASSUME NEW k \in Conns, NEW m \in Elements(up[k])
                 PROVE  journal'[m.cmd] = m.res
      BY <2>5
    <3>1. m \in Message
      <4>1. up[k] \in Seq(Message)
        BY <1>0 DEF TypeOK, Message
      <4> QED
        BY <4>1 DEF Elements
    <3>2. journal[m.cmd] = m.res
      BY DEF Journaled
    <3> QED
      BY <2>3, <2>4, <3>1, <3>2 DEF Message, Outcomes, None
  <2>7. \A c \in Cmds : status'[c] \in Outcomes => journal'[c] = status'[c]
    BY <2>3, <2>4, <2>5 DEF Journaled, Outcomes, None
  <2>8. \A c \in Cmds : journal'[c] # None => execs'[c] > 0
    BY <2>1, <2>4, <2>5 DEF Journaled
  <2>9. \A c \in Cmds : execs'[c] <= agentCrashes'
                          + (IF journal'[c] # None \/ (agent' = "executed" /\ current' = c)
                             THEN 1 ELSE 0)
    BY <2>1, <2>4, <2>5 DEF Journaled, Outcomes, None
  <2> QED
    BY <2>1, <2>4, <2>5, <2>6, <2>7, <2>8, <2>9 DEF Journaled
<1>5. CASE SendResult
  <2>1. /\ session \in Conns /\ current \in Cmds /\ outcome \in Outcomes
        /\ journal[current] = outcome /\ agent = "recorded"
    BY <1>5 DEF SendResult, Typed, Shape, Journaled
  <2>2. /\ Reply(current, outcome) /\ agent' = "ready"
        /\ UNCHANGED <<status, journal, execs, agentCrashes>>
    BY <1>5 DEF SendResult, db, budgets
  <2>3. \A k \in Conns : \A m \in Elements(up'[k]) : journal[m.cmd] = m.res
    BY <1>0, <2>1, <2>2, ReplyElements DEF Journaled
  <2> QED
    BY <2>1, <2>2, <2>3 DEF Journaled
<1>6. CASE AgentNotices
  BY <1>6 DEF AgentNotices, Journaled, db, net, budgets
<1> QED
  BY <1>1, <1>2, <1>3, <1>4, <1>5, <1>6 DEF AgentStep

LEMMA JournaledEnvironment == Typed /\ Journaled /\ Environment => Journaled'
<1> SUFFICES ASSUME Typed, Journaled, Environment PROVE Journaled'
  OBVIOUS
<1>0. TypeOK
  BY DEF Typed
<1>1. CASE \E c \in Cmds : Create(c)
  <2>1. PICK c \in Cmds : Create(c)
    BY <1>1
  <2>2. /\ status' = [Expired EXCEPT ![c] = "queued"] /\ up' = up
        /\ UNCHANGED <<journal, agent, current, outcome, execs, agentCrashes>>
    BY <2>1 DEF Create, net, room, budgets
  <2>3. \A d \in Cmds : status'[d] \in Outcomes => status'[d] = status[d]
    BY <1>0, <2>2, StatusKept, ExpiredType DEF Outcomes
  <2> QED
    BY <2>2, <2>3, QuietStep
<1>2. CASE \E c \in Cmds : Lapse(c)
  BY <1>2, QuietStep DEF Lapse, hubs, net, room, budgets
<1>3. CASE ReadCommands
  BY <1>0, <1>3, QuietStep, StatusKept DEF ReadCommands, hubs, net, room, budgets
<1>4. CASE \E k \in Conns : LinkBreaks(k)
  <2>1. PICK k \in Conns : LinkBreaks(k)
    BY <1>4
  <2>2. \A j \in Conns : Elements(up'[j]) \subseteq Elements(up[j])
    BY <1>0, <2>1 DEF LinkBreaks, TypeOK, Elements
  <2> QED
    BY <2>1, <2>2, QuietStep DEF LinkBreaks, db, hubs, room
<1>5. CASE AgentCrashes
  <2>1. /\ agent' = "offline" /\ agentCrashes' = agentCrashes + 1
        /\ UNCHANGED <<status, up, journal, execs>>
    BY <1>5 DEF AgentCrashes, db, net
  <2>2. execs \in [Cmds -> Nat] /\ agentCrashes \in Nat
    BY <1>0, BoundsAssumption DEF TypeOK
  <2> QED
    BY <2>1, <2>2 DEF Journaled
<1>6. CASE CoreCrashes
  <2>1. \A j \in Conns : Elements(up'[j]) \subseteq Elements(up[j])
    BY <1>6 DEF CoreCrashes, Elements
  <2> QED
    BY <1>6, <2>1, QuietStep DEF CoreCrashes, db, room
<1> QED
  BY <1>1, <1>2, <1>3, <1>4, <1>5, <1>6 DEF Environment

LEMMA JournaledStep ==
  ASSUME JournalSuffices
  PROVE  Typed /\ Journaled /\ [Next]_vars => Journaled'
<1>1. Typed /\ Journaled /\ UNCHANGED vars => Journaled'
  BY DEF Journaled, vars, db, hubs, net, room, budgets
<1> QED
  BY <1>1, JournaledCore, JournaledAgent, JournaledEnvironment DEF Next

\* However often connections, the agent and Core fail, a command runs once,
\* plus at most once more for every crash of the agent.
THEOREM RunsAreBounded ==
  ASSUME JournalSuffices
  PROVE  Spec => []ExecutionBound
<1>1. Typed /\ Journaled => ExecutionBound
  BY BoundsAssumption DEF Typed, TypeOK, Journaled, ExecutionBound
<1>2. JournalSuffices /\ Typed /\ Journaled /\ [Next]_vars => Typed' /\ Journaled'
  BY TypedStep, JournaledStep
<1> QED
  BY <1>1, <1>2, TypedInit, JournaledInit, JournaledStep, TypedStep, PTL DEF Spec

\* Core reports no result but the journalled one of a command that was run.
THEOREM ReportsAreRecorded ==
  ASSUME JournalSuffices
  PROVE  Spec => []ReportedIsRecorded
<1>1. Typed /\ Journaled => ReportedIsRecorded
  BY DEF Journaled, ReportedIsRecorded, Outcomes, None
<1> QED
  BY <1>1, TypedInit, JournaledInit, JournaledStep, TypedStep, PTL DEF Spec

-----------------------------------------------------------------------------
(* What a step may do to the rows of the command table.                    *)

LEMMA StatusForms ==
  ASSUME Typed, [Next]_vars
  PROVE  \/ status' = status
         \/ status' = Expired
         \/ \E c \in Cmds : status[c] = None /\ status' = [Expired EXCEPT ![c] = "queued"]
         \/ \E c \in Cmds : status' = Delivered(c)
         \/ \E c \in Cmds, r \in Outcomes : status' = Completed(c, r)
<1>0. TypeOK /\ Shape
  BY DEF Typed
<1>1. ASSUME NEW k \in Conns, SendDone(k) PROVE \E c \in Cmds : status' = Delivered(c)
  <2>1. line \in [Conns -> Seq(Entry)] /\ line[k] # <<>>
    BY <1>0, <1>1 DEF Shape, TypeOK, Entry, SendDone
  <2>2. Head(line[k]) \in Entry
    BY <2>1, QueueOps
  <2>3. Head(line[k]).cmd \in Cmds
    BY <2>2 DEF Entry
  <2> QED
    BY <1>1, <2>3 DEF SendDone
<1>2. ASSUME NEW k \in Conns, Receive(k)
      PROVE  \E c \in Cmds, r \in Outcomes : status' = Completed(c, r)
  <2>1. up \in [Conns -> Seq(Message)] /\ up[k] # <<>>
    BY <1>0, <1>2 DEF TypeOK, Message, Receive
  <2>2. Head(up[k]) \in Message
    BY <2>1, QueueOps
  <2>3. Head(up[k]).cmd \in Cmds /\ Head(up[k]).res \in Outcomes
    BY <2>2 DEF Message
  <2> QED
    BY <1>2, <2>3 DEF Receive
<1>3. CASE CoreStep
  <2>1. PICK k \in Conns : \/ Register(k) \/ Snapshot(k) \/ ReplayEnds(k)
                           \/ \E c \in Cmds : Replay(k, c)
                           \/ Write(k) \/ SendDone(k) \/ SendFailed(k)
                           \/ Receive(k) \/ Notify(k)
                           \/ CoreNotices(k) \/ OtherSendFails(k) \/ HandlerExits(k)
    BY <1>3 DEF CoreStep
  <2>2. CASE ~(SendDone(k) \/ Receive(k))
    BY <2>1, <2>2 DEF Register, Snapshot, ReplayEnds, Replay, Write, SendFailed, Notify,
       CoreNotices, OtherSendFails, HandlerExits, db
  <2> QED
    BY <1>1, <1>2, <2>2
<1>4. CASE AgentStep
  BY <1>4 DEF AgentStep, AgentConnects, AnswerFromJournal, Execute, Record, SendResult,
     AgentNotices, db
<1>5. CASE Environment
  BY <1>5 DEF Environment, Create, Lapse, ReadCommands, LinkBreaks, AgentCrashes,
     CoreCrashes, db
<1>6. CASE UNCHANGED vars
  BY <1>6 DEF vars, db
<1> QED
  BY <1>3, <1>4, <1>5, <1>6 DEF Next

\* The outcome of a command is final, in whatever order markings, results and
\* repeated results arrive.
THEOREM TerminalStays == Spec => TerminalIsStable
<1>1. Typed /\ [Next]_vars => [\A c \in Cmds : status[c] \in Terminal => status'[c] = status[c]]_vars
  <2> SUFFICES ASSUME Typed, [Next]_vars, NEW c \in Cmds, status[c] \in Terminal
               PROVE  status'[c] = status[c]
    OBVIOUS
  <2> QED
    BY StatusForms DEF Typed, TypeOK, Terminal, Expired, Delivered, Completed, Statuses,
       Pending, Outcomes, None
<1> QED
  BY <1>1, TypedInit, TypedStep, PTL DEF Spec, TerminalIsStable

\* A command whose lifetime has passed is never completed any more.
THEOREM LateResultsRefused == Spec => LateResultRefused
<1>1. Typed /\ [Next]_vars => [\A c \in Cmds : status[c] \in Pending /\ c \in lapsed
                                  => status'[c] \notin Outcomes]_vars
  <2> SUFFICES ASSUME Typed, [Next]_vars, NEW c \in Cmds, status[c] \in Pending, c \in lapsed
               PROVE  status'[c] \notin Outcomes
    OBVIOUS
  <2> QED
    BY StatusForms DEF Typed, TypeOK, Expired, Delivered, Completed, Statuses, Pending,
       Outcomes, None
<1> QED
  BY <1>1, TypedInit, TypedStep, PTL DEF Spec, LateResultRefused

-----------------------------------------------------------------------------
(* The transport implements its contract.                                  *)

Issued == {c \in Cmds : status[c] # None}
Sending(k) == {e.cmd : e \in Elements(line[k])}

\* Only commands with a row in the table are on their way to the agent.
Submitted ==
  /\ \A k \in Conns : todo[k] \cup Sending(k) \cup Elements(down[k]) \subseteq Issued
  /\ agent = "executed" => current \in Issued

LEMMA SubmittedInit == Init => Submitted
  BY DEF Init, Submitted, Sending, Elements

LEMMA IssuedGrows ==
  ASSUME Typed, [Next]_vars
  PROVE  Issued \subseteq Issued'
<1> SUFFICES ASSUME NEW c \in Cmds, status[c] # None PROVE status'[c] # None
  BY DEF Issued
<1> QED
  BY StatusForms DEF Typed, TypeOK, Expired, Delivered, Completed, Statuses, Pending,
     Outcomes, None

\* Steps that put nothing new on the way.
LEMMA NothingNewSent ==
  ASSUME Typed, Submitted, [Next]_vars,
         \A k \in Conns : /\ todo'[k] \subseteq Issued'
                          /\ Elements(line'[k]) \subseteq Elements(line[k])
                          /\ Elements(down'[k]) \subseteq Elements(down[k]),
         agent' = "executed" => agent = "executed" /\ current' = current
  PROVE  Submitted'
<1>1. Issued \subseteq Issued'
  BY IssuedGrows
<1>2. \A k \in Conns : Sending(k)' \subseteq Sending(k)
  BY DEF Sending
<1> QED
  BY <1>1, <1>2 DEF Submitted

LEMMA SubmittedCore == Typed /\ Submitted /\ CoreStep => Submitted'
<1> SUFFICES ASSUME Typed, Submitted, CoreStep PROVE Submitted'
  OBVIOUS
<1>a. /\ [Next]_vars /\ Issued \subseteq Issued'
  BY IssuedGrows DEF Next
<1>b. PICK k \in Conns : \/ Register(k) \/ Snapshot(k) \/ ReplayEnds(k)
                         \/ \E c \in Cmds : Replay(k, c)
                         \/ Write(k) \/ SendDone(k) \/ SendFailed(k)
                         \/ Receive(k) \/ Notify(k)
                         \/ CoreNotices(k) \/ OtherSendFails(k) \/ HandlerExits(k)
  BY DEF CoreStep
<1>c. agent' = agent /\ current' = current
  BY <1>b DEF Register, Snapshot, ReplayEnds, Replay, Write, SendDone, SendFailed,
     Receive, Notify, CoreNotices, OtherSendFails, HandlerExits, room, budgets
<1>d. TypeOK
  BY DEF Typed
<1>e. /\ line \in [Conns -> Seq(Entry)] /\ down \in [Conns -> Seq(Cmds)]
      /\ todo \in [Conns -> SUBSET Cmds]
      /\ \A j \in Conns : todo[j] \subseteq Issued'
  BY <1>a, <1>d DEF TypeOK, Entry, Submitted
<1>1. CASE \/ Register(k) \/ ReplayEnds(k) \/ Receive(k) \/ Notify(k) \/ CoreNotices(k)
           \/ OtherSendFails(k) \/ HandlerExits(k)
  <2>1. UNCHANGED <<todo, line, down>>
    BY <1>1 DEF Register, ReplayEnds, Receive, Notify, CoreNotices, OtherSendFails,
       HandlerExits, net
  <2> QED
    BY <1>a, <1>c, <1>e, <2>1, NothingNewSent
<1>2. CASE Snapshot(k)
  <2>1. UNCHANGED <<line, down>> /\ todo' = [todo EXCEPT ![k] = PendingCommands]
        /\ status' = Expired
    BY <1>2 DEF Snapshot, net
  <2>2. PendingCommands \subseteq Issued'
    BY <2>1 DEF PendingCommands, Issued, Pending, None
  <2> QED
    BY <1>a, <1>c, <1>e, <2>1, <2>2, NothingNewSent
<1>3. CASE \E c \in Cmds : Replay(k, c)
  <2>1. PICK c \in Cmds : Replay(k, c)
    BY <1>3
  <2>2. c \in Issued /\ down' = down /\ todo' = [todo EXCEPT ![k] = @ \ {c}]
    BY <2>1 DEF Replay, Submitted, net
  <2>3. \A j \in Conns : todo'[j] \subseteq todo[j]
    BY <1>e, <2>2
  <2>4. CASE hub = NoConn
    <3>1. line' = line
      BY <2>1, <2>4 DEF Replay
    <3> QED
      BY <1>a, <1>c, <1>e, <2>2, <2>3, <3>1, NothingNewSent
  <2>5. CASE hub # NoConn
    <3> DEFINE e == [by |-> k, cmd |-> c]
    <3>1. hub \in Conns /\ line' = [line EXCEPT ![hub] = Append(@, e)] /\ e \in Entry
      BY <1>d, <2>1, <2>5 DEF Replay, Enqueue, TypeOK, Entry
    <3>2. Elements(Append(line[hub], e)) = Elements(line[hub]) \cup {e} /\ e.cmd = c
      BY <1>e, <3>1, QueueElements
    <3> HIDE DEF e
    <3>3. \A j \in Conns : Elements(line'[j]) \subseteq Elements(line[j]) \cup {e}
      BY <1>e, <3>1, <3>2
    <3>4. \A j \in Conns : Sending(j)' \subseteq Sending(j) \cup {c}
      BY <3>2, <3>3 DEF Sending
    <3> QED
      BY <1>a, <1>c, <2>2, <2>3, <3>4 DEF Submitted
  <2> QED
    BY <2>4, <2>5
<1>4. CASE Write(k)
  <2> DEFINE c == Head(line[k]).cmd
  <2>1. line[k] # <<>> /\ UNCHANGED <<todo, line>>
        /\ (down' = down \/ down' = [down EXCEPT ![k] = Append(@, c)])
    BY <1>4 DEF Write
  <2>2. Head(line[k]) \in Elements(line[k])
    BY <1>e, <2>1, QueueElements
  <2>3. c \in Sending(k)
    BY <2>2 DEF Sending
  <2>4. c \in Issued /\ c \in Cmds
    BY <2>3 DEF Submitted, Issued
  <2>5. Elements(Append(down[k], c)) = Elements(down[k]) \cup {c}
    BY <1>e, <2>4, QueueElements
  <2> HIDE DEF c
  <2>6. \A j \in Conns : Elements(down'[j]) \subseteq Elements(down[j]) \cup {c}
    BY <1>e, <2>1, <2>5
  <2>7. \A j \in Conns : Sending(j)' = Sending(j)
    BY <2>1 DEF Sending
  <2> QED
    BY <1>a, <1>c, <2>1, <2>4, <2>6, <2>7 DEF Submitted
<1>5. CASE SendDone(k) \/ SendFailed(k)
  <2>1. /\ line[k] # <<>> /\ line' = [line EXCEPT ![k] = Tail(@)]
        /\ UNCHANGED <<todo, down>>
    BY <1>5 DEF SendDone, SendFailed, Typed, Shape, net
  <2>2. Elements(Tail(line[k])) \subseteq Elements(line[k])
    BY <1>e, <2>1, QueueElements
  <2>3. \A j \in Conns : Elements(line'[j]) \subseteq Elements(line[j])
    BY <1>e, <2>1, <2>2
  <2> QED
    BY <1>a, <1>c, <1>e, <2>1, <2>3, NothingNewSent
<1> QED
  BY <1>b, <1>1, <1>2, <1>3, <1>4, <1>5

LEMMA SubmittedOthers == Typed /\ Submitted /\ (AgentStep \/ Environment) => Submitted'
<1> SUFFICES ASSUME Typed, Submitted, AgentStep \/ Environment PROVE Submitted'
  OBVIOUS
<1>a. /\ [Next]_vars /\ Issued \subseteq Issued'
  BY IssuedGrows DEF Next
<1>b. TypeOK
  BY DEF Typed
<1>c. /\ line \in [Conns -> Seq(Entry)] /\ down \in [Conns -> Seq(Cmds)]
      /\ todo \in [Conns -> SUBSET Cmds]
      /\ \A j \in Conns : todo[j] \subseteq Issued'
  BY <1>a, <1>b DEF TypeOK, Entry, Submitted
<1>1. CASE \E k \in Conns : AgentConnects(k)
  BY <1>1, <1>a, <1>c, NothingNewSent DEF AgentConnects, net
<1>2. CASE AnswerFromJournal \/ \E r \in Results : Execute(r)
  <2> DEFINE c == Head(down[session])
  <2>1. /\ session \in Conns /\ down[session] # <<>>
        /\ down' = [down EXCEPT ![session] = Tail(@)] /\ UNCHANGED <<todo, line>>
        /\ agent' = "executed" => current' = c
    BY <1>2 DEF AnswerFromJournal, Execute, Typed, Shape, hubs, room
  <2>2. c \in Elements(down[session]) /\ Elements(Tail(down[session])) \subseteq Elements(down[session])
    BY <1>c, <2>1, QueueElements
  <2>3. c \in Issued
    BY <2>1, <2>2 DEF Submitted
  <2> HIDE DEF c
  <2>4. \A j \in Conns : Elements(down'[j]) \subseteq Elements(down[j])
    BY <1>c, <2>1, <2>2
  <2>5. \A j \in Conns : Sending(j)' = Sending(j)
    BY <2>1 DEF Sending
  <2> QED
    BY <1>a, <2>1, <2>3, <2>4, <2>5 DEF Submitted
<1>3. CASE Record \/ SendResult \/ AgentNotices
  BY <1>3, <1>a, <1>c, NothingNewSent DEF Record, SendResult, AgentNotices, hubs, net
<1>4. CASE \E c \in Cmds : Create(c)
  <2>1. PICK c \in Cmds : Create(c)
    BY <1>4
  <2>2. /\ UNCHANGED <<todo, down, agent, current>>
        /\ status' = [Expired EXCEPT ![c] = "queued"]
    BY <2>1 DEF Create, net, room
  <2>3. c \in Issued'
    BY <1>b, <2>2, ExpiredType DEF Issued, None
  <2>4. CASE hub = NoConn
    <3>1. line' = line
      BY <2>1, <2>4 DEF Create
    <3> QED
      BY <1>a, <1>c, <2>2, <3>1, NothingNewSent
  <2>5. CASE hub # NoConn
    <3> DEFINE e == [by |-> Http, cmd |-> c]
    <3>1. hub \in Conns /\ line' = [line EXCEPT ![hub] = Append(@, e)] /\ e \in Entry
      BY <1>b, <2>1, <2>5 DEF Create, Enqueue, TypeOK, Entry
    <3>2. Elements(Append(line[hub], e)) = Elements(line[hub]) \cup {e} /\ e.cmd = c
      BY <1>c, <3>1, QueueElements
    <3> HIDE DEF e
    <3>3. \A j \in Conns : Elements(line'[j]) \subseteq Elements(line[j]) \cup {e}
      BY <1>c, <3>1, <3>2
    <3>4. \A j \in Conns : Sending(j)' \subseteq Sending(j) \cup {c}
      BY <3>2, <3>3 DEF Sending
    <3> QED
      BY <1>a, <1>c, <2>2, <2>3, <3>4 DEF Submitted
  <2> QED
    BY <2>4, <2>5
<1>5. CASE (\E c \in Cmds : Lapse(c)) \/ ReadCommands
  BY <1>5, <1>a, <1>c, NothingNewSent DEF Lapse, ReadCommands, hubs, net, room
<1>6. CASE \E k \in Conns : LinkBreaks(k)
  <2>1. PICK k \in Conns : LinkBreaks(k)
    BY <1>6
  <2>2. \A j \in Conns : Elements(down'[j]) \subseteq Elements(down[j])
    BY <1>c, <2>1 DEF LinkBreaks, Elements
  <2> QED
    BY <1>a, <1>c, <2>1, <2>2, NothingNewSent DEF LinkBreaks, hubs, room
<1>7. CASE AgentCrashes
  BY <1>7, <1>a, <1>c, NothingNewSent DEF AgentCrashes, hubs, net
<1>8. CASE CoreCrashes
  <2>1. \A j \in Conns : todo'[j] = {} /\ Elements(line'[j]) = {}
    BY <1>8 DEF CoreCrashes, Elements
  <2> QED
    BY <1>8, <1>a, <2>1, NothingNewSent DEF CoreCrashes, room
<1> QED
  BY <1>1, <1>2, <1>3, <1>4, <1>5, <1>6, <1>7, <1>8 DEF AgentStep, Environment

LEMMA SubmittedStep == Typed /\ Submitted /\ [Next]_vars => Submitted'
<1>1. Submitted /\ UNCHANGED vars => Submitted'
  BY DEF Submitted, Sending, Issued, vars, db, hubs, net, room
<1> QED
  BY <1>1, SubmittedCore, SubmittedOthers DEF Next

LEMMA ContractInit == Init => Contract!Init
  BY DEF Init, Contract!Init, Reported, Cmds, Contract!Cmds, Pending, None

\* Expiring the rows expires the reports, and marking a row shows in none.
LEMMA ReportSteps ==
  ASSUME TypeOK
  PROVE  /\ status' = Expired => Reported' = Contract!Expiring
         /\ \A c \in Cmds : status' = Delivered(c) => Reported' = Contract!Expiring
<1> DEFINE reports == [c \in Cmds |-> IF Expired[c] \in Pending THEN "pending" ELSE Expired[c]]
<1>1. reports = Contract!Expiring
  BY DEF TypeOK, Reported, Contract!Expiring, Cmds, Contract!Cmds, Expired, Statuses,
     Pending, Outcomes, None
<1>2. status' = Expired => Reported' = reports
  BY DEF Reported
<1>3. ASSUME NEW c \in Cmds, status' = Delivered(c) PROVE Reported' = reports
  <2>1. Expired \in [Cmds -> Statuses]
    BY ExpiredType
  <2>2. \A d \in Cmds : status'[d] = IF d = c /\ Expired[d] \in Pending THEN "delivered"
                                     ELSE Expired[d]
    BY <1>3, <2>1 DEF Delivered
  <2> QED
    BY <2>2 DEF Reported, Pending
<1> QED
  BY <1>1, <1>2, <1>3

LEMMA ContractStep ==
  ASSUME JournalSuffices, Typed, Journaled, Submitted, [Next]_vars
  PROVE  [Contract!Next]_<<Reported, journal, lapsed>>
<1>0. TypeOK
  BY DEF Typed
<1> USE DEF Contract!Next
<1>1. CASE \E c \in Cmds : Create(c)
  <2>1. PICK c \in Cmds : Create(c)
    BY <1>1
  <2>2. /\ status[c] = None /\ status' = [Expired EXCEPT ![c] = "queued"]
        /\ UNCHANGED <<journal, lapsed>>
    BY <2>1 DEF Create, room
  <2>3. Reported[c] = "none"
    BY <2>2 DEF Reported, Pending, None
  <2>4. Reported' = [Contract!Expiring EXCEPT ![c] = "pending"]
    BY <1>0, <2>2 DEF TypeOK, Reported, Contract!Expiring, Cmds, Contract!Cmds, Expired,
       Statuses, Pending, Outcomes, None
  <2>5. Contract!Accept(c)
    BY <2>2, <2>3, <2>4 DEF Contract!Accept
  <2> QED
    BY <2>5 DEF Cmds, Contract!Cmds
<1>2. CASE \E c \in Cmds : Lapse(c)
  <2>1. PICK c \in Cmds : Lapse(c)
    BY <1>2
  <2>2. Contract!LifetimePasses(c)
    BY <2>1 DEF Lapse, Contract!LifetimePasses, Reported, Pending, room
  <2> QED
    BY <2>2 DEF Cmds, Contract!Cmds
<1>3. CASE ReadCommands \/ \E k \in Conns : Snapshot(k)
  <2>1. status' = Expired /\ UNCHANGED <<journal, lapsed>>
    BY <1>3 DEF ReadCommands, Snapshot, room
  <2>2. Contract!Expire
    BY <1>0, <2>1, ReportSteps DEF Contract!Expire
  <2> QED
    BY <2>2
<1>4. CASE \E k \in Conns : SendDone(k)
  <2>1. PICK k \in Conns : SendDone(k)
    BY <1>4
  <2>2. line \in [Conns -> Seq(Entry)] /\ line[k] # <<>>
    BY <2>1 DEF Typed, Shape, TypeOK, Entry, SendDone
  <2>3. Head(line[k]) \in Entry
    BY <2>2, QueueOps
  <2>4. Head(line[k]).cmd \in Cmds
    BY <2>3 DEF Entry
  <2>5. status' = Delivered(Head(line[k]).cmd) /\ UNCHANGED <<journal, lapsed>>
    BY <2>1 DEF SendDone, room
  <2>6. Contract!Expire
    BY <1>0, <2>4, <2>5, ReportSteps DEF Contract!Expire
  <2> QED
    BY <2>6
<1>5. CASE \E k \in Conns : Receive(k)
  <2>1. PICK k \in Conns : Receive(k)
    BY <1>5
  <2> DEFINE m == Head(up[k])
             c == m.cmd
  <2>2. up \in [Conns -> Seq(Message)] /\ up[k] # <<>>
    BY <1>0, <2>1 DEF TypeOK, Message, Receive
  <2>3. m \in Message /\ m \in Elements(up[k])
    BY <2>2, QueueElements, QueueOps
  <2>4. c \in Cmds /\ m.res \in Outcomes /\ journal[c] = m.res
    BY <2>3 DEF Message, Journaled
  <2>5. status' = Completed(c, m.res) /\ UNCHANGED <<journal, lapsed>>
    BY <2>1 DEF Receive, room
  <2> HIDE DEF m
  <2>6. CASE Expired[c] \in Pending
    <3>1. Reported[c] = "pending" /\ c \notin lapsed /\ journal[c] # "none"
      BY <1>0, <2>4, <2>6 DEF TypeOK, Reported, Expired, Pending, Outcomes
    <3>2. Reported' = [Contract!Expiring EXCEPT ![c] = journal[c]]
      BY <1>0, <2>4, <2>5, <2>6 DEF TypeOK, Reported, Contract!Expiring, Cmds,
         Contract!Cmds, Expired, Completed, Statuses, Pending, Outcomes, None
    <3>3. Contract!Report(c)
      BY <2>5, <3>1, <3>2 DEF Contract!Report
    <3> QED
      BY <2>4, <3>3 DEF Cmds, Contract!Cmds
  <2>7. CASE Expired[c] \notin Pending
    <3>1. status' = Expired \/ status' = status
      BY <1>0, <2>4, <2>5, <2>7, ExpiredType DEF Completed
    <3>2. status' = Expired => Contract!Expire
      BY <1>0, <2>5, ReportSteps DEF Contract!Expire
    <3>3. status' = status => UNCHANGED <<Reported, journal, lapsed>>
      BY <2>5 DEF Reported
    <3> QED
      BY <3>1, <3>2, <3>3
  <2> QED
    BY <2>6, <2>7
<1>6. CASE Record
  <2>1. agent = "executed" /\ current \in Cmds /\ outcome \in Outcomes
    BY <1>6 DEF Record, Typed, Shape
  <2>2. journal' = [journal EXCEPT ![current] = IF @ = None THEN outcome ELSE @]
    BY <1>6, <2>1, RecordedAddsOne DEF Record
  <2>3. journal[current] = None /\ status[current] # None
    BY <2>1 DEF Journaled, Submitted, Issued
  <2>4. journal' = [journal EXCEPT ![current] = outcome]
    BY <1>0, <2>2, <2>3 DEF TypeOK
  <2>5. UNCHANGED <<status, lapsed>>
    BY <1>6 DEF Record, db
  <2>6. Reported[current] # "none"
    BY <1>0, <2>1, <2>3 DEF TypeOK, Reported, Pending, None
  <2>7. Contract!Decide(current, outcome)
    BY <2>3, <2>4, <2>5, <2>6 DEF Contract!Decide, None, Reported
  <2> QED
    BY <2>1, <2>7 DEF Cmds, Contract!Cmds, Outcomes, Contract!Outcomes
<1>7. CASE UNCHANGED <<status, journal, lapsed>>
  BY <1>7 DEF Reported
<1>8. CASE CoreStep
  <2>1. PICK k \in Conns : \/ Register(k) \/ Snapshot(k) \/ ReplayEnds(k)
                           \/ \E c \in Cmds : Replay(k, c)
                           \/ Write(k) \/ SendDone(k) \/ SendFailed(k)
                           \/ Receive(k) \/ Notify(k)
                           \/ CoreNotices(k) \/ OtherSendFails(k) \/ HandlerExits(k)
    BY <1>8 DEF CoreStep
  <2>2. CASE ~(Snapshot(k) \/ SendDone(k) \/ Receive(k))
    BY <1>7, <2>1, <2>2 DEF Register, ReplayEnds, Replay, Write, SendFailed, Notify,
       CoreNotices, OtherSendFails, HandlerExits, db, room
  <2> QED
    BY <1>3, <1>4, <1>5, <2>2
<1>9. CASE AgentStep
  <2>1. CASE ~Record
    BY <1>7, <1>9, <2>1 DEF AgentStep, AgentConnects, AnswerFromJournal, Execute,
       SendResult, AgentNotices, db, room
  <2> QED
    BY <1>6, <2>1
<1>10. CASE Environment
  <2>1. CASE ~(ReadCommands \/ \E c \in Cmds : Create(c) \/ Lapse(c))
    BY <1>7, <1>10, <2>1 DEF Environment, LinkBreaks, AgentCrashes, CoreCrashes, db, room
  <2> QED
    BY <1>1, <1>2, <1>3, <2>1
<1>11. CASE UNCHANGED vars
  BY <1>7, <1>11 DEF vars, db, room
<1> QED
  BY <1>8, <1>9, <1>10, <1>11 DEF Next

\* Whatever connections, replays and restarts do, the transport behaves like
\* its contract: an outcome is decided once and only that outcome is reported.
THEOREM ImplementsContract ==
  ASSUME JournalSuffices
  PROVE  Spec => ContractSpec
<1>1. Typed /\ Journaled /\ Submitted /\ [Next]_vars
        => [Contract!Next]_<<Reported, journal, lapsed>>
  BY ContractStep
<1>2. Typed /\ Journaled /\ Submitted /\ [Next]_vars => [Contract!Next]_(Contract!vars)
  BY <1>1 DEF Contract!vars
<1> QED
  BY <1>2, ContractInit, TypedInit, JournaledInit, SubmittedInit, TypedStep, JournaledStep,
     SubmittedStep, PTL DEF Spec, ContractSpec, Contract!Spec
=============================================================================
