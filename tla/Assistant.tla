------------------------------- MODULE Assistant -------------------------------
(***************************************************************************)
(* The conversation engine.  A request is resolved to a session, remembers   *)
(* which light the exchange before it changed, and then waits in turn for    *)
(* Home Assistant, for the language model and for the tools the model calls; *)
(* other requests of the same session, its end or its expiry may come in     *)
(* between.  An exchange is stored in one go when the reply is known.        *)
(***************************************************************************)
EXTENDS Naturals, Sequences, SequencesExt

CONSTANTS
  Lights,     \* lights a governed action may change
  Texts,      \* what may be said, as Text makes it
  RoomLights, \* session -> the lights "the lights" may mean in its room
  Sessions,   \* conversation sessions
  Requests,   \* requests that may be under way at once
  MaxTurns,   \* conversation_max_turns
  MaxCalls,   \* tool calls of one request
  MaxTalks    \* requests

None == "none"
\* What the classifiers at the top of conversation.py make of a text: a secured
\* entry or a light change that is negated, hypothetical or too broad; a change,
\* that may mention lights and may refer back by a pronoun; anything else.  It
\* names the lights a phrase of which it holds, those that a query made of its
\* own words finds, and those of another room it names.
Text(class, mentions, refers, names) ==
  [class |-> class, mentions |-> mentions, refers |-> refers, names |-> names]
Chat == Text("chat", FALSE, FALSE, {})
\* Tools that read the home's catalogue, the light tool, and the other tools that
\* act: control_home, play_music and control_media.
Tools == {"catalogue", "control_light", "act"}
Acting == {"control_light", "act"}

BoundsAssumption ==
  /\ None \notin Lights \cup Sessions
  /\ Texts \subseteq [class: {"refused", "change", "chat"}, mentions: BOOLEAN, refers: BOOLEAN,
                      names: SUBSET Lights]
  /\ RoomLights \in [Sessions -> SUBSET Lights]
  /\ {MaxTurns, MaxCalls, MaxTalks} \subseteq Nat

VARIABLES
  sessions,   \* conversation_sessions and their conversation_turns
  asked,      \* request -> where it is and what it holds
  last,       \* history: session -> the light its latest exchange changed
  talks

vars == <<sessions, asked, last, talks>>

Turn(role, tool, light, ok) == [role |-> role, tool |-> tool, light |-> light, ok |-> ok]
Call(tool, light, ok) == [tool |-> tool, light |-> light, ok |-> ok]
Idle == [phase |-> "idle", session |-> None, text |-> Chat,
         referent |-> None, speech |-> FALSE, calls |-> <<>>, tool |-> None,
         heard |-> None, touched |-> <<>>, reply |-> None]
Free == [status |-> "free", turns |-> <<>>]

TurnRows == [role: {"user", "tool", "assistant"}, tool: Tools \cup {None},
             light: Lights \cup {None}, ok: BOOLEAN]
Calls == [tool: Tools, light: Lights \cup {None}, ok: BOOLEAN]
Exchanges == [phase: {"idle", "home", "model", "tool"}, session: Sessions \cup {None}, text: Texts \cup {Chat},
              referent: Lights \cup {None}, speech: BOOLEAN, calls: Seq(Calls),
              tool: Tools \cup {None}, heard: Lights \cup {None}, touched: Seq(Lights),
              reply: {None, "given", "denied"}]

TypeOK ==
  /\ sessions \in [Sessions -> [status: {"free", "active", "closed"}, turns: Seq(TurnRows)]]
  /\ \A s \in Sessions : Len(sessions[s].turns) <= MaxTurns
  /\ last \in [Sessions -> Lights \cup {None}]
  /\ asked \in [Requests -> Exchanges]
  /\ \A q \in Requests : Len(asked[q].calls) <= MaxCalls
  /\ talks \in 0..MaxTalks

Init ==
  /\ sessions = [s \in Sessions |-> Free] /\ asked = [q \in Requests |-> Idle]
  /\ last = [s \in Sessions |-> None] /\ talks = 0

-----------------------------------------------------------------------------
(* Sessions and their turns                                                *)

\* A control_light that was called, whatever came of it.
IsLight(turn) == turn.role = "tool" /\ turn.tool = "control_light"

\* Mutant: the latest light that was changed, however long ago.
LightEverChanged(turns) ==
  LET found == {i \in DOMAIN turns : IsLight(turns[i]) /\ turns[i].ok} IN
  IF found = {} THEN None
  ELSE turns[CHOOSE i \in found : \A j \in found : j <= i].light

\* The turns that _recent_light_referent looks at.
Recalled == 8

\* Back to the last user turn, the first call of the light tool.
Referent(turns) ==
  LET marks == {i \in DOMAIN turns : /\ Len(turns) < i + Recalled
                                     /\ turns[i].role = "user" \/ IsLight(turns[i])} IN
  IF marks = {} THEN None
  ELSE LET t == turns[CHOOSE i \in marks : \A j \in marks : j <= i]
       IN IF t.role = "tool" /\ t.ok THEN t.light ELSE None

\* Mutant: one turn too many is kept.
KeptOneMore(turns) == SubSeq(turns, IF Len(turns) > MaxTurns THEN Len(turns) - MaxTurns ELSE 1, Len(turns))

\* append_conversation_turn keeps the newest turns.
Kept(turns) == SubSeq(turns, IF Len(turns) > MaxTurns THEN Len(turns) - MaxTurns + 1 ELSE 1, Len(turns))

\* What _record_exchange and _record_reasoned_exchange append.
Exchange(calls) ==
  <<Turn("user", None, None, TRUE)>>
    \o [i \in DOMAIN calls |-> IF calls[i].tool = "control_light"
                               THEN Turn("tool", "control_light", calls[i].light, calls[i].ok)
                               ELSE Turn("tool", None, None, FALSE)]
    \o <<Turn("assistant", None, None, TRUE)>>

\* The light an exchange changed, as far as its audit says.
Changed(calls) ==
  LET done == {c \in ToSet(calls) : c.tool = "control_light" /\ c.ok} IN
  IF done = {} THEN None ELSE (CHOOSE c \in done : TRUE).light

\* The reply is stored and returned; a session that has been closed in the
\* meantime is a KeyError, and nothing is stored.
Conclude(q, a, calls, reply) ==
  LET s == a.session IN
  IF sessions[s].status = "active"
  THEN /\ sessions' = [sessions EXCEPT ![s].turns = Kept(@ \o Exchange(calls))]
       /\ last' = [last EXCEPT ![s] = Changed(a.calls)]
       /\ asked' = [asked EXCEPT ![q] = [Idle EXCEPT !.reply = reply]]
  ELSE /\ asked' = [asked EXCEPT ![q] = Idle]
       /\ UNCHANGED <<sessions, last>>

Continue(q, a) == asked' = [asked EXCEPT ![q] = a] /\ UNCHANGED <<sessions, last>>

\* Nothing is stored: no provider answered, or the session is gone.
GiveUp(q) == Continue(q, Idle)

-----------------------------------------------------------------------------
(* ConversationEngine.respond                                              *)

\* Mutant: a pronoun is enough.
GovernedByPronoun(a) == a.text.class = "change" /\ (a.text.mentions \/ a.text.refers)

\* _required_action_tool
Governed(a) ==
  a.text.class = "change" /\ (a.text.mentions \/ (a.text.refers /\ a.referent # None))

\* A governed request is the model's alone; Home Assistant is asked first otherwise.
Routed(a) == [a EXCEPT !.phase = IF Governed(a) THEN "model" ELSE "home"]

\* resolve_conversation_session finds the session asked for, or opens one where
\* that is unknown, no longer active, another room's or another device's; the
\* text is classified before anything is awaited.
Begin(q, s, text) ==
  /\ asked[q].phase = "idle" /\ talks < MaxTalks /\ talks' = talks + 1
  /\ LET a == [Idle EXCEPT !.session = s, !.text = text,
                           !.referent = Referent(sessions[s].turns), !.heard = last[s]]
         b == Routed(a)
     IN \/ /\ sessions[s].status = "active" /\ text.class # "refused" /\ Continue(q, b)
        \/ sessions[s].status = "active" /\ text.class = "refused" /\ Conclude(q, a, <<>>, "given")
        \/ /\ sessions[s].status = "free" /\ text.class # "refused" /\ UNCHANGED last
           /\ sessions' = [sessions EXCEPT ![s].status = "active"]
           /\ asked' = [asked EXCEPT ![q] = b]
        \/ /\ sessions[s].status = "free" /\ text.class = "refused" /\ UNCHANGED last
           /\ sessions' = [sessions EXCEPT ![s] = [status |-> "active",
                                                   turns |-> Kept(Exchange(<<>>))]]
           /\ asked' = [asked EXCEPT ![q] = [Idle EXCEPT !.reply = "given"]]

\* Home Assistant's agent understands the text, acts and answers.
HomeAnswers(q) ==
  /\ asked[q].phase = "home" /\ Conclude(q, asked[q], asked[q].calls, "given") /\ UNCHANGED talks

\* It does not understand, or cannot be reached; with the id of its conversation
\* to be stored, a closed session is a KeyError.
HomeDoesNot(q) ==
  /\ asked[q].phase = "home"
  /\ \E speech \in BOOLEAN :
       IF speech /\ sessions[asked[q].session].status # "active"
       THEN GiveUp(q)
       ELSE Continue(q, [asked[q] EXCEPT !.phase = "model", !.speech = speech])
  /\ UNCHANGED talks

\* The model's answer in words.
ModelAnswers(q) ==
  /\ asked[q].phase = "model" /\ Conclude(q, asked[q], asked[q].calls, "given") /\ UNCHANGED talks

\* Mutant: a failure is a failure, whatever was done before it.
WithoutFallback(a) == FALSE

\* _deterministic_light_response
HasFallback(a) == Changed(a.calls) # None

\* What is said without the model.
WithoutModel(q, a) ==
  \/ HasFallback(a) /\ Conclude(q, a, a.calls, "given")
  \/ ~HasFallback(a) /\ Governed(a) /\ Conclude(q, a, <<>>, "denied")
  \/ ~HasFallback(a) /\ ~Governed(a) /\ a.speech /\ Conclude(q, a, <<>>, "given")
  \/ ~HasFallback(a) /\ ~Governed(a) /\ ~a.speech /\ GiveUp(q)

\* The model is not configured, none of its backends answers with something
\* usable, or it wants more calls than it may make.
ModelFails(q) ==
  /\ asked[q].phase = "model" /\ WithoutModel(q, asked[q]) /\ UNCHANGED talks

Used(a, tools) == \E c \in ToSet(a.calls) : c.tool \in tools

\* Mutant: a light action that failed may be tried again.
BlockedOnSuccess(a, tool) ==
  \/ Used(a, {"catalogue"}) /\ tool \in Acting
  \/ tool = "control_light" /\ Changed(a.calls) # None

\* The calls that the loop of _reason refuses by itself.
Blocked(a, tool) ==
  \/ Used(a, {"catalogue"}) /\ tool \in Acting
  \/ tool = "control_light" /\ Used(a, {"control_light"})

\* A tool that only reads, or any that was refused.
NothingDone(a, tool) == [a EXCEPT !.phase = "model", !.tool = None,
                                  !.calls = Append(@, Call(tool, None, FALSE))]

\* The model calls a tool, alone or with others in one message.
ModelCalls(q, tool) ==
  /\ asked[q].phase = "model" /\ Len(asked[q].calls) < MaxCalls /\ UNCHANGED talks
  /\ LET a == asked[q] IN
     IF tool = "catalogue" \/ Blocked(a, tool)
     THEN Continue(q, NothingDone(a, tool))
     ELSE Continue(q, [a EXCEPT !.phase = "tool", !.tool = tool])

\* AssistantTools.execute and _resolve_light: the light is named in the text; or a
\* governed request asks for the room's lights by generic words, its own or the
\* model's, or for the light a pronoun refers to.
Grounded(a, light) ==
  \/ a.text.class = "change" /\ light \in a.text.names
  \/ Governed(a) /\ light \in RoomLights[a.session]
  \/ Governed(a) /\ a.text.refers /\ light = a.referent

\* A light call that reaches nothing: not grounded, not authorised, ambiguous.
LightRefused(q) ==
  /\ asked[q].phase = "tool" /\ asked[q].tool = "control_light" /\ UNCHANGED talks
  /\ Continue(q, NothingDone(asked[q], "control_light"))

\* The governed action reaches Home Assistant; read back, it may count as failed.
LightActs(q, light) ==
  /\ asked[q].phase = "tool" /\ asked[q].tool = "control_light" /\ UNCHANGED talks
  /\ Grounded(asked[q], light)
  /\ \E ok \in BOOLEAN :
       Continue(q, [asked[q] EXCEPT !.phase = "model", !.tool = None, !.touched = Append(@, light),
                                    !.calls = Append(@, Call("control_light", light, ok))])

\* control_home has acted or was refused, as where the text is about a light; it
\* may bring a conversation id to be stored, a KeyError where the session is closed.
HomeActs(q) ==
  /\ asked[q].phase = "tool" /\ asked[q].tool = "act" /\ UNCHANGED talks
  /\ \/ Continue(q, NothingDone(asked[q], "act"))
     \/ sessions[asked[q].session].status # "active" /\ GiveUp(q)

\* Music was played or controlled, or refused: a track nobody has searched for.
MediaActs(q) ==
  /\ asked[q].phase = "tool" /\ asked[q].tool = "act" /\ UNCHANGED talks
  /\ Continue(q, NothingDone(asked[q], "act"))

-----------------------------------------------------------------------------
(* What happens in between                                                 *)

\* An administrator ends it, or nothing was said for the time to live.
CloseSession(s) ==
  /\ sessions[s].status = "active"
  /\ sessions' = [sessions EXCEPT ![s].status = "closed"]
  /\ UNCHANGED <<asked, last, talks>>

\* Core stops, perhaps when only some turns of an exchange have been stored.
Crash(q, n) ==
  LET a == asked[q]
      s == a.session
      torn == SubSeq(Exchange(a.calls), 1, n) IN
  /\ a.phase = "model" /\ n \in 0..Len(Exchange(a.calls)) - 1
  /\ asked' = [r \in Requests |-> Idle] /\ UNCHANGED talks
  /\ IF n > 0 /\ sessions[s].status = "active"
     THEN /\ sessions' = [sessions EXCEPT ![s].turns = Kept(@ \o torn)]
          /\ last' = [last EXCEPT ![s] = Changed(a.calls)]
     ELSE UNCHANGED <<sessions, last>>

-----------------------------------------------------------------------------
Next ==
  \/ \E q \in Requests :
       \/ \E s \in Sessions, t \in Texts : Begin(q, s, t)
       \/ HomeAnswers(q) \/ HomeDoesNot(q) \/ ModelAnswers(q) \/ ModelFails(q)
       \/ \E tool \in Tools : ModelCalls(q, tool)
       \/ LightRefused(q) \/ HomeActs(q) \/ MediaActs(q)
       \/ \E light \in Lights : LightActs(q, light)
       \/ \E n \in 0..MaxCalls + 1 : Crash(q, n)
  \/ \E s \in Sessions : CloseSession(s)
Spec == Init /\ [][Next]_vars

-----------------------------------------------------------------------------
\* What a request may change: a light its text names; the room's, if the text
\* mentions lights or refers back to the one that the exchange just before it in
\* the same session changed; and, by a pronoun, exactly that one.
Warranted(a, light) ==
  LET follows == a.text.refers /\ a.heard # None IN
  /\ a.text.class = "change"
  /\ \/ light \in a.text.names
     \/ (a.text.mentions \/ follows) /\ light \in RoomLights[a.session]
     \/ follows /\ light = a.heard

\* However requests of a session overlap and turns are torn or forgotten, a light
\* is changed only for a text that warrants it (_recent_light_referent,
\* _resolve_light).
FollowUpGrounded ==
  \A q \in Requests : \A light \in ToSet(asked[q].touched) : Warranted(asked[q], light)

\* Whatever fails after a light was changed, the reply does not say that nothing
\* was; and no request reaches for a light twice.
ActsOnceAndSaysSo ==
  [][\A q \in Requests :
       /\ asked'[q].reply = "denied" /\ asked[q].phase # "idle" => Changed(asked[q].calls) = None
       /\ Len(asked'[q].touched) <= 1]_vars
=============================================================================
