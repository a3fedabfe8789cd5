---------------------------- MODULE PilotCore_proofs ----------------------------
(***************************************************************************)
(* Proofs about components of Pilot Core, for all their constants: one       *)
(* section for each, with the invariant that its steps keep, and at the end  *)
(* the theorems about CoreSpec, in which a component that is not the one a   *)
(* behaviour is about rests.                                                *)
(***************************************************************************)
EXTENDS PilotCore, FiniteSetTheorems, WellFoundedInduction, NaturalsInduction,
        SequenceTheorems, TLAPS

-----------------------------------------------------------------------------
(* Who is let in (storage.py, api.py).                                      *)

\* What has not been used yet has let nobody in, and nothing two.
UsedUp ==
  /\ admitted \in [Grants \cup Tickets -> {0, 1}]
  /\ \A g \in Grants : grants[g] \in {"absent", "open"} => admitted[g] = 0
  /\ \A t \in Tickets : tickets[t] # "gone" => admitted[t] = 0

AccessInv == TypeOK /\ SessionIsCurrent /\ UsedUp

LEMMA AccessInit == ConstantsFit /\ Init => AccessInv
<1> SUFFICES ASSUME ConstantsFit, Init PROVE AccessInv
  OBVIOUS
<1>1. TypeOK
  BY DEF ConstantsFit, Init, TypeOK, Tokens, Free, NoStream, NoToken
<1>2. SessionIsCurrent /\ UsedUp
  BY DEF Init, SessionIsCurrent, UsedUp
<1> QED
  BY <1>1, <1>2 DEF AccessInv

\* A new token: the row's, and one more than were issued.
LEMMA Issuing ==
  ASSUME ConstantsFit, TypeOK, Issue
  PROVE  /\ device' \in [token: Tokens, revoked: BOOLEAN]
         /\ answer' \in Tokens /\ issued' \in Tokens
         /\ issued' >= device'.token
  BY DEF ConstantsFit, TypeOK, Issue, Tokens

\* Closing leaves the hub empty; keeping marks the socket it has.
LEMMA Closing ==
  ASSUME ConstantsFit, TypeOK, CloseSocket
  PROVE  /\ hub' = NoSocket
         /\ sockets' \in [Sockets -> [at: {"free", "accepting", "serving", "closing"},
                                      token: Tokens, late: BOOLEAN, kept: BOOLEAN]]
  BY DEF ConstantsFit, TypeOK, CloseSocket

LEMMA Keeping ==
  ASSUME ConstantsFit, TypeOK, KeepSocket
  PROVE  /\ hub' = hub
         /\ sockets' \in [Sockets -> [at: {"free", "accepting", "serving", "closing"},
                                      token: Tokens, late: BOOLEAN, kept: BOOLEAN]]
         /\ hub # NoSocket => sockets'[hub].at = "serving" /\ sockets'[hub].kept
<1>1. /\ hub \in Sockets \cup {NoSocket} /\ (hub # NoSocket => sockets[hub].at = "serving")
      /\ sockets \in [Sockets -> [at: {"free", "accepting", "serving", "closing"},
                                  token: Tokens, late: BOOLEAN, kept: BOOLEAN]]
  BY DEF TypeOK
<1>2. CASE hub = NoSocket
  BY <1>1, <1>2 DEF KeepSocket
<1>3. CASE hub # NoSocket
  <2>1. sockets' = [sockets EXCEPT ![hub].kept = TRUE] /\ hub' = hub
    BY <1>3 DEF KeepSocket
  <2> QED
    BY <1>1, <1>3, <2>1
<1> QED
  BY <1>2, <1>3

\* Every way to a new token keeps the invariant, whatever becomes of the socket.
LEMMA TokenSteps ==
  ASSUME ConstantsFit, AccessInv, Issue, UNCHANGED <<stream, held>>,
         CloseSocket \/ KeepSocket
  PROVE  /\ device' \in [token: Tokens, revoked: BOOLEAN]
         /\ hub' \in Sockets \cup {NoSocket}
         /\ sockets' \in [Sockets -> [at: {"free", "accepting", "serving", "closing"},
                                      token: Tokens, late: BOOLEAN, kept: BOOLEAN]]
         /\ answer' \in Tokens /\ issued' \in Tokens /\ issued' >= device'.token
         /\ hub' # NoSocket => sockets'[hub'].at = "serving"
         /\ SessionIsCurrent'
<1>1. /\ device' \in [token: Tokens, revoked: BOOLEAN]
      /\ answer' \in Tokens /\ issued' \in Tokens /\ issued' >= device'.token
  BY Issuing DEF AccessInv
<1>2. CASE CloseSocket
  BY <1>1, <1>2, Closing DEF AccessInv, SessionIsCurrent
<1>3. CASE KeepSocket
  <2>1. /\ hub' = hub
        /\ sockets' \in [Sockets -> [at: {"free", "accepting", "serving", "closing"},
                                     token: Tokens, late: BOOLEAN, kept: BOOLEAN]]
        /\ hub # NoSocket => sockets'[hub].at = "serving" /\ sockets'[hub].kept
    BY <1>3, Keeping DEF AccessInv
  <2> QED
    BY <1>1, <2>1 DEF AccessInv, TypeOK, SessionIsCurrent
<1> QED
  BY <1>2, <1>3

\* A step of a socket's handler: nothing is issued or used, and who is registered is current.
LEMMA SocketSteps ==
  ASSUME AccessInv, UNCHANGED <<device, access, stream, held, answer, issued>>,
         hub' \in Sockets \cup {NoSocket},
         sockets' \in [Sockets -> [at: {"free", "accepting", "serving", "closing"},
                                  token: Tokens, late: BOOLEAN, kept: BOOLEAN]],
         hub' # NoSocket =>
           /\ sockets'[hub'].at = "serving"
           /\ \/ Valid(sockets'[hub'].token)
              \/ sockets'[hub'].late \/ sockets'[hub'].kept
  PROVE  AccessInv'
<1>1. /\ UNCHANGED <<device, grants, tickets, admitted, stream, held, answer, issued>>
      /\ \A t : Valid(t)' <=> Valid(t)
  BY DEF access, Valid
<1>2. TypeOK'
  BY <1>1 DEF AccessInv, TypeOK
<1>3. UsedUp'
  BY <1>1 DEF AccessInv, UsedUp
<1>4. SessionIsCurrent'
  BY <1>1 DEF SessionIsCurrent, Valid
<1> QED
  BY <1>2, <1>3, <1>4 DEF AccessInv

LEMMA OpenKeeps ==
  ASSUME AccessInv, NEW s \in Sockets, OpenSocket(s) PROVE AccessInv'
<1>1. /\ hub' = hub /\ UNCHANGED <<device, access, stream, held, answer, issued>>
      /\ sockets' = [sockets EXCEPT ![s].at = "accepting", ![s].token = held]
      /\ sockets[s].at = "free" /\ held \in Tokens
  BY DEF OpenSocket, AccessInv, TypeOK
<1>2. /\ hub \in Sockets \cup {NoSocket} /\ (hub # NoSocket => sockets[hub].at = "serving")
      /\ sockets \in [Sockets -> [at: {"free", "accepting", "serving", "closing"},
                                  token: Tokens, late: BOOLEAN, kept: BOOLEAN]]
  BY DEF AccessInv, TypeOK
<1>3. sockets' \in [Sockets -> [at: {"free", "accepting", "serving", "closing"},
                                  token: Tokens, late: BOOLEAN, kept: BOOLEAN]]
  <2> DEFINE e == [sockets[s] EXCEPT !.at = "accepting", !.token = held]
  <2>1. e \in [at: {"free", "accepting", "serving", "closing"}, token: Tokens,
             late: BOOLEAN, kept: BOOLEAN]
    BY <1>1, <1>2
  <2>2. sockets' = [sockets EXCEPT ![s] = e]
    BY <1>1
  <2> HIDE DEF e
  <2> QED
    BY <1>2, <2>1, <2>2
<1>4. hub # NoSocket => sockets'[hub] = sockets[hub]
  BY <1>1, <1>2
<1>5. hub # NoSocket => \/ Valid(sockets[hub].token)
                         \/ sockets[hub].late \/ sockets[hub].kept
  BY DEF AccessInv, SessionIsCurrent
<1>6. hub' # NoSocket =>
        /\ sockets'[hub'].at = "serving"
        /\ \/ Valid(sockets'[hub'].token)
           \/ sockets'[hub'].late \/ sockets'[hub'].kept
  BY <1>1, <1>2, <1>4, <1>5
<1>7. hub' \in Sockets \cup {NoSocket}
  BY <1>1, <1>2
<1> QED
  BY <1>1, <1>3, <1>6, <1>7, SocketSteps

LEMMA AcceptedKeeps ==
  ASSUME AccessInv, NEW s \in Sockets, Accepted(s) PROVE AccessInv'
<1> DEFINE v == Valid(sockets[s].token)
<1>1. /\ hub' = s /\ UNCHANGED <<device, access, stream, held, answer, issued>>
      /\ sockets' = [x \in Sockets |->
                       IF x = s THEN [sockets[s] EXCEPT !.at = "serving", !.late = ~v]
                       ELSE IF x = hub THEN [sockets[x] EXCEPT !.at = "closing"]
                       ELSE sockets[x]]
  BY DEF Accepted
<1>2. v \in BOOLEAN
  BY DEF Valid
<1> HIDE DEF v
<1>3. sockets \in [Sockets -> [at: {"free", "accepting", "serving", "closing"},
                                  token: Tokens, late: BOOLEAN, kept: BOOLEAN]]
  BY DEF AccessInv, TypeOK
<1>4. sockets' \in [Sockets -> [at: {"free", "accepting", "serving", "closing"},
                                  token: Tokens, late: BOOLEAN, kept: BOOLEAN]]
  <2>1. ASSUME NEW x \in Sockets
        PROVE  sockets'[x] \in [at: {"free", "accepting", "serving", "closing"}, token: Tokens,
                               late: BOOLEAN, kept: BOOLEAN]
    <3>1. CASE x = s
      BY <1>1, <1>2, <1>3, <3>1
    <3>2. CASE x # s
      BY <1>1, <1>3, <3>2
    <3> QED
      BY <3>1, <3>2
  <2> QED
    BY <1>1, <2>1
<1>5. /\ sockets'[s].at = "serving" /\ sockets'[s].token = sockets[s].token
      /\ sockets'[s].late = ~v
  BY <1>1, <1>3
<1>6. Valid(sockets'[s].token) \/ sockets'[s].late
  BY <1>5 DEF v
<1>7. hub' \in Sockets \cup {NoSocket}
  BY <1>1
<1>8. hub' # NoSocket =>
        /\ sockets'[hub'].at = "serving"
        /\ \/ Valid(sockets'[hub'].token)
           \/ sockets'[hub'].late \/ sockets'[hub'].kept
  BY <1>1, <1>5, <1>6
<1> QED
  BY <1>1, <1>4, <1>7, <1>8, SocketSteps

LEMMA SocketEndKeeps ==
  ASSUME ConstantsFit, AccessInv, NEW s \in Sockets, SocketEnds(s) PROVE AccessInv'
<1>1. /\ hub' = (IF hub = s THEN NoSocket ELSE hub) /\ sockets' = [sockets EXCEPT ![s] = Free]
      /\ UNCHANGED <<device, access, stream, held, answer, issued>>
  BY DEF SocketEnds
<1>2. /\ hub \in Sockets \cup {NoSocket} /\ (hub # NoSocket => sockets[hub].at = "serving")
      /\ sockets \in [Sockets -> [at: {"free", "accepting", "serving", "closing"},
                                  token: Tokens, late: BOOLEAN, kept: BOOLEAN]]
  BY DEF AccessInv, TypeOK
<1>3. sockets' \in [Sockets -> [at: {"free", "accepting", "serving", "closing"},
                                  token: Tokens, late: BOOLEAN, kept: BOOLEAN]]
  <2>1. Free \in [at: {"free", "accepting", "serving", "closing"},
                  token: Tokens, late: BOOLEAN, kept: BOOLEAN]
    BY DEF Free, NoToken, Tokens, ConstantsFit
  <2> QED
    BY <1>1, <1>2, <2>1
<1>4. hub' # NoSocket => hub' = hub /\ sockets'[hub] = sockets[hub]
  BY <1>1, <1>2
<1>5. hub # NoSocket => \/ Valid(sockets[hub].token)
                         \/ sockets[hub].late \/ sockets[hub].kept
  BY DEF AccessInv, SessionIsCurrent
<1>6. hub' \in Sockets \cup {NoSocket}
  BY <1>1, <1>2
<1>7. hub' # NoSocket =>
        /\ sockets'[hub'].at = "serving"
        /\ \/ Valid(sockets'[hub'].token)
           \/ sockets'[hub'].late \/ sockets'[hub'].kept
  BY <1>2, <1>4, <1>5
<1> QED
  BY <1>1, <1>3, <1>6, <1>7, SocketSteps

LEMMA AccessKept == ConstantsFit /\ AccessInv /\ [Next]_vars => AccessInv'
<1> SUFFICES ASSUME ConstantsFit, AccessInv, [Next]_vars PROVE AccessInv'
  OBVIOUS
<1> USE DEF AccessInv, TypeOK, access
<1>1. CASE Rotate \/ RotateSelf \/ Reissue
  <2>1. Issue /\ CloseSocket /\ UNCHANGED <<access, stream, held>>
    BY <1>1 DEF Rotate, RotateSelf, Reissue
  <2> QED
    BY <2>1, TokenSteps DEF UsedUp
<1>2. CASE Revoke
  <2>1. CloseSocket /\ device' \in [token: Tokens, revoked: BOOLEAN]
        /\ device'.token = device.token
    BY <1>2 DEF Revoke
  <2>2. hub' = NoSocket /\ sockets' \in [Sockets -> [at: {"free", "accepting", "serving",
          "closing"}, token: Tokens, late: BOOLEAN, kept: BOOLEAN]]
    BY <2>1, Closing
  <2> QED
    BY <1>2, <2>1, <2>2 DEF Revoke, SessionIsCurrent, UsedUp
<1>3. CASE Register
  <2>1. Issue /\ KeepSocket /\ UNCHANGED <<access, stream, held>>
    BY <1>3 DEF Register
  <2> QED
    BY <2>1, TokenSteps DEF UsedUp
<1>4. ASSUME NEW g \in Grants, CreateGrant(g) PROVE AccessInv'
  BY <1>4 DEF CreateGrant, SessionIsCurrent, UsedUp, Valid
<1>5. ASSUME NEW g \in Grants, GrantLapses(g) PROVE AccessInv'
  BY <1>5 DEF GrantLapses, SessionIsCurrent, UsedUp, Valid
<1>6. ASSUME NEW g \in Grants, Redeem(g) PROVE AccessInv'
  <2>1. Issue /\ KeepSocket /\ UNCHANGED <<stream, held>>
    BY <1>6 DEF Redeem
  <2>2. admitted[g] = 0
    BY <1>6 DEF Redeem, Redeemable, UsedUp
  <2>3. UsedUp'
    BY <1>6, <2>2 DEF Redeem, Redeemable, UsedUp, ConstantsFit
  <2>4. grants' \in [Grants -> {"absent", "open", "used", "lapsed"}]
    BY <1>6 DEF Redeem
  <2> QED
    BY <1>6, <2>1, <2>3, <2>4, TokenSteps DEF Redeem
<1>7. ASSUME NEW t \in Tickets, IssueTicket(t) PROVE AccessInv'
  BY <1>7 DEF IssueTicket, SessionIsCurrent, UsedUp, Valid
<1>8. ASSUME NEW t \in Tickets, TicketLapses(t) PROVE AccessInv'
  BY <1>8 DEF TicketLapses, SessionIsCurrent, UsedUp, Valid
<1>9. ASSUME NEW t \in Tickets, UseTicket(t) PROVE AccessInv'
  <2>1. admitted[t] = 0
    BY <1>9 DEF UseTicket, UsedUp
  <2>2. UsedUp'
    BY <1>9, <2>1 DEF UseTicket, UsedUp, ConstantsFit
  <2> QED
    BY <1>9, <2>2 DEF UseTicket, SessionIsCurrent, Valid
<1>10. CASE Keep
  BY <1>10 DEF Keep, SessionIsCurrent, UsedUp, Valid, NoToken, Tokens, ConstantsFit
<1>11. ASSUME NEW s \in Sockets, OpenSocket(s) \/ Accepted(s) \/ SocketEnds(s) PROVE AccessInv'
  BY <1>11, OpenKeeps, AcceptedKeeps, SocketEndKeeps
<1>14. CASE OpenStream \/ StreamStep \/ StreamBreaks
  <2>1. NoStream \in [at: {"free", "checking", "sending"}, token: Tokens]
    BY DEF NoStream, NoToken, Tokens, ConstantsFit
  <2> QED
    BY <1>14, <2>1 DEF OpenStream, StreamStep, StreamRound, StreamSent, StreamBreaks,
       SessionIsCurrent, UsedUp, Valid
<1>15. CASE UNCHANGED vars
  BY <1>15 DEF vars, SessionIsCurrent, UsedUp, Valid
<1> QED
  BY <1>1, <1>2, <1>3, <1>4, <1>5, <1>6, <1>7, <1>8, <1>9, <1>10, <1>11, <1>14, <1>15
     DEF Next

-----------------------------------------------------------------------------
(* Meetings (meetings.py, storage.py).                                      *)

\* Who waits for the transcriber has read the present recording, and who waits for the
\* model has written the present transcript of it, as long as nothing was crossed.
Current ==
  ~crossed =>
    \A p \in Meeting!Working :
      /\ procs[p].rec = recording
      /\ procs[p].at = "analysing" =>
           procs[p].tr = transcript.version /\ transcript.of = recording

\* Only what is recorded is processed.
Recorded == \A p \in Processors : procs[p].at # "idle" => procs[p].at = "over" \/ recording # Meeting!None

MeetingInv == Meeting!TypeOK /\ Current /\ Recorded /\ Meeting!ReadyIsConsistent

LEMMA MeetingInit == ASSUME Meeting!BoundsAssumption, Meeting!Init PROVE MeetingInv
<1>1. 0 \in 0..MaxWritten /\ 0 \in 0..MaxCrashes
  BY DEF Meeting!BoundsAssumption
<1>2. Meeting!Idle \in [at: {"idle", "queued", "over"} \cup Meeting!Busy, device: BOOLEAN,
               rec: Meeting!Versions \cup {Meeting!None},
               tr: Meeting!Versions \cup {Meeting!None}]
      /\ Meeting!Idle.at \notin Meeting!Busy
  BY DEF Meeting!Idle, Meeting!Busy
<1>3. Meeting!TypeOK
  BY <1>1, <1>2 DEF Meeting!Init, Meeting!TypeOK
<1> QED
  BY <1>3 DEF MeetingInv, Meeting!Init, Current, Recorded, Meeting!ReadyIsConsistent,
     Meeting!Working, Meeting!Idle, Meeting!Busy, Meeting!None

\* A version more.
LEMMA VersionCounted ==
  ASSUME Meeting!BoundsAssumption, Meeting!TypeOK, Meeting!NewVersion
  PROVE  written' \in 0..MaxWritten /\ written' = written + 1 /\ written + 1 \in Meeting!Versions
BY DEF Meeting!BoundsAssumption, Meeting!TypeOK, Meeting!NewVersion, Meeting!Versions

\* A processor that is over.
LEMMA OverTypes ==
  [Meeting!Idle EXCEPT !.at = "over"] \in [at: {"idle", "queued", "over"} \cup Meeting!Busy,
                                           device: BOOLEAN,
                               rec: Meeting!Versions \cup {Meeting!None},
                               tr: Meeting!Versions \cup {Meeting!None}]
  /\ [Meeting!Idle EXCEPT !.at = "over"].at = "over"
BY DEF Meeting!Idle, Meeting!Busy, Meeting!None

LEMMA UploadKeeps ==
  ASSUME Meeting!BoundsAssumption, MeetingInv, NEW u \in Uploads,
         Meeting!UploadStarts(u) \/ Meeting!UploadEnds(u) \/ Meeting!UploadFails(u)
  PROVE  MeetingInv'
<1>1. CASE Meeting!UploadStarts(u) \/ Meeting!UploadFails(u)
  BY <1>1 DEF MeetingInv, Meeting!TypeOK, Meeting!UploadStarts, Meeting!UploadFails,
     Meeting!data, Current, Recorded,
     Meeting!ReadyIsConsistent, Meeting!Working
<1>2. CASE Meeting!UploadEnds(u)
  <2>1. /\ written' \in 0..MaxWritten /\ recording' \in Meeting!Versions
        /\ status' = "recorded" /\ UNCHANGED <<transcript, evidence, author, procs, died>>
        /\ crossed' = (crossed \/ Meeting!Working # {}) /\ announced' \in {announced, "recorded"}
        /\ uploads' = [uploads EXCEPT ![u] = "over"]
    BY <1>2, VersionCounted DEF MeetingInv, Meeting!UploadEnds, Meeting!SetRecording
  <2>2. Meeting!TypeOK'
    BY <2>1 DEF MeetingInv, Meeting!TypeOK
  <2>3. recording' # Meeting!None
    BY <2>1 DEF Meeting!Versions, Meeting!None
  <2>4. Current' /\ Recorded' /\ Meeting!ReadyIsConsistent'
    BY <2>1, <2>3 DEF MeetingInv, Current, Recorded, Meeting!ReadyIsConsistent, Meeting!Working
  <2> QED
    BY <2>2, <2>4 DEF MeetingInv
<1> QED
  BY <1>1, <1>2

LEMMA AdminKeeps ==
  ASSUME Meeting!BoundsAssumption, MeetingInv, Meeting!AdminTranscript \/ Meeting!AdminAnalysis
  PROVE  MeetingInv'
<1>1. CASE Meeting!AdminTranscript
  <2>1. /\ written' \in 0..MaxWritten /\ status' = "transcribed"
        /\ transcript' = [version |-> written + 1, of |-> Meeting!None]
        /\ written + 1 \in Meeting!Versions
        /\ UNCHANGED <<recording, evidence, author, procs, died, uploads, announced>>
        /\ crossed' = (crossed \/ Meeting!Working # {})
    BY <1>1, VersionCounted DEF MeetingInv, Meeting!AdminTranscript, Meeting!ReplaceTranscript
  <2> QED
    BY <2>1 DEF MeetingInv, Meeting!TypeOK, Current, Recorded, Meeting!ReadyIsConsistent,
       Meeting!Working
<1>2. CASE Meeting!AdminAnalysis
  <2>1. PICK cited \in {{}, 1..written} : Meeting!ReplaceAnalysis(cited, "admin")
    BY <1>2 DEF Meeting!AdminAnalysis
  <2>2. 1..written \subseteq Meeting!Versions
    BY DEF MeetingInv, Meeting!TypeOK, Meeting!Versions, Meeting!BoundsAssumption
  <2> QED
    BY <1>2, <2>1, <2>2 DEF Meeting!AdminAnalysis, Meeting!ReplaceAnalysis, MeetingInv,
       Meeting!TypeOK, Current,
       Recorded, Meeting!ReadyIsConsistent, Meeting!Working
<1> QED
  BY <1>1, <1>2

\* Where a processor may stand, and one that moves.
Standing == [at: {"idle", "queued", "over"} \cup Meeting!Busy, device: BOOLEAN,
             rec: Meeting!Versions \cup {Meeting!None}, tr: Meeting!Versions \cup {Meeting!None}]

LEMMA ProcessorMoves ==
  ASSUME Meeting!TypeOK, NEW p \in Processors, NEW e \in Standing, procs' = [procs EXCEPT ![p] = e]
  PROVE  /\ procs' \in [Processors -> Standing] /\ procs'[p] = e
         /\ \A q \in Processors : q # p => procs'[q] = procs[q]
<1>1. procs \in [Processors -> Standing]
  BY DEF Meeting!TypeOK, Standing
<1> QED
  BY <1>1

LEMMA StandingIs ==
  ASSUME Meeting!TypeOK, NEW p \in Processors
  PROVE  /\ procs[p] \in Standing
         /\ {"queued", "over", "transcribing", "analysing"} \subseteq
              {"idle", "queued", "over"} \cup Meeting!Busy
  BY DEF Meeting!TypeOK, Standing, Meeting!Busy

LEMMA BeginsKeeps ==
  ASSUME Meeting!BoundsAssumption, MeetingInv, NEW p \in Processors,
         Meeting!DeviceProcess(p) \/ Meeting!ProcessStarts(p)
  PROVE  MeetingInv'
<1>1. CASE Meeting!DeviceProcess(p)
  <2> DEFINE e == [procs[p] EXCEPT !.at = "queued", !.device = TRUE]
  <2>1. e \in Standing /\ e.at = "queued"
    BY StandingIs DEF MeetingInv, Standing
  <2>2. procs' = [procs EXCEPT ![p] = e]
    BY <1>1 DEF Meeting!DeviceProcess
  <2> HIDE DEF e
  <2>3. /\ procs' \in [Processors -> Standing]
        /\ \A q \in Processors : q # p => procs'[q] = procs[q]
        /\ procs'[p].at = "queued"
    BY <2>1, <2>2, ProcessorMoves DEF MeetingInv
  <2>4. /\ UNCHANGED <<recording, transcript, evidence, author, uploads, written, crossed, died>>
        /\ status' = "processing" /\ announced' = "processing" /\ recording # Meeting!None
    BY <1>1 DEF Meeting!DeviceProcess, Meeting!Beginnable
  <2>5. Meeting!TypeOK'
    BY <2>3, <2>4 DEF MeetingInv, Meeting!TypeOK, Standing, Meeting!Busy
  <2>6. Current' /\ Recorded' /\ Meeting!ReadyIsConsistent'
    BY <2>3, <2>4 DEF MeetingInv, Current, Recorded, Meeting!ReadyIsConsistent, Meeting!Working,
       Meeting!Busy
  <2> QED
    BY <2>5, <2>6 DEF MeetingInv
<1>2. CASE Meeting!ProcessStarts(p)
  <2> DEFINE e == [procs[p] EXCEPT !.at = "transcribing", !.rec = recording]
  <2>1. e \in Standing /\ e.at = "transcribing" /\ e.rec = recording
    BY StandingIs DEF MeetingInv, Standing, Meeting!TypeOK
  <2>2. procs' = [procs EXCEPT ![p] = e]
    BY <1>2 DEF Meeting!ProcessStarts
  <2> HIDE DEF e
  <2>3. /\ procs' \in [Processors -> Standing]
        /\ \A q \in Processors : q # p => procs'[q] = procs[q]
        /\ procs'[p].at = "transcribing" /\ procs'[p].rec = recording
    BY <2>1, <2>2, ProcessorMoves DEF MeetingInv
  <2>4. recording # Meeting!None
    BY <1>2 DEF Meeting!ProcessStarts, MeetingInv, Recorded
  <2>5. UNCHANGED <<status, recording, transcript, evidence, author, uploads, announced, written,
                    crossed, died>>
    BY <1>2 DEF Meeting!ProcessStarts, Meeting!data
  <2>6. Meeting!TypeOK'
    BY <2>3, <2>4, <2>5 DEF MeetingInv, Meeting!TypeOK, Standing
  <2>7. Current' /\ Recorded' /\ Meeting!ReadyIsConsistent'
    BY <2>3, <2>4, <2>5 DEF MeetingInv, Current, Recorded, Meeting!ReadyIsConsistent,
       Meeting!Working, Meeting!Busy
  <2> QED
    BY <2>6, <2>7 DEF MeetingInv
<1> QED
  BY <1>1, <1>2

LEMMA TranscribedKeeps ==
  ASSUME Meeting!BoundsAssumption, MeetingInv, NEW p \in Processors, Meeting!Transcribed(p)
  PROVE  MeetingInv'
<1>1. /\ written' \in 0..MaxWritten /\ status' = "transcribed"
      /\ transcript' = [version |-> written + 1, of |-> procs[p].rec]
      /\ written + 1 \in Meeting!Versions
      /\ UNCHANGED <<recording, evidence, author, died, uploads, announced>>
      /\ crossed' = (crossed \/ Meeting!Working # {p})
  BY VersionCounted DEF MeetingInv, Meeting!Transcribed, Meeting!ReplaceTranscript
<1> DEFINE e == [procs[p] EXCEPT !.at = "analysing", !.tr = written + 1]
<1>2. /\ e \in Standing /\ e.at = "analysing" /\ e.tr = written + 1 /\ e.rec = procs[p].rec
      /\ procs' = [procs EXCEPT ![p] = e]
  <2>1. e \in Standing /\ e.at = "analysing" /\ e.tr = written + 1 /\ e.rec = procs[p].rec
    BY <1>1, StandingIs DEF MeetingInv, Standing
  <2> QED
    BY <2>1 DEF Meeting!Transcribed
<1> HIDE DEF e
<1>3. /\ procs' \in [Processors -> Standing]
      /\ \A q \in Processors : q # p => procs'[q] = procs[q]
      /\ procs'[p].at = "analysing" /\ procs'[p].tr = written + 1
      /\ procs'[p].rec = procs[p].rec
  BY <1>2, ProcessorMoves DEF MeetingInv
<1>4. procs[p].at = "transcribing" /\ p \in Meeting!Working /\ procs[p].rec # Meeting!None
  BY DEF Meeting!Transcribed, MeetingInv, Meeting!TypeOK, Meeting!Working, Meeting!Busy
<1>5. Meeting!TypeOK'
  BY <1>1, <1>3, <1>4 DEF MeetingInv, Meeting!TypeOK, Standing, Meeting!Busy
<1>6. Current'
  <2> SUFFICES ASSUME ~crossed', NEW q \in Meeting!Working'
               PROVE  /\ procs'[q].rec = recording'
                      /\ procs'[q].at = "analysing" =>
                           procs'[q].tr = transcript'.version /\ transcript'.of = recording'
    BY DEF Current
  <2>1. ~crossed /\ Meeting!Working = {p}
    BY <1>1 DEF MeetingInv, Meeting!TypeOK
  <2>2. q = p
    BY <1>3, <2>1 DEF Meeting!Working
  <2>3. procs[p].rec = recording
    BY <2>1 DEF MeetingInv, Current
  <2> QED
    BY <1>1, <1>3, <2>2, <2>3
<1>7. Recorded' /\ Meeting!ReadyIsConsistent'
  BY <1>1, <1>3, <1>4 DEF MeetingInv, Recorded, Meeting!ReadyIsConsistent
<1> QED
  BY <1>5, <1>6, <1>7 DEF MeetingInv

\* A processor reports and is over: the others stay as they are.
LEMMA ReportsKeeps ==
  ASSUME Meeting!BoundsAssumption, MeetingInv, NEW p \in Processors,
         Meeting!Analysed(p) \/ Meeting!ProcessFails(p)
  PROVE  MeetingInv'
<1>1. /\ UNCHANGED <<recording, transcript, uploads, written, crossed, died>>
      /\ procs' = [procs EXCEPT ![p] = [Meeting!Idle EXCEPT !.at = "over"]]
      /\ announced' = (IF procs[p].device THEN status' ELSE announced)
      /\ status' \in {"ready", "failed"}
      /\ p \in Meeting!Working
  BY DEF Meeting!Analysed, Meeting!ProcessFails, Meeting!Announce, Meeting!FailMeeting,
     Meeting!ReplaceAnalysis, Meeting!Working, Meeting!Busy
<1>2. /\ procs' \in [Processors -> [at: {"idle", "queued", "over"} \cup Meeting!Busy,
                                    device: BOOLEAN,
                               rec: Meeting!Versions \cup {Meeting!None},
                               tr: Meeting!Versions \cup {Meeting!None}]]
      /\ \A q \in Processors : q # p => procs'[q] = procs[q]
      /\ procs'[p].at = "over"
  BY <1>1, OverTypes DEF MeetingInv, Meeting!TypeOK
<1>3. Current' /\ Recorded'
  BY <1>1, <1>2 DEF MeetingInv, Current, Recorded, Meeting!Working, Meeting!Busy
<1>4. CASE Meeting!ProcessFails(p)
  <2>1. UNCHANGED <<evidence, author>> /\ status' = "failed"
    BY <1>4 DEF Meeting!ProcessFails, Meeting!FailMeeting
  <2>2. Meeting!TypeOK'
    BY <1>1, <1>2, <2>1 DEF MeetingInv, Meeting!TypeOK, Meeting!Busy
  <2> QED
    BY <1>3, <2>1, <2>2 DEF MeetingInv, Meeting!ReadyIsConsistent
<1>5. CASE Meeting!Analysed(p)
  <2>1. PICK cited \in SUBSET (1..written) : Meeting!ReplaceAnalysis(Meeting!Supported(p, cited), "model")
    BY <1>5 DEF Meeting!Analysed
  <2>5. 1..written \subseteq Meeting!Versions
    BY DEF MeetingInv, Meeting!TypeOK, Meeting!Versions, Meeting!BoundsAssumption
  <2>2. /\ evidence' \subseteq Meeting!Versions /\ evidence' \subseteq {procs[p].tr}
        /\ author' = "model" /\ status' = "ready"
    BY <2>1, <2>5 DEF Meeting!ReplaceAnalysis, Meeting!Supported
  <2>3. Meeting!TypeOK'
    BY <1>1, <1>2, <2>2 DEF MeetingInv, Meeting!TypeOK, Meeting!Busy
  <2>4. Meeting!ReadyIsConsistent'
    <3> SUFFICES ASSUME ~crossed
                 PROVE  evidence' \subseteq {transcript.version} /\ transcript.of = recording
      BY <1>1 DEF Meeting!ReadyIsConsistent
    <3>1. procs[p].tr = transcript.version /\ transcript.of = recording
      BY <1>1, <1>5 DEF Meeting!Analysed, MeetingInv, Current
    <3> QED
      BY <2>2, <3>1
  <2> QED
    BY <1>3, <2>3, <2>4 DEF MeetingInv
<1> QED
  BY <1>4, <1>5

LEMMA CrashKeeps ==
  ASSUME Meeting!BoundsAssumption, MeetingInv, Meeting!CoreCrashes
  PROVE  MeetingInv'
<1>1. /\ procs' \in [Processors -> [at: {"idle", "queued", "over"} \cup Meeting!Busy,
                                    device: BOOLEAN,
                               rec: Meeting!Versions \cup {Meeting!None},
                               tr: Meeting!Versions \cup {Meeting!None}]]
      /\ \A q \in Processors : procs'[q].at \in {"idle", "over"}
  BY OverTypes DEF Meeting!CoreCrashes, Meeting!Idle, Meeting!None, MeetingInv, Meeting!TypeOK
<1>2. uploads' \in [Uploads -> {"idle", "streaming", "over"}] /\ died' \in 0..MaxCrashes
  BY DEF Meeting!CoreCrashes, MeetingInv, Meeting!TypeOK, Meeting!BoundsAssumption
<1>3. UNCHANGED <<Meeting!data, announced, written, crossed>>
  BY DEF Meeting!CoreCrashes
<1> QED
  BY <1>1, <1>2, <1>3 DEF Meeting!data, MeetingInv, Meeting!TypeOK, Current, Recorded,
     Meeting!ReadyIsConsistent,
     Meeting!Working, Meeting!Busy

LEMMA MeetingKept ==
  ASSUME Meeting!BoundsAssumption, MeetingInv, Meeting!Next
  PROVE  MeetingInv'
BY UploadKeeps, AdminKeeps, BeginsKeeps, TranscribedKeeps, ReportsKeeps,
   CrashKeeps DEF Meeting!Next

LEMMA MeetingRests == ASSUME MeetingInv, UNCHANGED Meeting!vars PROVE MeetingInv'
BY DEF Meeting!vars, Meeting!data, MeetingInv, Meeting!TypeOK, Current, Recorded,
   Meeting!ReadyIsConsistent, Meeting!Working

-----------------------------------------------------------------------------
(* The home's catalogue (home_intelligence.py).                             *)

\* A row whose area a registry gave has the area that the registries said last.
Sourced ==
  \A e \in Entities :
    catalogue[e].source = "registry" => said[e].read /\ catalogue[e].area = said[e].area

HomeInv == Home!TypeOK /\ Sourced

LEMMA HomeInit == ASSUME Home!BoundsAssumption, Home!Init PROVE HomeInv
<1>1. 0 \in 0..MaxChanges /\ 0 \in 0..MaxRestarts
  BY DEF Home!BoundsAssumption
<1>2. Home!NoSync \in [by: {"nobody", "loop", "admin"}, read: SUBSET Home!Reads,
                       failed: SUBSET Home!Reads,
                  states: SUBSET Entities, registry: Home!Sections \cup {Home!NoSync.registry}]
      /\ Home!NoSync.read = {} /\ Home!NoSync.failed = {} /\ Home!NoSync.by = "nobody"
  BY DEF Home!NoSync
<1>3. ha \in [up: BOOLEAN, present: SUBSET Entities, of: [Entities -> Home!Registration]]
  BY DEF Home!Init, Home!Registration, Home!Areas
<1>4. /\ catalogue \in [Entities -> [known: BOOLEAN, missing: BOOLEAN, hidden: BOOLEAN,
                                     area: Home!Areas \cup {NoArea},
                                     source: {"registry", "inferred", "unassigned"}]]
      /\ \A e \in Entities : catalogue[e].area = NoArea /\ catalogue[e].source = "unassigned"
  BY DEF Home!Init, Home!Unknown
<1>5. override \in [Entities -> [policy: Home!Policies, room: Home!Areas \cup {NoArea}]]
  BY DEF Home!Init, Home!Policies
<1>6. said \in [Entities -> [read: BOOLEAN, hidden: BOOLEAN, area: Home!Areas \cup {NoArea}]]
  BY DEF Home!Init, Home!Silent
<1> QED
  BY <1>1, <1>2, <1>3, <1>4, <1>5, <1>6 DEF HomeInv, Home!Init, Home!TypeOK, Sourced

LEMMA ChangeCounted ==
  ASSUME Home!BoundsAssumption, Home!TypeOK, Home!Changed
  PROVE  changes' \in 0..MaxChanges
BY DEF Home!BoundsAssumption, Home!TypeOK, Home!Changed

LEMMA WorldKeeps ==
  ASSUME Home!BoundsAssumption, HomeInv,
         Home!GoesDownOrUp \/ \E e \in Entities : Home!ComesOrGoes(e) \/ Home!IsEdited(e)
  PROVE  HomeInv'
<1>1. changes' \in 0..MaxChanges /\ Home!HomeAssistant
  BY ChangeCounted DEF HomeInv, Home!GoesDownOrUp, Home!ComesOrGoes, Home!IsEdited
<1>2. ha' \in [up: BOOLEAN, present: SUBSET Entities, of: [Entities -> Home!Registration]]
  <2>1. CASE Home!GoesDownOrUp
    BY <2>1 DEF HomeInv, Home!TypeOK, Home!GoesDownOrUp
  <2>2. ASSUME NEW e \in Entities, Home!ComesOrGoes(e)
        PROVE  ha' \in [up: BOOLEAN, present: SUBSET Entities,
                        of: [Entities -> Home!Registration]]
    <3>1. (IF e \in ha.present THEN ha.present \ {e} ELSE ha.present \cup {e})
             \subseteq Entities
      BY DEF HomeInv, Home!TypeOK
    <3> QED
      BY <2>2, <3>1 DEF HomeInv, Home!TypeOK, Home!ComesOrGoes
  <2>3. ASSUME NEW e \in Entities, Home!IsEdited(e)
        PROVE  ha' \in [up: BOOLEAN, present: SUBSET Entities,
                        of: [Entities -> Home!Registration]]
    <3>1. PICK r \in Home!Registration : ha' = [ha EXCEPT !.of[e] = r]
      BY <2>3 DEF Home!IsEdited
    <3>2. ha' = [ha EXCEPT !.of = [ha.of EXCEPT ![e] = r]]
      BY <3>1
    <3>3. [ha.of EXCEPT ![e] = r] \in [Entities -> Home!Registration]
      BY DEF HomeInv, Home!TypeOK
    <3> QED
      BY <3>2, <3>3 DEF HomeInv, Home!TypeOK
  <2> QED
    BY <2>1, <2>2, <2>3
<1> QED
  BY <1>1, <1>2 DEF HomeInv, Home!TypeOK, Home!HomeAssistant, Sourced

\* What a synchronization changes of its own record.
LEMMA SyncTypes ==
  ASSUME Home!BoundsAssumption, HomeInv, Home!ReadStates \/ Home!ReadRegistry
  PROVE  /\ sync' \in [by: {"nobody", "loop", "admin"}, read: SUBSET Home!Reads,
                       failed: SUBSET Home!Reads, states: SUBSET Entities,
                       registry: Home!Sections \cup {Home!NoSync.registry}]
         /\ sync'.failed \subseteq sync'.read
         /\ "registry" \in sync'.read \ sync'.failed => sync'.registry \in Home!Sections
         /\ sync'.by = sync.by
<1> DEFINE Sync == [by: {"nobody", "loop", "admin"}, read: SUBSET Home!Reads,
                    failed: SUBSET Home!Reads, states: SUBSET Entities,
                    registry: Home!Sections \cup {Home!NoSync.registry}]
<1>1. sync \in Sync /\ sync.failed \subseteq sync.read
      /\ ("registry" \in sync.read \ sync.failed => sync.registry \in Home!Sections)
  BY DEF HomeInv, Home!TypeOK
<1>2. ha \in [up: BOOLEAN, present: SUBSET Entities, of: [Entities -> Home!Registration]]
  BY DEF HomeInv, Home!TypeOK
<1>3. "states" \in Home!Reads /\ "registry" \in Home!Reads
  BY DEF Home!Reads
<1>4. CASE Home!ReadStates
  <2>1. CASE sync' = [sync EXCEPT !.read = @ \cup {"states"}, !.states = ha.present]
    <3>1. sync' = [by |-> sync.by, read |-> sync.read \cup {"states"}, failed |-> sync.failed,
                   states |-> ha.present, registry |-> sync.registry]
      BY <1>1, <2>1
    <3> QED
      BY <1>1, <1>2, <1>3, <3>1
  <2>2. CASE sync' = [sync EXCEPT !.read = @ \cup {"states"}, !.failed = @ \cup {"states"}]
    <3>1. sync' = [by |-> sync.by, read |-> sync.read \cup {"states"},
                   failed |-> sync.failed \cup {"states"},
                   states |-> sync.states, registry |-> sync.registry]
      BY <1>1, <2>2
    <3> QED
      BY <1>1, <1>3, <3>1
  <2> QED
    BY <1>4, <2>1, <2>2 DEF Home!ReadStates
<1>5. CASE Home!ReadRegistry
  <2>1. ASSUME NEW es \in BOOLEAN, NEW ds \in BOOLEAN,
               sync' = [sync EXCEPT !.read = @ \cup {"registry"},
                          !.registry = [entities |-> es, devices |-> ds, of |-> ha.of]]
        PROVE  /\ sync' \in Sync
               /\ sync'.failed \subseteq sync'.read
               /\ sync'.registry \in Home!Sections
               /\ sync'.by = sync.by
    <3>1. sync' = [by |-> sync.by, read |-> sync.read \cup {"registry"},
                   failed |-> sync.failed, states |-> sync.states,
                   registry |-> [entities |-> es, devices |-> ds, of |-> ha.of]]
      BY <1>1, <2>1
    <3>2. [entities |-> es, devices |-> ds, of |-> ha.of] \in Home!Sections
      BY <1>2 DEF Home!Sections
    <3> QED
      BY <1>1, <1>3, <3>1, <3>2
  <2>2. CASE sync' = [sync EXCEPT !.read = @ \cup {"registry"}, !.failed = @ \cup {"registry"}]
    <3>1. sync' = [by |-> sync.by, read |-> sync.read \cup {"registry"},
                   failed |-> sync.failed \cup {"registry"},
                   states |-> sync.states, registry |-> sync.registry]
      BY <1>1, <2>2
    <3> QED
      BY <1>1, <1>3, <3>1
  <2> QED
    BY <1>5, <2>1, <2>2 DEF Home!ReadRegistry
<1> QED
  BY <1>4, <1>5

LEMMA ReadsKeep ==
  ASSUME Home!BoundsAssumption, HomeInv, Home!ReadStates \/ Home!ReadRegistry
  PROVE  HomeInv'
<1>1. UNCHANGED <<ha, catalogue, override, loop, latest, aged, said, changes, restarts>>
  BY DEF Home!ReadStates, Home!ReadRegistry, Home!Reading
<1> QED
  BY <1>1, SyncTypes DEF HomeInv, Home!TypeOK, Sourced

\* A synchronization that is not under way.
LEMMA NoSyncTypes ==
  ASSUME NEW by \in {"nobody", "loop", "admin"}
  PROVE  /\ [Home!NoSync EXCEPT !.by = by] \in
              [by: {"nobody", "loop", "admin"}, read: SUBSET Home!Reads,
               failed: SUBSET Home!Reads,
               states: SUBSET Entities, registry: Home!Sections \cup {Home!NoSync.registry}]
         /\ [Home!NoSync EXCEPT !.by = by].failed = {}
         /\ [Home!NoSync EXCEPT !.by = by].read = {}
         /\ [Home!NoSync EXCEPT !.by = by].by = by
         /\ [Home!NoSync EXCEPT !.by = "nobody"] = Home!NoSync
<1> DEFINE empty == Home!NoSync.registry
<1>1. Home!NoSync = [by |-> "nobody", read |-> {}, failed |-> {}, states |-> {},
                     registry |-> empty]
  BY DEF Home!NoSync
<1> HIDE DEF empty
<1>2. [Home!NoSync EXCEPT !.by = by]
        = [by |-> by, read |-> {}, failed |-> {}, states |-> {}, registry |-> empty]
  BY <1>1
<1>3. [Home!NoSync EXCEPT !.by = "nobody"] = Home!NoSync
  BY <1>1
<1>4. [by |-> by, read |-> {}, failed |-> {}, states |-> {}, registry |-> empty] \in
        [by: {"nobody", "loop", "admin"}, read: SUBSET Home!Reads, failed: SUBSET Home!Reads,
         states: SUBSET Entities, registry: Home!Sections \cup {empty}]
  OBVIOUS
<1> QED
  BY <1>2, <1>3, <1>4 DEF empty

LEMMA TurnsKeep ==
  ASSUME Home!BoundsAssumption, HomeInv,
         Home!LoopTurn \/ Home!AdminSync \/ Home!IntervalPasses \/ Home!Ages
  PROVE  HomeInv'
<1>1. ASSUME NEW by \in {"loop", "admin"}, Home!BeginSync(by), loop' \in {loop, "syncing"}
      PROVE  HomeInv'
  BY <1>1, NoSyncTypes DEF Home!BeginSync, HomeInv, Home!TypeOK, Sourced
<1>2. CASE loop' \in {"due", "waiting"} /\ aged' \in BOOLEAN
           /\ UNCHANGED <<ha, catalogue, override, sync, latest, said, changes, restarts>>
  BY <1>2 DEF HomeInv, Home!TypeOK, Sourced
<1>3. CASE UNCHANGED loop /\ aged' = TRUE
           /\ UNCHANGED <<ha, catalogue, override, sync, latest, said, changes, restarts>>
  BY <1>3 DEF HomeInv, Home!TypeOK, Sourced
<1>4. aged \in BOOLEAN
  BY DEF HomeInv, Home!TypeOK
<1> QED
  BY <1>1, <1>2, <1>3, <1>4 DEF Home!LoopTurn, Home!AdminSync, Home!IntervalPasses, Home!Ages

LEMMA RestartKeeps ==
  ASSUME Home!BoundsAssumption, HomeInv, Home!Restart
  PROVE  HomeInv'
<1>1. restarts' \in 0..MaxRestarts /\ restarts' > 0
  BY DEF Home!Restart, Home!BoundsAssumption, HomeInv, Home!TypeOK
<1> QED
  BY <1>1, NoSyncTypes DEF Home!Restart, HomeInv, Home!TypeOK, Sourced

\* The area of a row that the registries were read for, or not.
LEMMA AnUpsert ==
  ASSUME Home!BoundsAssumption, HomeInv, sync.read = Home!Reads, NEW e \in Entities
  PROVE  /\ Home!Upserted(e, sync.registry) \in
              [known: BOOLEAN, missing: BOOLEAN, hidden: BOOLEAN,
               area: Home!Areas \cup {NoArea},
               source: {"registry", "inferred", "unassigned"}]
         /\ Home!Upserted(e, sync.registry).area = NoArea
              <=> Home!Upserted(e, sync.registry).source = "unassigned"
         /\ Home!Readable(sync.registry) =>
              /\ sync.registry.of[e].hidden \in BOOLEAN
              /\ Home!RegisteredArea(sync.registry, e) \in Home!Areas \cup {NoArea}
              /\ Home!Upserted(e, sync.registry).source = "registry" =>
                   Home!Upserted(e, sync.registry).area = Home!RegisteredArea(sync.registry, e)
         /\ ~Home!Readable(sync.registry) /\ Home!Upserted(e, sync.registry).source = "registry" =>
              /\ catalogue[e].source = "registry"
              /\ Home!Upserted(e, sync.registry).area = catalogue[e].area
<1> DEFINE row == catalogue[e]
           area == Home!RegisteredArea(sync.registry, e)
           up == Home!Upserted(e, sync.registry)
<1>1. row \in [known: BOOLEAN, missing: BOOLEAN, hidden: BOOLEAN,
               area: Home!Areas \cup {NoArea},
               source: {"registry", "inferred", "unassigned"}]
      /\ (row.area = NoArea <=> row.source = "unassigned")
  BY DEF HomeInv, Home!TypeOK
<1>2. Hint \in Home!Areas /\ Hint # NoArea /\ NoArea \notin Home!Areas
  BY DEF Home!BoundsAssumption, Home!Areas
<1>3. ASSUME NEW a \in Home!Areas \cup {NoArea}
      PROVE  /\ Home!AreaMapping(e, a) \in [area: Home!Areas \cup {NoArea},
                                       source: {"registry", "inferred", "unassigned"}]
             /\ Home!AreaMapping(e, a).area = NoArea <=> Home!AreaMapping(e, a).source = "unassigned"
             /\ Home!AreaMapping(e, a).source = "registry" => Home!AreaMapping(e, a).area = a /\ a # NoArea
  BY <1>2 DEF Home!AreaMapping
<1>4. CASE Home!Readable(sync.registry)
  <2>1. sync.registry \in Home!Sections
    BY <1>4 DEF Home!Readable, HomeInv, Home!TypeOK, Home!Reads
  <2>2. sync.registry.of[e] \in Home!Registration
    BY <2>1 DEF Home!Sections
  <2>3. sync.registry.of[e].hidden \in BOOLEAN /\ area \in Home!Areas \cup {NoArea}
    BY <2>2 DEF Home!Registration, Home!RegisteredArea
  <2>4. up = [known |-> TRUE, missing |-> FALSE, hidden |-> sync.registry.of[e].hidden,
              area |-> Home!AreaMapping(e, area).area,
              source |-> Home!AreaMapping(e, area).source]
    BY <1>4, <2>3 DEF Home!Upserted
  <2> HIDE DEF area, up
  <2>5. /\ up \in [known: BOOLEAN, missing: BOOLEAN, hidden: BOOLEAN,
                   area: Home!Areas \cup {NoArea},
                   source: {"registry", "inferred", "unassigned"}]
        /\ up.area = Home!AreaMapping(e, area).area
        /\ up.source = Home!AreaMapping(e, area).source
    BY <1>3, <2>3, <2>4
  <2>6. (up.area = NoArea <=> up.source = "unassigned")
        /\ (up.source = "registry" => up.area = area)
    BY <1>3, <2>3, <2>5
  <2> QED
    BY <1>4, <2>3, <2>5, <2>6 DEF up, area
<1>5. CASE ~Home!Readable(sync.registry)
  <2>1. up = [known |-> TRUE, missing |-> FALSE, hidden |-> FALSE,
              area |-> IF ~row.known \/ row.area = NoArea THEN Home!AreaMapping(e, NoArea).area
                       ELSE row.area,
              source |-> IF ~row.known \/ row.area = NoArea THEN Home!AreaMapping(e, NoArea).source
                         ELSE row.source]
    BY <1>5 DEF Home!Upserted, Home!AreaPreserved
  <2> HIDE DEF up, row
  <2>2. CASE ~row.known \/ row.area = NoArea
    <3>1. up = [known |-> TRUE, missing |-> FALSE, hidden |-> FALSE,
                area |-> Home!AreaMapping(e, NoArea).area,
                source |-> Home!AreaMapping(e, NoArea).source]
      BY <2>1, <2>2
    <3>2. /\ up \in [known: BOOLEAN, missing: BOOLEAN, hidden: BOOLEAN,
                     area: Home!Areas \cup {NoArea},
                     source: {"registry", "inferred", "unassigned"}]
          /\ up.area = NoArea <=> up.source = "unassigned"
          /\ up.source # "registry"
      BY <1>3, <3>1
    <3> QED
      BY <1>5, <3>2 DEF up
  <2>3. CASE row.known /\ row.area # NoArea
    <3>1. up = [known |-> TRUE, missing |-> FALSE, hidden |-> FALSE,
                area |-> row.area, source |-> row.source]
      BY <1>1, <2>1, <2>3
    <3>2. /\ up \in [known: BOOLEAN, missing: BOOLEAN, hidden: BOOLEAN,
                     area: Home!Areas \cup {NoArea},
                     source: {"registry", "inferred", "unassigned"}]
          /\ up.area = row.area /\ up.source = row.source
      BY <1>1, <3>1
    <3> QED
      BY <1>1, <1>5, <3>2 DEF up, row
  <2> QED
    BY <1>1, <2>2, <2>3
<1> QED
  BY <1>4, <1>5

LEMMA ReplaceKeeps ==
  ASSUME Home!BoundsAssumption, HomeInv, sync.read = Home!Reads, Home!Replace
  PROVE  /\ catalogue' \in [Entities -> [known: BOOLEAN, missing: BOOLEAN, hidden: BOOLEAN,
                                         area: Home!Areas \cup {NoArea},
                                         source: {"registry", "inferred", "unassigned"}]]
         /\ \A e \in Entities : catalogue'[e].area = NoArea <=> catalogue'[e].source = "unassigned"
         /\ said' \in [Entities -> [read: BOOLEAN, hidden: BOOLEAN,
                                    area: Home!Areas \cup {NoArea}]]
         /\ Sourced'
<1> DEFINE Rows == [known: BOOLEAN, missing: BOOLEAN, hidden: BOOLEAN,
                    area: Home!Areas \cup {NoArea},
                    source: {"registry", "inferred", "unassigned"}]
           Says == [read: BOOLEAN, hidden: BOOLEAN, area: Home!Areas \cup {NoArea}]
<1>1. /\ catalogue' = [e \in Entities |->
                         IF e \in sync.states THEN Home!Upserted(e, sync.registry)
                         ELSE [catalogue[e] EXCEPT !.missing = catalogue[e].known]]
      /\ said' = [e \in Entities |->
                    IF e \in sync.states /\ Home!Readable(sync.registry)
                    THEN [read |-> TRUE, hidden |-> sync.registry.of[e].hidden,
                          area |-> Home!RegisteredArea(sync.registry, e)]
                    ELSE said[e]]
  BY DEF Home!Replace
<1>2. ASSUME NEW e \in Entities
      PROVE  /\ catalogue'[e] \in Rows
             /\ catalogue'[e].area = NoArea <=> catalogue'[e].source = "unassigned"
             /\ said'[e] \in Says
             /\ catalogue'[e].source = "registry" =>
                  said'[e].read /\ catalogue'[e].area = said'[e].area
  <2>1. /\ catalogue[e] \in Rows /\ said[e] \in Says
        /\ catalogue[e].area = NoArea <=> catalogue[e].source = "unassigned"
        /\ catalogue[e].source = "registry" => said[e].read /\ catalogue[e].area = said[e].area
    BY DEF HomeInv, Home!TypeOK, Sourced
  <2>2. CASE e \notin sync.states
    <3>1. catalogue'[e] = [catalogue[e] EXCEPT !.missing = catalogue[e].known]
          /\ said'[e] = said[e]
      BY <1>1, <2>2
    <3> QED
      BY <2>1, <3>1
  <2>3. CASE e \in sync.states /\ Home!Readable(sync.registry)
    <3>1. /\ catalogue'[e] = Home!Upserted(e, sync.registry)
          /\ said'[e] = [read |-> TRUE, hidden |-> sync.registry.of[e].hidden,
                         area |-> Home!RegisteredArea(sync.registry, e)]
      BY <1>1, <2>3
    <3>2. said'[e] \in Says
      BY <2>3, <3>1, AnUpsert
    <3> QED
      BY <2>3, <3>1, <3>2, AnUpsert
  <2>4. CASE e \in sync.states /\ ~Home!Readable(sync.registry)
    <3>1. catalogue'[e] = Home!Upserted(e, sync.registry) /\ said'[e] = said[e]
      BY <1>1, <2>4
    <3> QED
      BY <2>1, <2>4, <3>1, AnUpsert
  <2> QED
    BY <2>2, <2>3, <2>4
<1>3. catalogue' \in [Entities -> Rows] /\ said' \in [Entities -> Says]
  BY <1>1, <1>2
<1> QED
  BY <1>2, <1>3 DEF Sourced

LEMMA EndKeeps ==
  ASSUME Home!BoundsAssumption, HomeInv, Home!EndSync
  PROVE  HomeInv'
<1>1. sync' = Home!NoSync /\ UNCHANGED <<ha, override, changes,
                                         restarts>> /\ sync.read = Home!Reads
      /\ loop' \in {loop, "waiting"}
  BY DEF Home!EndSync, Home!LoopGoesOn
<1>2. CASE Home!FailSync
  BY <1>1, <1>2, NoSyncTypes DEF Home!FailSync, HomeInv, Home!TypeOK, Sourced
<1>3. CASE Home!Replace
  <2>1. aged' = FALSE /\ latest' = "succeeded"
    BY <1>3 DEF Home!Replace
  <2> QED
    BY <1>1, <1>3, <2>1, ReplaceKeeps, NoSyncTypes DEF HomeInv, Home!TypeOK
<1> QED
  BY <1>2, <1>3 DEF Home!EndSync

LEMMA PresentationKeeps ==
  ASSUME Home!BoundsAssumption, HomeInv, NEW e \in Entities, Home!UpdatePresentation(e)
  PROVE  HomeInv'
<1>1. PICK change \in [policy: Home!Policies] \cup [room: Home!Areas \cup {NoArea}]
                   \cup [policy: Home!Policies, room: Home!Areas \cup {NoArea}] :
        override' = [override EXCEPT ![e] = Home!Merged(e, change)]
  BY DEF Home!UpdatePresentation
<1>2. override[e] \in [policy: Home!Policies, room: Home!Areas \cup {NoArea}]
  BY DEF HomeInv, Home!TypeOK
<1>3. Home!Merged(e, change) = [policy |-> Home!Merged(e, change).policy,
                                room |-> Home!Merged(e, change).room]
  BY <1>2 DEF Home!Merged
<1>4. /\ Home!Merged(e, change).policy \in {override[e].policy} \cup
                                        IF "policy" \in DOMAIN change THEN {change.policy} ELSE {}
      /\ Home!Merged(e, change).room \in {override[e].room} \cup
                                        IF "room" \in DOMAIN change THEN {change.room} ELSE {}
  BY <1>2 DEF Home!Merged
<1>5. ("policy" \in DOMAIN change => change.policy \in Home!Policies)
      /\ ("room" \in DOMAIN change => change.room \in Home!Areas \cup {NoArea})
  BY <1>1
<1>6. Home!Merged(e, change) \in [policy: Home!Policies, room: Home!Areas \cup {NoArea}]
  BY <1>2, <1>3, <1>4, <1>5
<1>7. override' \in [Entities -> [policy: Home!Policies, room: Home!Areas \cup {NoArea}]]
  BY <1>1, <1>6 DEF HomeInv, Home!TypeOK
<1> QED
  BY <1>7, ChangeCounted DEF Home!UpdatePresentation, HomeInv, Home!TypeOK, Sourced

LEMMA HomeKept == ASSUME Home!BoundsAssumption, HomeInv, Home!Next PROVE HomeInv'
BY WorldKeeps, ReadsKeep, TurnsKeep, RestartKeeps, EndKeeps, PresentationKeeps DEF Home!Next

LEMMA HomeRests == ASSUME HomeInv, UNCHANGED Home!vars PROVE HomeInv'
BY DEF Home!vars, HomeInv, Home!TypeOK, Sourced

\* An action that finds its room in the catalogue finds it where the registries put it.
LEMMA HomeSafe == ASSUME Home!BoundsAssumption, HomeInv PROVE Home!RoomIsRegistered
BY DEF Home!BoundsAssumption, HomeInv, Home!TypeOK, Sourced, Home!RoomIsRegistered,
   Home!Addressable, Home!Authoritative,
   Home!Trust, Home!Room, Home!Areas

-----------------------------------------------------------------------------
(* The event log and its client (storage.py, PilotModel.swift).             *)

\* A kept cursor, as there is after the first start.
Resumed == ~FirstStart

\* The log keeps the last events, and positions in it lie in it.
Positions ==
  /\ floor = IF Client!Newest > Retention THEN Client!Newest - Retention ELSE 0
  /\ cursor \in (0..Client!Newest) \cup {Client!NoCursor} /\ adopt \in 0..Client!Newest
  /\ Resumed => cursor # Client!NoCursor
  /\ \A i \in events : i \in 1..Client!Newest /\ log[i] # Hidden

\* As long as there was a cursor and the log answered it, and in full, a change the view does
\* not show is beyond the cursor; while events are handled it is one of them, or newer than all
\* of them and than the cursor that will be adopted.
Awaited(t) ==
  \/ Client!Latest(t) \in events
  \/ Client!Latest(t) > adopt /\ \A i \in events : Client!Latest(t) > i

Heard ==
  Resumed /\ ~pruned /\ ~truncated =>
    /\ at \notin {"recovery", "recovery events"}
    /\ at = "handle" => \A i \in events : i > cursor
    /\ \A t \in Topics \ missed :
         Client!Latest(t) > view[t] => Client!Latest(t) > cursor /\ (at = "handle" => Awaited(t))

ClientInv == Client!TypeOK /\ Positions /\ Heard

-----------------------------------------------------------------------------
\* The least and the greatest of some numbers.
LEMMA LeastIs ==
  ASSUME NEW S \in SUBSET Nat, S # {}
  PROVE  Client!Min(S) \in S /\ \A y \in S : Client!Min(S) <= y
<1>0. S \subseteq Nat
  OBVIOUS
<1>1. PICK x \in S : \A y \in S : ~(<<y, x>> \in OpToRel(<, Nat))
  BY <1>0, NatLessThanWellFounded, WFMin, Zenon
<1>2. \A y \in S : x <= y
  <2> SUFFICES ASSUME NEW y \in S PROVE x <= y
    OBVIOUS
  <2>1. ~(y < x)
    BY <1>1 DEF OpToRel
  <2> QED
    BY <2>1
<1> QED
  BY <1>2 DEF Client!Min

LEMMA GreatestIs ==
  ASSUME NEW n \in Nat, NEW S \in SUBSET (0..n), S # {}
  PROVE  Client!Max(S) \in S /\ \A y \in S : y <= Client!Max(S)
<1> DEFINE T == {n - y : y \in S}
<1>1. T \subseteq Nat /\ T # {}
  <2>1. \A y \in S : n - y \in Nat
    OBVIOUS
  <2> QED
    BY <2>1
<1>2. PICK z \in T : \A y \in T : ~(<<y, z>> \in OpToRel(<, Nat))
  BY <1>1, NatLessThanWellFounded, WFMin, Zenon
<1>3. PICK x \in S : z = n - x
  BY DEF T
<1>4. \A y \in S : y <= x
  <2> SUFFICES ASSUME NEW y \in S PROVE y <= x
    OBVIOUS
  <2>1. n - y \in T /\ n - y \in Nat /\ n - x \in Nat
    OBVIOUS
  <2>2. ~(n - y < n - x)
    BY <1>2, <1>3, <2>1 DEF OpToRel
  <2> QED
    BY <2>2
<1> QED
  BY <1>4 DEF Client!Max

\* The last place of a sequence at which something stands.
LastOf(s, t) == Client!Max({0} \cup {i \in 1..Len(s) : s[i] = t})

LEMMA LastPlace ==
  ASSUME NEW S, NEW s \in Seq(S), NEW t
  PROVE  /\ LastOf(s, t) \in 0..Len(s)
         /\ LastOf(s, t) > 0 => s[LastOf(s, t)] = t
         /\ \A i \in 1..Len(s) : s[i] = t => i <= LastOf(s, t)
<1> DEFINE P == {0} \cup {i \in 1..Len(s) : s[i] = t}
<1>1. Len(s) \in Nat
  OBVIOUS
<1>2. P \in SUBSET (0..Len(s)) /\ P # {}
  BY <1>1
<1> HIDE DEF P
<1>3. Client!Max(P) \in P /\ \A y \in P : y <= Client!Max(P)
  BY <1>1, <1>2, GreatestIs
<1>4. LastOf(s, t) = Client!Max(P)
  BY DEF LastOf, P
<1> QED
  BY <1>1, <1>2, <1>3, <1>4 DEF P

LEMMA LatestIs ==
  ASSUME Client!TypeOK, NEW t
  PROVE  /\ Client!Latest(t) \in 0..Client!Newest
         /\ Client!Latest(t) > 0 => log[Client!Latest(t)] = t
         /\ \A i \in 1..Client!Newest : log[i] = t => i <= Client!Latest(t)
<1>1. log \in Seq(Topics \cup {Hidden}) /\ Client!Latest(t) = LastOf(log, t)
  BY DEF Client!TypeOK, Client!Latest, Client!Newest, LastOf
<1> QED
  BY <1>1, LastPlace DEF Client!Newest

\* A new event is the latest of its topic and leaves those of the others.
LEMMA LatestAfter ==
  ASSUME Client!TypeOK, NEW t \in Topics \cup {Hidden}, log' = Append(log, t), NEW u
  PROVE  Client!Latest(u)' = IF u = t THEN Client!Newest + 1 ELSE Client!Latest(u)
<1> DEFINE s == log'
<1>1. log \in Seq(Topics \cup {Hidden}) /\ Len(log) \in Nat
  BY DEF Client!TypeOK
<1>2. /\ s \in Seq(Topics \cup {Hidden}) /\ Len(s) = Len(log) + 1 /\ s[Len(log) + 1] = t
      /\ \A i \in 1..Len(log) : s[i] = log[i]
  BY <1>1
<1>3. Client!Latest(u)' = LastOf(s, u)
  BY DEF Client!Latest, Client!Newest, LastOf
<1> HIDE DEF s
<1> DEFINE m == LastOf(s, u)
<1>4. /\ m \in 0..Len(s)
      /\ m > 0 => s[m] = u
      /\ \A i \in 1..Len(s) : s[i] = u => i <= m
  BY <1>2, LastPlace
<1>5. /\ Client!Latest(u) \in 0..Len(log)
      /\ Client!Latest(u) > 0 => log[Client!Latest(u)] = u
      /\ \A i \in 1..Len(log) : log[i] = u => i <= Client!Latest(u)
  BY LatestIs DEF Client!Newest
<1> HIDE DEF m
<1>6. CASE u = t
  <2>1. Len(log) + 1 \in 1..Len(s)
    BY <1>1, <1>2
  <2>2. Len(log) + 1 <= m
    BY <1>2, <1>4, <1>6, <2>1
  <2>3. m = Len(log) + 1
    BY <1>1, <1>2, <1>4, <2>2
  <2> QED
    BY <1>3, <1>6, <2>3 DEF Client!Newest, m
<1>7. CASE u # t
  <2>1. m \in 0..Len(log)
    BY <1>1, <1>2, <1>4, <1>7
  <2>2. m > 0 => log[m] = u
    BY <1>2, <1>4, <2>1
  <2>3. m <= Client!Latest(u)
    BY <1>1, <1>5, <2>1, <2>2
  <2>4. Client!Latest(u) > 0 => s[Client!Latest(u)] = u /\ Client!Latest(u) \in 1..Len(s)
    BY <1>1, <1>2, <1>5
  <2>5. Client!Latest(u) <= m
    BY <1>1, <1>4, <1>5, <2>1, <2>4
  <2>6. m = Client!Latest(u)
    BY <1>1, <1>5, <2>1, <2>3, <2>5
  <2> QED
    BY <1>3, <1>7, <2>6 DEF m
<1> QED
  BY <1>6, <1>7

\* Client counts with a definition of its own.
LEMMA SameCardinality == \A S : Client!Cardinality(S) = Cardinality(S)
BY DEF Client!Cardinality, Cardinality

\* What is answered is visible, and all that is visible if it fits.
LEMMA AnswerIs ==
  ASSUME Client!BoundsAssumption, Client!TypeOK, NEW c \in Nat, NEW limit \in Nat
  PROVE  /\ Client!EventsAfter(c, limit) \subseteq Client!Visible(c)
         /\ ~Client!Exceeds(c, limit) => Client!EventsAfter(c, limit) = Client!Visible(c)
         /\ \A i \in Client!Visible(c) : i \in 1..Client!Newest /\ i > c /\ i > floor /\ log[i] # Hidden
<1>1. Client!Newest \in Nat /\ floor \in Nat
  BY DEF Client!TypeOK, Client!Newest, Client!Revisions, Client!BoundsAssumption
<1>2. \A i \in Client!Visible(c) : i \in 1..Client!Newest /\ i > c /\ i > floor /\ log[i] # Hidden
  BY <1>1 DEF Client!Visible
<1>3. IsFiniteSet(Client!Visible(c))
  <2>1. IsFiniteSet(1..Client!Newest)
    BY <1>1, FS_Interval
  <2>2. Client!Visible(c) \subseteq 1..Client!Newest
    BY <1>2
  <2> QED
    BY <2>1, <2>2, FS_Subset
<1>4. ASSUME ~Client!Exceeds(c, limit), NEW i \in Client!Visible(c)
      PROVE  Cardinality({j \in Client!Visible(c) : j <= i}) <= limit
  <2> DEFINE first == {j \in Client!Visible(c) : j <= i}
  <2>1. first \subseteq Client!Visible(c)
    OBVIOUS
  <2>2. IsFiniteSet(first) /\ Cardinality(first) <= Cardinality(Client!Visible(c))
    BY <1>3, <2>1, FS_Subset
  <2>3. Cardinality(first) \in Nat /\ Cardinality(Client!Visible(c)) \in Nat
    BY <1>3, <2>2, FS_CardinalityType
  <2>4. Cardinality(Client!Visible(c)) <= limit
    BY <1>4, <2>3, SameCardinality DEF Client!Exceeds
  <2> QED
    BY <2>2, <2>3, <2>4
<1> QED
  BY <1>2, <1>4, SameCardinality DEF Client!EventsAfter

-----------------------------------------------------------------------------
LEMMA ClientInit ==
  ASSUME Client!BoundsAssumption, Client!Init
  PROVE  ClientInv
<1>1. 0 \in Client!Revisions /\ 0 \in 0..MaxFailures
  BY DEF Client!BoundsAssumption, Client!Revisions
<1>2. log \in Seq(Topics \cup {Hidden}) /\ Client!Newest = 0
      /\ cursor \in {0, Client!NoCursor} /\ (Resumed => cursor = 0)
  BY DEF Client!Init, Client!Newest, Resumed, Client!NoCursor
<1>3. Client!TypeOK
  BY <1>1, <1>2 DEF Client!Init, Client!TypeOK, Client!Awaits
<1>4. Positions
  BY <1>2 DEF Client!Init, Positions, Client!BoundsAssumption, Client!NoCursor
<1>5. \A t \in Topics : Client!Latest(t) = 0
  BY <1>2, <1>3, LatestIs
<1>6. Heard
  BY <1>2, <1>5 DEF Client!Init, Heard
<1> QED
  BY <1>3, <1>4, <1>6 DEF ClientInv

\* A step that leaves the log and the view alone.
LEMMA SameLatest ==
  ASSUME UNCHANGED Client!core
  PROVE  Client!Newest' = Client!Newest /\ \A t : Client!Latest(t)' = Client!Latest(t)
BY DEF Client!core, Client!Latest, Client!Newest

LEMMA FailureCounted ==
  ASSUME Client!BoundsAssumption, Client!TypeOK, failures < MaxFailures,
         failures' = failures + 1
  PROVE  failures' \in 0..MaxFailures
BY DEF Client!BoundsAssumption, Client!TypeOK

\* Positions count from nought to the end of the log.
LEMMA Numbers ==
  ASSUME Client!BoundsAssumption, Client!TypeOK, Positions
  PROVE  /\ Client!Newest \in Nat /\ Client!Newest <= MaxEvents /\ MaxEvents \in Nat
         /\ Retention \in Nat \ {0}
         /\ PollLimit \in Nat /\ SnapshotLimit \in Nat
         /\ cursor # Client!NoCursor => cursor \in Nat
         /\ Resumed => cursor \in Nat /\ cursor # Client!NoCursor
         /\ Client!PollFrom(cursor) \in 0..Client!Newest /\ (cursor # Client!NoCursor => Client!PollFrom(cursor) = cursor)
         /\ adopt \in Nat /\ floor \in Nat
         /\ floor <= Client!Newest /\ (Client!Newest > 0 => floor < Client!Newest)
         /\ \A i \in events : i \in Nat
<1>1. Client!Newest \in Nat /\ Client!Newest <= MaxEvents /\ MaxEvents \in Nat /\ Retention \in Nat \ {0}
      /\ PollLimit \in Nat /\ SnapshotLimit \in Nat
  BY DEF Client!TypeOK, Client!Newest, Client!Revisions, Client!BoundsAssumption
<1> QED
  BY <1>1 DEF Positions, Client!NoCursor, Client!PollFrom

LEMMA PublishKeeps ==
  ASSUME Client!BoundsAssumption, ClientInv, NEW t \in Topics \cup {Hidden}, Client!Publish(t)
  PROVE  ClientInv'
<1>1. /\ Client!Newest < MaxEvents /\ log' = Append(log, t)
      /\ UNCHANGED <<at, cursor, view, fetching, events, adopt, missed, pruned, truncated,
                     failures>>
  BY DEF Client!Publish
<1>2. /\ Client!Newest \in Nat /\ Client!Newest <= MaxEvents /\ MaxEvents \in Nat
      /\ Retention \in Nat \ {0}
      /\ Resumed => cursor \in Nat
      /\ adopt \in Nat /\ floor \in Nat /\ floor <= Client!Newest
      /\ \A i \in events : i \in Nat
  BY Numbers DEF ClientInv
<1>3. /\ log' \in Seq(Topics \cup {Hidden}) /\ Client!Newest' = Client!Newest + 1
      /\ \A i \in 1..Client!Newest : log'[i] = log[i]
  BY <1>1 DEF ClientInv, Client!TypeOK, Client!Newest
<1>4. floor' = IF Client!Newest + 1 > Retention THEN Client!Newest + 1 - Retention ELSE 0
  <2> DEFINE kept == IF Client!Newest + 1 > Retention THEN Client!Newest + 1 - Retention ELSE 0
             S == {floor, kept}
  <2>1. kept \in 0..(Client!Newest + 1) /\ floor <= kept
    BY <1>2 DEF ClientInv, Positions
  <2>2. S \in SUBSET (0..(Client!Newest + 1)) /\ S # {}
    BY <1>2, <2>1
  <2>3. Client!Max(S) \in S /\ \A y \in S : y <= Client!Max(S)
    <3> HIDE DEF S
    <3>1. Client!Newest + 1 \in Nat
      BY <1>2
    <3> QED
      BY <2>2, <3>1, GreatestIs
  <2>4. floor' = Client!Max(S)
    BY DEF Client!Publish
  <2> QED
    BY <1>2, <2>1, <2>3, <2>4
<1>5. Client!TypeOK'
  BY <1>1, <1>2, <1>3, <1>4 DEF ClientInv, Client!TypeOK, Client!Revisions
<1>6. Positions'
  <2>1. ASSUME NEW i \in events'
        PROVE  i \in 1..Client!Newest' /\ log'[i] # Hidden
    <3>1. i \in 1..Client!Newest /\ log[i] # Hidden
      BY <1>1 DEF ClientInv, Positions
    <3>2. log'[i] = log[i] /\ i \in 1..(Client!Newest + 1)
      BY <1>2, <1>3, <3>1
    <3> QED
      BY <1>3, <3>1, <3>2
  <2>2. /\ cursor' \in (0..Client!Newest') \cup {Client!NoCursor}
        /\ adopt' \in 0..Client!Newest'
        /\ Resumed => cursor' # Client!NoCursor
    BY <1>1, <1>2, <1>3 DEF ClientInv, Positions
  <2>3. floor' = IF Client!Newest' > Retention THEN Client!Newest' - Retention ELSE 0
    BY <1>2, <1>3, <1>4
  <2> QED
    BY <2>1, <2>2, <2>3 DEF Positions
<1>7. Heard'
  <2> SUFFICES ASSUME Resumed, ~pruned, ~truncated
               PROVE  Heard'
    BY <1>1 DEF Heard
  <2>1. /\ at' \notin {"recovery", "recovery events"}
        /\ at' = "handle" => \A i \in events' : i > cursor'
    BY <1>1 DEF ClientInv, Heard
  <2>2. ASSUME NEW u \in Topics \ missed, Client!Latest(u)' > view[u]
        PROVE  Client!Latest(u)' > cursor /\ (at = "handle" => Awaited(u)')
    <3>1. CASE u = t
      <4>1. Client!Latest(u)' = Client!Newest + 1
        BY <1>1, <3>1, LatestAfter DEF ClientInv
      <4> QED
        BY <1>1, <1>2, <4>1 DEF Awaited, ClientInv, Positions
    <3>2. CASE u # t
      <4>1. Client!Latest(u)' = Client!Latest(u)
        BY <1>1, <3>2, LatestAfter DEF ClientInv
      <4> QED
        BY <1>1, <2>2, <4>1 DEF Awaited, ClientInv, Heard
    <3> QED
      BY <3>1, <3>2
  <2> QED
    BY <1>1, <2>1, <2>2 DEF Heard
<1> QED
  BY <1>5, <1>6, <1>7 DEF ClientInv

\* A fetched topic is shown as it is, one that is not is missed.
LEMMA Fetching ==
  ASSUME Client!BoundsAssumption, ClientInv, NEW T \in SUBSET Topics,
         Client!Fetched(T) \/ Client!Unfetched(T)
  PROVE  /\ view' \in [Topics -> Client!Revisions] /\ missed' \subseteq Topics
         /\ failures' \in 0..MaxFailures
         /\ \A u \in Topics \ missed' :
              \/ view'[u] = Client!Latest(u)
              \/ u \notin missed /\ u \notin T /\ view'[u] = view[u]
<1>1. \A u : Client!Latest(u) \in Client!Revisions
  BY LatestIs, Numbers DEF ClientInv, Client!Revisions
<1>2. CASE Client!Fetched(T)
  BY <1>1, <1>2 DEF Client!Fetched, ClientInv, Client!TypeOK
<1>3. CASE Client!Unfetched(T)
  <2>1. failures' \in 0..MaxFailures
    BY <1>3, FailureCounted DEF Client!Unfetched, ClientInv
  <2> QED
    BY <1>3, <2>1 DEF Client!Unfetched, ClientInv, Client!TypeOK
<1> QED
  BY <1>2, <1>3

LEMMA RefreshKeeps ==
  ASSUME Client!BoundsAssumption, ClientInv, NEW t \in Topics, Client!Refresh(t)
  PROVE  ClientInv'
<1>1. PICK T \in SUBSET Topics : Client!Fetched(T) \/ Client!Unfetched(T)
  BY DEF Client!Refresh
<1>2. /\ UNCHANGED <<Client!core, cursor, events, adopt, pruned, truncated>>
      /\ at = "refresh" /\ at' \in {"snapshot", "refresh"} /\ fetching' \subseteq fetching
  BY DEF Client!Refresh
<1>3. Client!Newest' = Client!Newest /\ \A u : Client!Latest(u)' = Client!Latest(u)
  BY <1>2, SameLatest
<1>4. Client!TypeOK'
  BY <1>1, <1>2, <1>3, Fetching DEF ClientInv, Client!TypeOK, Client!core, Client!Awaits
<1>5. Positions'
  BY <1>2, <1>3 DEF ClientInv, Positions, Client!core
<1>6. Heard'
  <2> SUFFICES ASSUME Resumed, ~pruned, ~truncated, NEW u \in Topics \ missed',
                      Client!Latest(u) > view'[u]
               PROVE  Client!Latest(u) > cursor
    BY <1>2, <1>3 DEF Heard
  <2>1. Client!Latest(u) \in Nat
    BY LatestIs, Numbers DEF ClientInv
  <2>2. u \notin missed /\ view'[u] = view[u]
    BY <1>1, <2>1, Fetching
  <2> QED
    BY <2>2 DEF ClientInv, Heard
<1> QED
  BY <1>4, <1>5, <1>6 DEF ClientInv

\* Requests begin, fail, or are forgotten with the app; the cursor stays.
LEMMA RequestsKeep ==
  ASSUME Client!BoundsAssumption, ClientInv,
         Client!RequestSnapshot \/ Client!SnapshotFails \/ Client!RequestFails \/ Client!RequestRecovery \/ Client!Restart
  PROVE  ClientInv'
<1>1. /\ UNCHANGED <<Client!core, cursor, view, missed, pruned, truncated>>
      /\ events' \in {events, {}} /\ adopt' \in {adopt, Client!Newest}
      /\ fetching' \in {fetching, Topics}
      /\ at' \in Client!Awaits \ {"handle"}
      /\ at' \in {"recovery", "recovery events"} => at \in {"recovery", "recovery events"}
  BY DEF Client!RequestSnapshot, Client!SnapshotFails, Client!RequestFails,
     Client!RequestRecovery, Client!Restart, Client!SnapshotBegins,
     Client!Awaits
<1>2. failures' \in 0..MaxFailures
  <2>1. \/ failures' = failures
        \/ failures < MaxFailures /\ failures' = failures + 1
    BY DEF Client!RequestSnapshot, Client!SnapshotFails, Client!RequestFails,
       Client!RequestRecovery, Client!Restart
  <2> QED
    BY <2>1, FailureCounted DEF ClientInv, Client!TypeOK
<1>3. Client!Newest' = Client!Newest /\ \A u : Client!Latest(u)' = Client!Latest(u)
  BY <1>1, SameLatest
<1>4. Client!Newest \in Client!Revisions /\ Client!Newest \in 0..Client!Newest
  BY Numbers DEF ClientInv, Client!Revisions
<1>5. Client!TypeOK'
  BY <1>1, <1>2, <1>3, <1>4 DEF ClientInv, Client!TypeOK, Client!core
<1>6. Positions'
  BY <1>1, <1>3, <1>4 DEF ClientInv, Positions, Client!core
<1>7. Heard'
  BY <1>1, <1>3 DEF ClientInv, Heard
<1> QED
  BY <1>5, <1>6, <1>7 DEF ClientInv

\* A complete answer from a cursor within what is kept has every change beyond that cursor.
LEMMA AnswerHasAll ==
  ASSUME Client!BoundsAssumption, ClientInv, Resumed, NEW limit \in Nat,
         ~Client!NeedsReset(cursor),
         ~Client!Exceeds(cursor, limit), NEW t \in Topics, Client!Latest(t) > cursor
  PROVE  Client!Latest(t) \in Client!EventsAfter(cursor, limit)
<1>1. /\ Client!Newest \in Nat /\ cursor \in Nat /\ floor \in Nat /\ floor <= Client!Newest
      /\ Client!Newest > 0 => floor < Client!Newest
  BY Numbers DEF ClientInv
<1>2. floor <= cursor
  BY <1>1 DEF Client!NeedsReset, Client!Minimum
<1>3. /\ Client!Latest(t) \in 0..Client!Newest
      /\ Client!Latest(t) > 0 => log[Client!Latest(t)] = t
  BY LatestIs DEF ClientInv
<1>4. Client!Latest(t) \in Client!Visible(cursor)
  BY <1>1, <1>2, <1>3 DEF Client!Visible, Client!BoundsAssumption
<1> QED
  BY <1>1, <1>4, AnswerIs DEF ClientInv

\* The events of an answer wait to be handled.
LEMMA AnswersKeep ==
  ASSUME Client!BoundsAssumption, ClientInv, NEW limit \in Nat, NEW from \in Nat,
         UNCHANGED <<Client!core, cursor, view, fetching, missed, failures>>,
         adopt' \in {adopt, Client!Newest}, at' = "handle",
         events' = Client!EventsAfter(from, limit),
         truncated' = (truncated \/ Client!Exceeds(from, limit)), pruned' \in BOOLEAN,
         Resumed /\ ~pruned' /\ ~truncated' => ~pruned /\ from = cursor /\ ~Client!NeedsReset(cursor)
  PROVE  ClientInv'
<1>1. Client!Newest' = Client!Newest /\ \A u : Client!Latest(u)' = Client!Latest(u)
  BY SameLatest
<1>2. Client!Newest \in Nat /\ Client!Newest \in Client!Revisions
  BY Numbers DEF ClientInv, Client!Revisions
<1>3. \A i \in events' : i \in 1..Client!Newest /\ i > from /\ log[i] # Hidden
  BY AnswerIs DEF ClientInv
<1>4. events' \subseteq Client!Revisions
  BY <1>2, <1>3, Numbers DEF ClientInv, Client!Revisions
<1>5. truncated' \in BOOLEAN
  BY DEF ClientInv, Client!TypeOK, Client!Exceeds
<1>6. Client!TypeOK'
  BY <1>1, <1>2, <1>4, <1>5 DEF ClientInv, Client!TypeOK, Client!core, Client!Awaits
<1>7. Positions'
  BY <1>1, <1>2, <1>3 DEF ClientInv, Positions, Client!core
<1>8. Heard'
  <2> SUFFICES ASSUME Resumed, ~pruned', ~truncated'
               PROVE  Heard'
    BY DEF Heard
  <2>1. ~pruned /\ ~truncated /\ from = cursor /\ ~Client!NeedsReset(cursor) /\ ~Client!Exceeds(cursor, limit)
    BY DEF ClientInv, Client!TypeOK
  <2>2. \A i \in events' : i > cursor'
    BY <1>3, <2>1
  <2>3. ASSUME NEW u \in Topics \ missed, Client!Latest(u) > view[u]
        PROVE  Client!Latest(u) > cursor /\ Client!Latest(u) \in events'
    <3>1. Client!Latest(u) > cursor
      BY <2>1, <2>3 DEF ClientInv, Heard
    <3> QED
      BY <2>1, <3>1, AnswerHasAll
  <2> QED
    BY <1>1, <2>2, <2>3 DEF Heard, Awaited
<1> QED
  BY <1>6, <1>7, <1>8 DEF ClientInv

LEMMA ArrivalsKeep ==
  ASSUME Client!BoundsAssumption, ClientInv, Client!SnapshotArrives \/ Client!RecoveryArrives
  PROVE  ClientInv'
<1>1. /\ adopt \in Nat /\ SnapshotLimit \in Nat
      /\ cursor # Client!NoCursor => cursor \in Nat
      /\ Resumed => cursor # Client!NoCursor
  BY Numbers DEF ClientInv
<1>2. CASE Client!SnapshotArrives
  <2> DEFINE from == IF cursor = Client!NoCursor THEN adopt ELSE cursor
  <2>1. /\ UNCHANGED <<Client!core, cursor, view, fetching, adopt, missed, failures>>
        /\ at' = "handle" /\ events' = Client!EventsAfter(from, SnapshotLimit)
        /\ truncated' = (truncated \/ Client!Exceeds(from, SnapshotLimit))
        /\ pruned' = (pruned \/ (cursor # Client!NoCursor /\ Client!NeedsReset(cursor)))
    BY <1>2 DEF Client!SnapshotArrives, Client!SnapshotEnds
  <2>2. from \in Nat /\ (Resumed => from = cursor)
    BY <1>1
  <2>3. pruned' \in BOOLEAN /\ (Resumed /\ ~pruned' => ~pruned /\ ~Client!NeedsReset(cursor))
    BY <1>1, <2>1 DEF ClientInv, Client!TypeOK, Client!NeedsReset
  <2> HIDE DEF from
  <2> QED
    BY <1>1, <2>1, <2>2, <2>3, AnswersKeep
<1>3. CASE Client!RecoveryArrives
  <2>1. /\ UNCHANGED <<Client!core, cursor, view, fetching, adopt, missed, pruned, failures>>
        /\ at' = "handle" /\ events' = Client!EventsAfter(adopt, SnapshotLimit)
        /\ truncated' = (truncated \/ Client!Exceeds(adopt, SnapshotLimit))
        /\ at = "recovery events"
    BY <1>3 DEF Client!RecoveryArrives, Client!SnapshotEnds, Client!NoCursor
  <2>2. pruned' \in BOOLEAN /\ ~(Resumed /\ ~pruned' /\ ~truncated')
    BY <2>1 DEF ClientInv, Client!TypeOK, Heard
  <2> QED
    BY <1>1, <2>1, <2>2, AnswersKeep
<1> QED
  BY <1>2, <1>3

LEMMA PollKeeps ==
  ASSUME Client!BoundsAssumption, ClientInv, Client!PollAnswered
  PROVE  ClientInv'
<1> DEFINE c == Client!PollFrom(cursor)
<1>1. c \in Nat /\ PollLimit \in Nat /\ (Resumed => c = cursor)
  BY Numbers DEF ClientInv
<1>2. /\ UNCHANGED <<Client!core, cursor, view, fetching, missed, failures>>
      /\ pruned' = (pruned \/ Client!NeedsReset(c))
  BY DEF Client!PollAnswered
<1>3. pruned' \in BOOLEAN /\ (~pruned' => ~pruned /\ ~Client!NeedsReset(c))
  BY <1>2 DEF ClientInv, Client!TypeOK, Client!NeedsReset
<1>4. CASE Client!NeedsReset(c)
  <2>1. /\ at' = "recovery" /\ UNCHANGED <<events, adopt, truncated>>
        /\ pruned' = TRUE
    BY <1>2, <1>3, <1>4 DEF Client!PollAnswered
  <2>2. Client!Newest' = Client!Newest
    BY <1>2, SameLatest
  <2> QED
    BY <1>2, <1>3, <2>1, <2>2 DEF ClientInv, Client!TypeOK, Positions, Heard, Client!core,
       Client!Awaits
<1>5. CASE ~Client!NeedsReset(c)
  <2>1. /\ events' = Client!EventsAfter(c, PollLimit) /\ at' = "handle"
        /\ adopt' = Client!Newest
        /\ truncated' = (truncated \/ Client!Exceeds(c, PollLimit))
    BY <1>5 DEF Client!PollAnswered
  <2> HIDE DEF c
  <2> QED
    BY <1>1, <1>2, <1>3, <2>1, AnswersKeep
<1> QED
  BY <1>4, <1>5

LEMMA HandleKeeps ==
  ASSUME Client!BoundsAssumption, ClientInv, Client!Handle
  PROVE  ClientInv'
<1> DEFINE i == Client!Min(events)
<1>1. /\ Client!Newest \in Nat
      /\ \A j \in events : j \in Nat /\ j \in 1..Client!Newest /\ log[j] # Hidden
  BY Numbers DEF ClientInv, Positions
<1>2. i \in events /\ \A j \in events : i <= j
  <2>1. events \in SUBSET Nat /\ events # {}
    BY <1>1 DEF Client!Handle
  <2> QED
    BY <2>1, LeastIs
<1>3. /\ cursor' = i /\ events' = events \ {i} /\ at = "handle"
      /\ Client!Fetched({log[i]}) \/ Client!Unfetched({log[i]})
      /\ UNCHANGED <<Client!core, at, fetching, adopt, pruned, truncated>>
  BY DEF Client!Handle
<1> HIDE DEF i
<1>4. {log[i]} \in SUBSET Topics
  BY <1>1, <1>2 DEF ClientInv, Client!TypeOK, Client!Newest
<1>5. Client!Newest' = Client!Newest /\ \A u : Client!Latest(u)' = Client!Latest(u)
  BY <1>3, SameLatest
<1>6. Client!TypeOK'
  BY <1>2, <1>3, <1>4, <1>5, Fetching DEF ClientInv, Client!TypeOK, Client!core
<1>7. Positions'
  BY <1>1, <1>2, <1>3, <1>5 DEF ClientInv, Positions, Client!core, Client!NoCursor
<1>8. Heard'
  <2> SUFFICES ASSUME Resumed, ~pruned, ~truncated
               PROVE  Heard'
    BY <1>3 DEF Heard
  <2>1. at' = "handle" /\ \A j \in events' : j > cursor'
    BY <1>1, <1>2, <1>3
  <2>2. ASSUME NEW u \in Topics \ missed', Client!Latest(u) > view'[u]
        PROVE  /\ Client!Latest(u) > i
               /\ \/ Client!Latest(u) \in events'
                  \/ Client!Latest(u) > adopt /\ \A j \in events' : Client!Latest(u) > j
    <3>1. Client!Latest(u) \in Nat /\ (Client!Latest(u) > 0 => log[Client!Latest(u)] = u)
      BY LatestIs, <1>1 DEF ClientInv
    <3>2. u \notin missed /\ u # log[i] /\ view'[u] = view[u]
      BY <1>3, <1>4, <2>2, <3>1, Fetching
    <3>3. Awaited(u)
      BY <1>3, <2>2, <3>2 DEF ClientInv, Heard
    <3>4. Client!Latest(u) # i
      BY <1>1, <1>2, <3>1, <3>2
    <3>5. CASE Client!Latest(u) \in events
      BY <1>1, <1>2, <1>3, <3>4, <3>5
    <3>6. CASE Client!Latest(u) > adopt /\ \A j \in events : Client!Latest(u) > j
      BY <1>2, <1>3, <3>6
    <3> QED
      BY <3>3, <3>5, <3>6 DEF Awaited
  <2> QED
    BY <1>3, <1>5, <2>1, <2>2 DEF Heard, Awaited
<1> QED
  BY <1>6, <1>7, <1>8 DEF ClientInv

LEMMA AdoptKeeps ==
  ASSUME Client!BoundsAssumption, ClientInv, Client!AdoptCursor
  PROVE  ClientInv'
<1>1. /\ at = "handle" /\ events = {} /\ cursor' = adopt /\ at' = "poll"
      /\ UNCHANGED <<Client!core, view, fetching, events, adopt, missed, pruned, truncated,
                     failures>>
  BY DEF Client!AdoptCursor
<1>2. Client!Newest' = Client!Newest /\ \A u : Client!Latest(u)' = Client!Latest(u)
  BY <1>1, SameLatest
<1>3. Client!TypeOK'
  BY <1>1, <1>2 DEF ClientInv, Client!TypeOK, Client!core, Client!Awaits
<1>4. Positions'
  BY <1>1, <1>2 DEF ClientInv, Positions, Client!core, Client!NoCursor
<1>5. Heard'
  BY <1>1, <1>2 DEF ClientInv, Heard, Awaited
<1> QED
  BY <1>3, <1>4, <1>5 DEF ClientInv

LEMMA ClientKept == ASSUME Client!BoundsAssumption, ClientInv, Client!Next PROVE ClientInv'
BY PublishKeeps, RefreshKeeps, RequestsKeep, ArrivalsKeep, PollKeeps, HandleKeeps, AdoptKeeps
   DEF Client!Next, Client!ClientStep

LEMMA ClientRests == ASSUME ClientInv, UNCHANGED Client!vars PROVE ClientInv'
<1>1. UNCHANGED Client!core /\ UNCHANGED <<at, cursor, view, fetching, events, adopt, missed,
                                           pruned,
        truncated, failures>>
  BY DEF Client!vars
<1>2. Client!Newest' = Client!Newest /\ \A u : Client!Latest(u)' = Client!Latest(u)
  BY <1>1, SameLatest
<1> QED
  BY <1>1, <1>2 DEF Client!core, ClientInv, Client!TypeOK, Positions, Heard, Awaited

\* When a poll is told to reset, and what one will hear of that had a cursor.
LEMMA ClientSafe ==
  ASSUME Client!BoundsAssumption, ClientInv
  PROVE  Client!ResetWhenPruned /\ (Resumed => Client!NothingSkippedUnpruned)
<1> DEFINE c == Client!PollFrom(cursor)
<1>1. /\ Client!Newest \in Nat /\ c \in 0..Client!Newest /\ floor \in Nat
      /\ floor <= Client!Newest
      /\ Client!Newest > 0 => floor < Client!Newest
      /\ PollLimit \in Nat /\ (Resumed => c = cursor)
  BY Numbers DEF ClientInv
<1>2. Resumed => Client!NothingSkippedUnpruned
  BY <1>1 DEF Client!NothingSkippedUnpruned, Client!NothingSkipped, ClientInv, Heard
<1> HIDE DEF c
<1>3. Client!NeedsReset(c) <=> \E i \in 1..floor : i > c
  <2>1. Client!NeedsReset(c) <=> c < floor
    BY <1>1 DEF Client!NeedsReset, Client!Minimum
  <2>2. c < floor => floor \in 1..floor /\ floor > c
    BY <1>1
  <2> QED
    BY <1>1, <2>1, <2>2
<1>4. ASSUME ~Client!NeedsReset(c), ~Client!Exceeds(c, PollLimit),
             NEW i \in (c + 1)..Client!Newest, log[i] # Hidden
      PROVE  i \in Client!EventsAfter(c, PollLimit)
  <2>1. floor <= c
    BY <1>1, <1>4 DEF Client!NeedsReset, Client!Minimum
  <2>2. i \in Client!Visible(c)
    BY <1>1, <1>4, <2>1 DEF Client!Visible
  <2> QED
    BY <1>1, <1>4, <2>2, AnswerIs DEF ClientInv
<1> QED
  BY <1>2, <1>3, <1>4 DEF Client!ResetWhenPruned, c

-----------------------------------------------------------------------------
(* Pilot Core.                                                             *)

CoreInv == AccessInv /\ MeetingInv /\ HomeInv /\ ClientInv

\* A component rests when its variables do.
LEMMA AccessAtRest == ASSUME ConstantsFit, AccessInv, UNCHANGED vars PROVE AccessInv'
BY AccessKept

LEMMA MeetingAtRest == ASSUME MeetingInv, UNCHANGED meeting PROVE MeetingInv'
BY MeetingRests DEF meeting, Meeting!vars, Meeting!data

LEMMA HomeAtRest == ASSUME HomeInv, UNCHANGED home PROVE HomeInv'
BY HomeRests DEF home, Home!vars

LEMMA ClientAtRest == ASSUME ClientInv, UNCHANGED client PROVE ClientInv'
BY ClientRests DEF client, Client!vars, Client!core

\* A step of Pilot Core is one of a component, and the others rest.
LEMMA CoreSteps ==
  ASSUME [CoreNext]_<<component, vars, meeting, home, client>>
  PROVE  /\ Next \/ UNCHANGED vars
         /\ Meeting!Next \/ UNCHANGED meeting
         /\ Home!Next \/ UNCHANGED home
         /\ Client!Next \/ UNCHANGED client
BY DEF CoreNext, AccessNext, MeetingNext, HomeNext, ClientNext

LEMMA CoreInitially == CoreInit => CoreInv
BY CoreConstants, AccessInit, MeetingInit, HomeInit, ClientInit DEF CoreInit, CoreInv

LEMMA CoreKept ==
  ASSUME CoreInv, [CoreNext]_<<component, vars, meeting, home, client>>
  PROVE  CoreInv'
<1>1. AccessInv'
  BY CoreSteps, CoreConstants, AccessKept, AccessAtRest DEF CoreInv
<1>2. MeetingInv'
  BY CoreSteps, CoreConstants, MeetingKept, MeetingAtRest DEF CoreInv
<1>3. HomeInv'
  BY CoreSteps, CoreConstants, HomeKept, HomeAtRest DEF CoreInv
<1>4. ClientInv'
  BY CoreSteps, CoreConstants, ClientKept, ClientAtRest DEF CoreInv
<1> QED
  BY <1>1, <1>2, <1>3, <1>4 DEF CoreInv

LEMMA CoreInvariant == CoreSpec => []CoreInv
<1>1. CoreInit => CoreInv
  BY CoreInitially
<1>2. CoreInv /\ [CoreNext]_<<component, vars, meeting, home, client>> => CoreInv'
  BY CoreKept
<1> QED
  BY <1>1, <1>2, PTL DEF CoreSpec

\* Every component keeps the types of its variables, also a client that starts without a
\* cursor.
THEOREM CoreTypes == CoreSpec => []TypesOK
<1>1. CoreInv => TypesOK
  BY DEF CoreInv, AccessInv, MeetingInv, HomeInv, ClientInv, TypesOK
<1> QED
  BY <1>1, CoreInvariant, PTL

\* A registered socket was let in with the device's present credential, but for the two ways
\* the code leaves open, and a grant or a ticket lets somebody in at most once (api.py
\* DeviceHub, storage.py redeem_bootstrap_grant).
THEOREM AdmissionStaysCurrent == CoreSpec => []AdmissionIsCurrent
<1>1. CoreInv => AdmissionIsCurrent
  BY DEF CoreInv, AccessInv, AdmissionIsCurrent, AdmittedOnce, UsedUp
<1> QED
  BY <1>1, CoreInvariant, PTL

\* However uploads, edits and processors overlap, a meeting that is ready with the model's
\* analysis shows one of its present transcript and recording, unless one of them was replaced
\* while a processor was at work (meetings.py, storage.py).
THEOREM ReadyStaysConsistent == CoreSpec => []ReadyIsConsistent
<1>1. CoreInv => ReadyIsConsistent
  BY DEF CoreInv, MeetingInv, ReadyIsConsistent
<1> QED
  BY <1>1, CoreInvariant, PTL

\* However synchronizations fail, an action that takes an entity's room from the catalogue takes
\* the one the registries gave last (home_intelligence.py, home_actions.py).
THEOREM RoomsAreRegistered == CoreSpec => []RoomIsRegistered
<1>1. CoreInv => RoomIsRegistered
  BY CoreConstants, HomeSafe DEF CoreInv, RoomIsRegistered
<1> QED
  BY <1>1, CoreInvariant, PTL

\* A client with a kept cursor hears of every change its view does not show, unless events it
\* had not asked for were deleted or an answer was cut off, and is told of the former (storage.py
\* client_events_after, PilotModel.swift runUpdateLoop).
THEOREM NothingIsSkipped == Resumed => (CoreSpec => []GapsAreTold)
<1> SUFFICES ASSUME Resumed PROVE CoreSpec => []GapsAreTold
  OBVIOUS
<1>1. CoreInv => GapsAreTold
  BY CoreConstants, ClientSafe DEF CoreInv, GapsAreTold
<1> QED
  BY <1>1, CoreInvariant, PTL
=============================================================================
