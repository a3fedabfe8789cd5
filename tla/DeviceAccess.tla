----------------------------- MODULE DeviceAccess -----------------------------
(***************************************************************************)
(* Who may speak for a device: one-time grants, the credential in the      *)
(* device's row, its rotation and revocation, the command socket of the    *)
(* device and its event stream.                                            *)
(*                                                                         *)
(* Core keeps the hash of one token per device; every token is fresh, so a *)
(* number stands for it.  A socket is authenticated when it is opened and   *)
(* registered one await later; an event stream is authenticated again in   *)
(* every round.                                                            *)
(***************************************************************************)
EXTENDS Naturals

CONSTANTS
  Grants,      \* bootstrap grants an administrator may create
  Tickets,     \* stream tickets the client may ask for
  Sockets,     \* command sockets the device may open
  MaxTokens,   \* tokens issued
  Legacy       \* server.legacy_bootstrap_enabled

NoToken == 0
NoSocket == "no socket"

\* A grant is no ticket, and no socket is called "no socket".
ConstantsFit ==
  /\ MaxTokens \in Nat
  /\ Grants \cap Tickets = {}
  /\ NoSocket \notin Sockets

VARIABLES
  device,    \* the row: its token, NoToken before there is one, and revoked_at
  grants,    \* grant -> absent, open, used or lapsed
  tickets,   \* ticket -> absent, open, lapsed or gone
  hub,       \* the socket in DeviceHub.connections
  sockets,   \* socket -> where its handler stands, and the token it presented
  stream,    \* the event stream: where it stands, its token
  held,      \* the token the client keeps
  answer,    \* the newest token, while it is on its way to the client
  issued,    \* tokens issued so far
  admitted   \* grant or ticket -> how often it let somebody in

vars == <<device, grants, tickets, hub, sockets, stream, held, answer, issued, admitted>>
access == <<grants, tickets, admitted>>

Tokens == 0..MaxTokens
Free == [at |-> "free", token |-> NoToken, late |-> FALSE, kept |-> FALSE]
NoStream == [at |-> "free", token |-> NoToken]
Valid(t) == t # NoToken /\ t = device.token /\ ~device.revoked

TypeOK ==
  /\ device \in [token: Tokens, revoked: BOOLEAN]
  /\ grants \in [Grants -> {"absent", "open", "used", "lapsed"}]
  /\ tickets \in [Tickets -> {"absent", "open", "lapsed", "gone"}]
  /\ hub \in Sockets \cup {NoSocket}
  /\ sockets \in [Sockets -> [at: {"free", "accepting", "serving", "closing"},
                              token: Tokens, late: BOOLEAN, kept: BOOLEAN]]
  /\ stream \in [at: {"free", "checking", "sending"}, token: Tokens]
  /\ held \in Tokens /\ answer \in Tokens /\ issued \in Tokens
  /\ hub # NoSocket => sockets[hub].at = "serving"
  /\ issued >= device.token

Init ==
  /\ device = [token |-> NoToken, revoked |-> FALSE]
  /\ grants = [g \in Grants |-> "absent"] /\ tickets = [t \in Tickets |-> "absent"]
  /\ hub = NoSocket
  /\ sockets = [s \in Sockets |-> Free]
  /\ stream = NoStream
  /\ held = NoToken /\ answer = NoToken /\ issued = 0
  /\ admitted = [x \in Grants \cup Tickets |-> 0]

-----------------------------------------------------------------------------
(* The row and the hub                                                     *)

\* A new token replaces the old one and lifts a revocation.
Issue ==
  /\ issued < MaxTokens
  /\ issued' = issued + 1
  /\ device' = [token |-> issued + 1, revoked |-> FALSE]
  /\ answer' = issued + 1

\* Mutant: the socket of the device is left alone.
LeaveSocket == UNCHANGED <<hub, sockets>>

\* DeviceHub.close: the lock is free, so that it follows the change of the row
\* without an await between them.  The handler notices later.
CloseSocket ==
  /\ hub' = NoSocket
  /\ sockets' = IF hub = NoSocket THEN sockets
                ELSE [sockets EXCEPT ![hub].at = "closing"]

\* Registration and pairing issue a token and do not look for a socket.
KeepSocket ==
  /\ UNCHANGED hub
  /\ sockets' = IF hub = NoSocket THEN sockets ELSE [sockets EXCEPT ![hub].kept = TRUE]

\* An administrator rotates the credential or issues it anew; the client rotates
\* its own.
Rotate ==
  /\ device.token # NoToken
  /\ Issue /\ CloseSocket
  /\ UNCHANGED <<access, stream, held>>

RotateSelf == Valid(held) /\ Rotate

Reissue == Issue /\ CloseSocket /\ UNCHANGED <<access, stream, held>>

\* Revocation keeps the row; repeated, it changes nothing but closes again.
Revoke ==
  /\ device.token # NoToken
  /\ device' = [device EXCEPT !.revoked = TRUE]
  /\ CloseSocket
  /\ UNCHANGED <<access, stream, held, answer, issued>>

\* The legacy registration with the shared bootstrap token.
Register ==
  /\ Legacy
  /\ Issue /\ KeepSocket
  /\ UNCHANGED <<access, stream, held>>

-----------------------------------------------------------------------------
(* Grants and tickets                                                      *)

\* A new grant uses up the ones of the device that are still open.
CreateGrant(g) ==
  /\ grants[g] = "absent"
  /\ grants' = [h \in Grants |-> IF h = g THEN "open"
                                 ELSE IF grants[h] = "open" THEN "used" ELSE grants[h]]
  /\ UNCHANGED <<device, tickets, hub, sockets, stream, held, answer, issued, admitted>>

GrantLapses(g) ==
  /\ grants[g] = "open"
  /\ grants' = [grants EXCEPT ![g] = "lapsed"]
  /\ UNCHANGED <<device, tickets, hub, sockets, stream, held, answer, issued, admitted>>

\* Mutant: a used grant is looked up, but used_at is not looked at.
RedeemableAgain(g) == grants[g] \in {"open", "used"}

Redeemable(g) == grants[g] = "open"

Redeem(g) ==
  /\ Redeemable(g)
  /\ grants' = [grants EXCEPT ![g] = "used"]
  /\ admitted' = [admitted EXCEPT ![g] = @ + 1]
  /\ Issue /\ KeepSocket
  /\ UNCHANGED <<tickets, stream, held>>

\* The client asks for a media stream.  (Beyond a thousand tickets all are
\* forgotten, which is to a client as if its ticket had lapsed.)
IssueTicket(t) ==
  /\ Valid(held) /\ tickets[t] = "absent"
  /\ tickets' = [tickets EXCEPT ![t] = "open"]
  /\ UNCHANGED <<device, grants, hub, sockets, stream, held, answer, issued, admitted>>

TicketLapses(t) ==
  /\ tickets[t] = "open"
  /\ tickets' = [tickets EXCEPT ![t] = "lapsed"]
  /\ UNCHANGED <<device, grants, hub, sockets, stream, held, answer, issued, admitted>>

\* The ticket is taken out whether it is still good or not.
UseTicket(t) ==
  /\ tickets[t] \in {"open", "lapsed"}
  /\ tickets' = [tickets EXCEPT ![t] = "gone"]
  /\ admitted' = [admitted EXCEPT ![t] = IF tickets[t] = "open" THEN @ + 1 ELSE @]
  /\ UNCHANGED <<device, grants, hub, sockets, stream, held, answer, issued>>

-----------------------------------------------------------------------------
(* The client                                                              *)

\* The answer with the newest token arrives, and the client keeps it.  One that
\* is lost stays on its way for good; older ones carry dead tokens.
Keep ==
  /\ answer # NoToken
  /\ answer' = NoToken /\ held' = answer
  /\ UNCHANGED <<device, access, hub, sockets, stream, issued>>

-----------------------------------------------------------------------------
(* Command sockets                                                         *)

\* The handler authenticates the socket; accepting it is an await.
OpenSocket(s) ==
  /\ sockets[s].at = "free" /\ Valid(held)
  /\ sockets' = [sockets EXCEPT ![s].at = "accepting", ![s].token = held]
  /\ UNCHANGED <<device, access, hub, stream, held, answer, issued>>

\* DeviceHub.connect after accept: the credential is not looked at again.
Accepted(s) ==
  /\ sockets[s].at = "accepting"
  /\ hub' = s
  /\ sockets' = [x \in Sockets |->
                   IF x = s THEN [sockets[s] EXCEPT !.at = "serving",
                                                    !.late = ~Valid(sockets[s].token)]
                   ELSE IF x = hub THEN [sockets[x] EXCEPT !.at = "closing"]
                   ELSE sockets[x]]
  /\ UNCHANGED <<device, access, stream, held, answer, issued>>

\* The handler ends: its socket was closed by Core or lost.
SocketEnds(s) ==
  /\ sockets[s].at \in {"accepting", "serving", "closing"}
  /\ hub' = IF hub = s THEN NoSocket ELSE hub
  /\ sockets' = [sockets EXCEPT ![s] = Free]
  /\ UNCHANGED <<device, access, stream, held, answer, issued>>

-----------------------------------------------------------------------------
(* The event stream                                                        *)

OpenStream ==
  /\ stream.at = "free" /\ Valid(held)
  /\ stream' = [at |-> "sending", token |-> held]
  /\ UNCHANGED <<device, access, hub, sockets, held, answer, issued>>

\* Mutant: the stream trusts the credential it was opened with.
StreamRoundTrusting ==
  /\ stream.at = "checking"
  /\ stream' = [stream EXCEPT !.at = "sending"]
  /\ UNCHANGED <<device, access, hub, sockets, held, answer, issued>>

\* A round: the credential, then what there is to send, without an await.
StreamRound ==
  /\ stream.at = "checking"
  /\ stream' = IF Valid(stream.token) THEN [stream EXCEPT !.at = "sending"] ELSE NoStream
  /\ UNCHANGED <<device, access, hub, sockets, held, answer, issued>>

\* The send, or the quarter of a second in which a ping is waited for, is over.
StreamSent ==
  /\ stream.at = "sending"
  /\ stream' = [stream EXCEPT !.at = "checking"]
  /\ UNCHANGED <<device, access, hub, sockets, held, answer, issued>>

StreamBreaks ==
  /\ stream.at \in {"checking", "sending"}
  /\ stream' = NoStream
  /\ UNCHANGED <<device, access, hub, sockets, held, answer, issued>>

-----------------------------------------------------------------------------
StreamStep == StreamRound \/ StreamSent
Next ==
  \/ Rotate \/ RotateSelf \/ Reissue \/ Revoke \/ Register
  \/ \E g \in Grants : CreateGrant(g) \/ GrantLapses(g) \/ Redeem(g)
  \/ \E t \in Tickets : IssueTicket(t) \/ TicketLapses(t) \/ UseTicket(t)
  \/ Keep
  \/ \E s \in Sockets : OpenSocket(s) \/ Accepted(s) \/ SocketEnds(s)
  \/ OpenStream \/ StreamStep \/ StreamBreaks

Spec == Init /\ [][Next]_vars
FairSpec == Spec /\ WF_vars(StreamStep)

-----------------------------------------------------------------------------
\* A socket that was registered with a credential that has since been replaced
\* or revoked keeps its place only in two ways the code leaves open: it was
\* still being accepted when the hub closed the device's socket, or the
\* credential was replaced by a registration or a pairing, which do not close.
SessionIsCurrent ==
  hub # NoSocket => \/ Valid(sockets[hub].token)
                    \/ sockets[hub].late \/ sockets[hub].kept

\* However creation, lapse and redemption are interleaved, a grant and a ticket
\* let somebody in at most once.
AdmittedOnce == \A x \in Grants \cup Tickets : admitted[x] <= 1

\* Both together: who speaks for a device now, and who was ever let in.
AdmissionIsCurrent == SessionIsCurrent /\ AdmittedOnce

\* An event stream whose credential is replaced or revoked ends, since the loop
\* authenticates it again in every round.
StreamEnds ==
  (stream.at \in {"checking", "sending"} /\ ~Valid(stream.token)) ~> (stream = NoStream)
=============================================================================
