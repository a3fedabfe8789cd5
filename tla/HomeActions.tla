----------------------------- MODULE HomeActions -----------------------------
(***************************************************************************)
(* Governed home control: a client's typed action on one entity is         *)
(* recorded, confirmed when its risk is high, claimed once, sent to Home   *)
(* Assistant and reconciled with what Home Assistant reports afterwards.   *)
(*                                                                         *)
(* Every request is handled by tasks of Core's event loop.  What a task    *)
(* does between two awaits is one step, but for the points inside it where *)
(* a transaction has been committed and a crash would leave its rows: after *)
(* such a point the task still holds the loop, and only it or a crash can  *)
(* go on.  Home Assistant, the people at home and the catalogue move freely.*)
(***************************************************************************)
EXTENDS Naturals, Sequences, FiniteSets

CONSTANTS
  Requests,    \* identifiers of requests, as many as clients may make
  Devices,     \* the enrolled clients
  Entities,    \* the entities they control
  HighRisk,    \* those whose actions need a confirmation
  Subjects,    \* what may be asked: by whom, how, on which entity, which action
  MaxReads,    \* reads of the entity per reconciliation (3 in the code)
  MaxCrashes   \* crashes or restarts of Pilot Core explored

States == {"on", "off"}
Actions == {"turn_on", "turn_off", "toggle", "activate"}
NoRequest == "no request"
None == "none"

SubjectsAssumption ==
  /\ HighRisk \subseteq Entities
  /\ Subjects \subseteq [by : Devices, via : {"api", "assistant"}, entity : Entities,
                         action : Actions]
  /\ MaxReads \in Nat \ {0}
  /\ MaxCrashes \in Nat
  /\ NoRequest \notin Requests

NoSubject == [by |-> None, via |-> None, entity |-> None, action |-> None]

Waiting == {"pending_confirmation", "approved"}
Completions == {"succeeded", "unverified", "failed"}
Statuses == {None, "executing", "expired"} \cup Waiting \cup Completions

VARIABLES
  \* Pilot Core's database
  status,     \* request -> status of its row, None before it is inserted
  subject,    \* request -> what was asked
  lapsed,     \* requests whose expires_at lies in the past
  audit,      \* request -> its audit entries, oldest first
  announced,  \* request -> statuses announced in the client event log
  cached,     \* entity -> its state as of the last catalogue synchronisation
  listed,     \* entity -> what the catalogue says of it
  \* Pilot Core's memory
  task,       \* request -> where the task that executes it stands
  before,     \* request -> cached state of the entity when it was claimed
  reads,      \* request -> reconciliation reads done
  holder,     \* the request whose task holds the event loop, if any
  \* Home Assistant
  actual,     \* entity -> its state
  call,       \* request -> what became of the service call
  \* history and budget
  goal,       \* request -> the state the service call has set
  observed,   \* request -> the state its last reconciliation read returned
  crashes

rows      == <<status, subject, lapsed, audit>>
catalogue == <<cached, listed>>
memory    == <<task, before, reads, holder>>
house     == <<actual, call, goal>>
vars      == <<rows, announced, catalogue, memory, house, observed, crashes>>

Listings == {"usable", "unusable", "missing"}
TaskStates == {"none", "prepared", "calling", "reading", "announcing"}
AuditTypes == {"requested", "confirmation_required", "confirmed", "approved", "expired"}
                \cup Completions

TypeOK ==
  /\ status \in [Requests -> Statuses]
  /\ subject \in [Requests -> Subjects \cup {NoSubject}]
  /\ lapsed \subseteq Requests
  /\ audit \in [Requests -> Seq(AuditTypes)]
  /\ announced \in [Requests -> SUBSET Statuses]
  /\ cached \in [Entities -> States]
  /\ listed \in [Entities -> Listings]
  /\ task \in [Requests -> TaskStates]
  /\ before \in [Requests -> States \cup {None}]
  /\ reads \in [Requests -> 0..MaxReads]
  /\ holder \in Requests \cup {NoRequest}
  /\ actual \in [Entities -> States]
  /\ call \in [Requests -> {"none", "inflight", "performed", "refused"}]
  /\ goal \in [Requests -> States \cup {None}]
  /\ observed \in [Requests -> States \cup {None}]
  /\ crashes \in 0..MaxCrashes

Init ==
  /\ status = [r \in Requests |-> None]
  /\ subject = [r \in Requests |-> NoSubject]
  /\ lapsed = {}
  /\ audit = [r \in Requests |-> <<>>]
  /\ announced = [r \in Requests |-> {}]
  /\ cached \in [Entities -> States]
  /\ listed \in [Entities -> {"usable", "missing"}]
  /\ task = [r \in Requests |-> "none"]
  /\ before = [r \in Requests |-> None]
  /\ reads = [r \in Requests |-> 0]
  /\ holder = NoRequest
  /\ actual = cached
  /\ call = [r \in Requests |-> "none"]
  /\ goal = [r \in Requests |-> None]
  /\ observed = [r \in Requests |-> None]
  /\ crashes = 0

-----------------------------------------------------------------------------
(* The request table and its audit.                                        *)

Due == {r \in Requests : status[r] \in Waiting /\ r \in lapsed}

\* _expire_home_actions_locked, run by every transaction on the table.
Swept == [r \in Requests |-> IF r \in Due THEN "expired" ELSE status[r]]

\* Mutant: expiry is not audited.
SweptAuditSilently == audit

SweptAudit == [r \in Requests |-> IF r \in Due THEN Append(audit[r], "expired") ELSE audit[r]]

\* A row moves to status s, audited as event e, and the table is swept.
MoveTo(r, s, e) ==
  /\ status' = [Swept EXCEPT ![r] = s]
  /\ audit' = [SweptAudit EXCEPT ![r] = Append(@, e)]

Sweep ==
  /\ status' = Swept
  /\ audit' = SweptAudit

\* _plan: which actions wait for a confirmation.
NeedsConfirmation(s) == s.entity \in HighRisk

\* Mutant: the claim does not expire rows.
ClaimableLate(r, d, expected) == subject[r].by = d /\ status[r] = expected

Claimable(r, d, expected) == subject[r].by = d /\ Swept[r] = expected

\* claim_home_action and the start of the service call that follows it.
Claim(r, e) ==
  /\ MoveTo(r, "executing", e)
  /\ task' = [task EXCEPT ![r] = "calling"]
  /\ before' = [before EXCEPT ![r] = cached[subject[r].entity]]
  /\ reads' = [reads EXCEPT ![r] = 0]
  /\ call' = [call EXCEPT ![r] = "inflight"]
  /\ holder' = NoRequest

\* What an action makes of a state, and what reconciliation expects to see.
Opposite(x) == IF x = "on" THEN "off" ELSE "on"

Effect(action, x) ==
  CASE action = "turn_on" -> "on"
    [] action = "turn_off" -> "off"
    [] action = "toggle" -> Opposite(x)
    [] action = "activate" -> x

\* Mutant: turn_off is reconciled like turn_on.
MatchesOn(r, x) == x = Effect(IF subject[r].action = "toggle" THEN "toggle" ELSE "turn_on", before[r])

\* _matches, for an action that has a state to be matched: a toggle is
\* compared with the catalogue's state at the time of the claim.
Matches(r, x) == x = Effect(subject[r].action, before[r])

-----------------------------------------------------------------------------
(* Pilot Core's tasks.                                                     *)

\* device_home_action or the assistant's control_light: authorise, plan and
\* record.  A request that needs a confirmation is announced and answered (202),
\* the assistant leaves it unannounced; any other is claimed at once.
Prepare(r, s) ==
  /\ holder = NoRequest /\ status[r] = None
  /\ listed[s.entity] = "usable"
  /\ subject' = [subject EXCEPT ![r] = s]
  /\ IF NeedsConfirmation(s)
       THEN /\ status' = [Swept EXCEPT ![r] = "pending_confirmation"]
            /\ audit' = [SweptAudit EXCEPT ![r] = <<"requested", "confirmation_required">>]
            /\ IF s.via = "api"
                 THEN task' = [task EXCEPT ![r] = "announcing"] /\ holder' = r
                 ELSE UNCHANGED <<task, holder>>
       ELSE /\ status' = [Swept EXCEPT ![r] = "approved"]
            /\ audit' = [SweptAudit EXCEPT ![r] = <<"requested">>]
            /\ task' = [task EXCEPT ![r] = "prepared"] /\ holder' = r
  /\ UNCHANGED <<lapsed, announced, catalogue, before, reads, house, observed, crashes>>

\* execute, for a request that needs no confirmation.
ExecutePrepared(r) ==
  /\ holder = r /\ task[r] = "prepared"
  /\ Claim(r, "approved")
  /\ UNCHANGED <<subject, lapsed, announced, catalogue, actual, goal, observed, crashes>>

\* confirm_device_home_action up to the service call.  get_home_action commits
\* its sweep also when the claim is then refused.
Confirm(r, d) ==
  /\ holder = NoRequest /\ status[r] # None
  /\ IF Claimable(r, d, "pending_confirmation") /\ listed[subject[r].entity] # "missing"
       THEN Claim(r, "confirmed")
       ELSE Sweep /\ UNCHANGED <<memory, call>>
  /\ UNCHANGED <<subject, lapsed, announced, catalogue, actual, goal, observed, crashes>>

\* Mutant: an exception nobody catches ends the task.
CompleteNot(r) ==
  /\ task' = [task EXCEPT ![r] = "none"]
  /\ UNCHANGED <<status, audit, holder>>

\* The except clause of execute: complete as failed, and answer 502.
CompleteFailed(r) ==
  /\ MoveTo(r, "failed", "failed")
  /\ task' = [task EXCEPT ![r] = "none"]
  /\ UNCHANGED holder

\* complete_home_action; the endpoint announces the result, the assistant
\* puts it into its answer.
Complete(r, v) ==
  /\ MoveTo(r, v, v)
  /\ IF subject[r].via = "api"
       THEN task' = [task EXCEPT ![r] = "announcing"] /\ holder' = r
       ELSE task' = [task EXCEPT ![r] = "none"] /\ UNCHANGED holder

ServiceReplies(r) ==
  /\ holder = NoRequest /\ task[r] = "calling" /\ call[r] = "performed"
  /\ task' = [task EXCEPT ![r] = "reading"]
  /\ UNCHANGED <<rows, announced, catalogue, before, reads, holder, house, observed, crashes>>

\* The call is refused, or not answered within its timeout, or its answer is
\* unusable.
ServiceFails(r) ==
  /\ holder = NoRequest /\ task[r] = "calling"
  /\ CompleteFailed(r)
  /\ UNCHANGED <<subject, lapsed, announced, catalogue, before, reads, house, observed, crashes>>

\* Mutant: reconciliation reads until the state matches.
ReadOn(r) ==
  /\ holder = NoRequest /\ task[r] = "reading"
  /\ LET x == actual[subject[r].entity]
     IN  /\ observed' = [observed EXCEPT ![r] = x]
         /\ reads' = [reads EXCEPT ![r] = @ + 1]
         /\ IF Matches(r, x) THEN Complete(r, "succeeded")
            ELSE UNCHANGED <<status, audit, task, holder>>
  /\ UNCHANGED <<subject, lapsed, announced, catalogue, before, house, crashes>>

\* One round of _reconcile's loop, and the verdict when it is the last.
Read(r) ==
  /\ holder = NoRequest /\ task[r] = "reading"
  /\ LET x == actual[subject[r].entity]
     IN  /\ observed' = [observed EXCEPT ![r] = x]
         /\ reads' = [reads EXCEPT ![r] = @ + 1]
         /\ IF subject[r].action = "activate" THEN Complete(r, "unverified")
            ELSE IF Matches(r, x) THEN Complete(r, "succeeded")
            ELSE IF reads[r] + 1 = MaxReads THEN Complete(r, "failed")
            ELSE UNCHANGED <<status, audit, task, holder>>
  /\ UNCHANGED <<subject, lapsed, announced, catalogue, before, house, crashes>>

ReadFails(r) ==
  /\ holder = NoRequest /\ task[r] = "reading"
  /\ CompleteFailed(r)
  /\ UNCHANGED <<subject, lapsed, announced, catalogue, before, reads, house, observed, crashes>>

\* record_client_event with the status of the answer.
Announce(r) ==
  /\ holder = r /\ task[r] = "announcing"
  /\ announced' = [announced EXCEPT ![r] = @ \cup {status[r]}]
  /\ task' = [task EXCEPT ![r] = "none"]
  /\ holder' = NoRequest
  /\ UNCHANGED <<rows, catalogue, before, reads, house, observed, crashes>>

\* get_home_action or list_home_actions on behalf of a client.
ReadRequests ==
  /\ holder = NoRequest /\ Due # {}
  /\ Sweep
  /\ UNCHANGED <<subject, lapsed, announced, catalogue, memory, house, observed, crashes>>

\* The catalogue synchronisation as this component sees it.
Synchronise(e) ==
  /\ holder = NoRequest
  /\ \E l \in Listings :
       /\ listed' = [listed EXCEPT ![e] = l]
       /\ cached' = IF l = "missing" THEN cached ELSE [cached EXCEPT ![e] = actual[e]]
  /\ UNCHANGED <<rows, announced, memory, house, observed, crashes>>

-----------------------------------------------------------------------------
(* Everybody else.                                                         *)

\* Home Assistant performs the service, possibly after Core gave up waiting.
ServicePerformed(r) ==
  /\ call[r] = "inflight"
  /\ LET e == subject[r].entity
         x == Effect(subject[r].action, actual[e])
     IN  /\ actual' = [actual EXCEPT ![e] = x]
         /\ goal' = [goal EXCEPT ![r] = x]
  /\ call' = [call EXCEPT ![r] = "performed"]
  /\ UNCHANGED <<rows, announced, catalogue, memory, observed, crashes>>

ServiceRefused(r) ==
  /\ call[r] = "inflight"
  /\ call' = [call EXCEPT ![r] = "refused"]
  /\ UNCHANGED <<rows, announced, catalogue, memory, actual, goal, observed, crashes>>

\* Somebody at home operates the entity.
Operated(e) ==
  /\ actual' = [actual EXCEPT ![e] = Opposite(@)]
  /\ UNCHANGED <<rows, announced, catalogue, memory, call, goal, observed, crashes>>

Lapse(r) ==
  /\ status[r] \in Waiting /\ holder = NoRequest
  /\ lapsed' = lapsed \cup {r}
  /\ UNCHANGED <<status, subject, audit, announced, catalogue, memory, house, observed, crashes>>

\* Core dies or is restarted: rows stay as they are, tasks are gone.
CoreCrashes ==
  /\ crashes < MaxCrashes
  /\ crashes' = crashes + 1
  /\ task' = [r \in Requests |-> "none"]
  /\ holder' = NoRequest
  /\ UNCHANGED <<rows, announced, catalogue, before, reads, house, observed>>

-----------------------------------------------------------------------------
TaskStep(r) ==
  \/ ExecutePrepared(r) \/ ServiceReplies(r) \/ ServiceFails(r)
  \/ Read(r) \/ ReadFails(r) \/ Announce(r)

ClientStep ==
  \E r \in Requests : \/ \E s \in Subjects : Prepare(r, s)
                      \/ \E d \in Devices : Confirm(r, d)
                      \/ Lapse(r)

HouseStep ==
  \/ \E r \in Requests : ServicePerformed(r) \/ ServiceRefused(r)
  \/ \E e \in Entities : Operated(e) \/ Synchronise(e)

Next ==
  \/ \E r \in Requests : TaskStep(r)
  \/ ClientStep \/ HouseStep \/ ReadRequests \/ CoreCrashes

Spec == Init /\ [][Next]_vars

\* A task that has something to do gets to do it: HTTP calls are answered or
\* time out, and no client keeps the loop to itself.
FairSpec == Spec /\ \A r \in Requests : WF_vars(TaskStep(r))

-----------------------------------------------------------------------------
(* Properties.                                                             *)

\* The verdict of a reconciliation is about the authoritative state: success
\* means that the last read returned what the service call had set, failure
\* after a read that it did not, whoever else operates the entity meanwhile.
VerdictIsAuthoritative ==
  \A r \in Requests :
    observed[r] # None /\ status[r] \in {"succeeded", "failed"}
      => (status[r] = "succeeded" <=> observed[r] = goal[r])

LastEntry(r) == audit[r][Len(audit[r])]

\* The audit explains the table through refused claims, sweeps and crashes: the
\* newest entry accounts for the row's status, and nothing is sent to Home
\* Assistant without an entry that allowed it.
AuditExplains ==
  \A r \in Requests :
    /\ status[r] = "pending_confirmation" => LastEntry(r) = "confirmation_required"
    /\ status[r] = "approved" => LastEntry(r) = "requested"
    /\ status[r] = "executing" => LastEntry(r) \in {"confirmed", "approved"}
    /\ status[r] \in Completions \cup {"expired"} => LastEntry(r) = status[r]
    /\ call[r] # "none" =>
         \E i \in DOMAIN audit[r] :
           audit[r][i] = IF subject[r].entity \in HighRisk THEN "confirmed" ELSE "approved"

\* No claimed request is left executing in the end, unless Core dies: nothing
\* resumes or closes an executing row after a restart.
EventuallyResolved ==
  <>[](crashes > 0 \/ \A r \in Requests : status[r] # "executing")

\* Home control implements the contract of governed actions: retried, repeated
\* and late confirmations execute nothing twice, expired requests nothing at
\* all, and success is reported of calls Home Assistant performed.
Phase ==
  LET seen == Swept
  IN  [r \in Requests |->
         CASE seen[r] \in Waiting -> "waiting"
           [] seen[r] = "succeeded" -> "verified"
           [] OTHER -> seen[r]]

Contract == INSTANCE GovernedAction
              WITH Steps <- {"call"}, phase <- Phase,
                   acted <- {<<r, "call">> : r \in {q \in Requests : call[q] = "performed"}}
ContractSpec == Contract!Spec
=============================================================================
