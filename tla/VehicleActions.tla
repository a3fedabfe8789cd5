---------------------------- MODULE VehicleActions ----------------------------
(***************************************************************************)
(* Vehicle actions: a request is recorded under its idempotency key, run by *)
(* a background task of its own, at once or when a single-use confirmation  *)
(* has arrived, and consists of one provider call or of the saved-          *)
(* destination workflow, a row of calls that are reported independently.    *)
(*                                                                         *)
(* The row is claimed by the task, not by the endpoint that schedules it:   *)
(* between the two, other endpoints may run.                                *)
(***************************************************************************)
EXTENDS Naturals, Sequences

CONSTANTS
  Requests,    \* requests, one per principal and idempotency key
  Offers,      \* what clients may ask: see Kinds
  MaxRunners,  \* background tasks that may be scheduled
  MaxCrashes   \* crashes or restarts of Pilot Core explored

Kinds == [risk : {"standard", "high"}, shape : {"observable", "button", "workflow"}]
None == "none"
NoKind == [risk |-> None, shape |-> None]
Runners == 1..MaxRunners
NoRunner == 0

BoundsAssumption ==
  /\ None \notin Requests /\ Offers \subseteq Kinds
  /\ \A k \in Offers : k.shape = "workflow" => k.risk = "standard"
  /\ MaxRunners \in Nat \ {0}
  /\ MaxCrashes \in Nat

Workflow == <<"wake", "climate", "temperature", "seat", "route">>
WorkflowSteps == {Workflow[i] : i \in DOMAIN Workflow}
Steps == WorkflowSteps \cup {"call"}

Waiting == {"pending_confirmation", "accepted"}
Completions == {"reconciled", "unverified", "failed"}
Statuses == {None, "executing", "expired"} \cup Waiting \cup Completions
Reports == {None, "accepted", "failed", "unsupported", "not_required", "disabled"}

VARIABLES
  \* Pilot Core's database
  status,     \* request -> status of its row
  kind,       \* request -> what was asked
  lapsed,     \* requests whose expires_at lies in the past
  report,     \* request -> what its steps_json says of each step
  announced,  \* requests with a pilot.vehicle.action.v1 event
  \* Pilot Core's memory: one background task per runner
  task,       \* runner -> where it stands
  of,         \* runner -> the request it was scheduled for
  \* the provider
  call,       \* <<request, step>> -> what became of the call
  \* history and budget
  claimer,    \* request -> the runner that has claimed it
  crashes

rows == <<status, kind, lapsed, report, announced>>
vars == <<rows, task, of, call, claimer, crashes>>

\* Where a runner stands: a step of the workflow it is about to take, the call
\* it waits for, or one of the other awaits.
StepNames == Steps \cup {"destination", "observe", "overview", "online"}
Places == {[at |-> "unused", step |-> None], [at |-> "scheduled", step |-> None],
           [at |-> "done", step |-> None]}
            \cup [at : {"before", "calling"}, step : StepNames]

Unused == [at |-> "unused", step |-> None]
Scheduled == [at |-> "scheduled", step |-> None]
Done == [at |-> "done", step |-> None]
Before(s) == [at |-> "before", step |-> s]
Calling(s) == [at |-> "calling", step |-> s]

TypeOK ==
  /\ status \in [Requests -> Statuses]
  /\ kind \in [Requests -> Offers \cup {NoKind}]
  /\ lapsed \subseteq Requests
  /\ report \in [Requests -> [WorkflowSteps -> Reports]]
  /\ announced \subseteq Requests
  /\ task \in [Runners -> Places]
  /\ of \in [Runners -> Requests \cup {None}]
  /\ call \in [Requests \X Steps -> {None, "inflight", "performed", "refused"}]
  /\ claimer \in [Requests -> Runners \cup {NoRunner}]
  /\ crashes \in 0..MaxCrashes

Init ==
  /\ status = [r \in Requests |-> None]
  /\ kind = [r \in Requests |-> NoKind]
  /\ lapsed = {} /\ announced = {}
  /\ report = [r \in Requests |-> [s \in WorkflowSteps |-> None]]
  /\ task = [i \in Runners |-> Unused]
  /\ of = [i \in Runners |-> None]
  /\ call = [c \in Requests \X Steps |-> None]
  /\ claimer = [r \in Requests |-> NoRunner]
  /\ crashes = 0

-----------------------------------------------------------------------------
(* The request table.                                                      *)

\* _expire_vehicle_actions_locked.
Swept == [r \in Requests |->
            IF status[r] \in Waiting /\ r \in lapsed THEN "expired" ELSE status[r]]

\* The status a claim expects: the runner of a confirmation passes confirmed.
Expected(r) == IF kind[r].risk = "high" THEN "pending_confirmation" ELSE "accepted"

\* Mutant: the UPDATE of the claim without its status.
ClaimableAlways(r) == TRUE

Claimable(r) == Swept[r] = Expected(r)

-----------------------------------------------------------------------------
(* The endpoints.                                                          *)

\* schedule_vehicle_action.
Schedule(r) ==
  \E i \in Runners :
    /\ task[i] = Unused /\ \A j \in Runners : j < i => task[j] # Unused
    /\ task' = [task EXCEPT ![i] = Scheduled]
    /\ of' = [of EXCEPT ![i] = r]

\* create_vehicle_action: what waits for a confirmation, and what does not.
Created(k) == IF k.risk = "high" THEN "pending_confirmation" ELSE "accepted"

\* create_device_vehicle_action under a new key.  Under a key in use it
\* returns the existing row, whatever its state, and schedules nothing.
Request(r, k) ==
  /\ status[r] = None
  /\ kind' = [kind EXCEPT ![r] = k]
  /\ status' = [Swept EXCEPT ![r] = Created(k)]
  /\ IF k.risk = "high" THEN UNCHANGED <<task, of>> ELSE Schedule(r)
  /\ UNCHANGED <<lapsed, report, announced, call, claimer, crashes>>

\* confirm_device_vehicle_action: reads the row, then schedules a runner.
Confirm(r) ==
  /\ status[r] # None
  /\ status' = Swept
  /\ IF Swept[r] = "pending_confirmation" THEN Schedule(r) ELSE UNCHANGED <<task, of>>
  /\ UNCHANGED <<kind, lapsed, report, announced, call, claimer, crashes>>

\* Status queries of clients.
ReadRequests ==
  /\ Swept # status
  /\ status' = Swept
  /\ UNCHANGED <<kind, lapsed, report, announced, task, of, call, claimer, crashes>>

-----------------------------------------------------------------------------
(* The background task.                                                    *)

Goto(i, p) == task' = [task EXCEPT ![i] = p]

\* Mutant: an unexpected exception leaves the row as it is.
AbortSilently(i) ==
  /\ status' = Swept
  /\ Goto(i, Done)
  /\ UNCHANGED <<report, announced>>

\* The except clause of runner, for any exception: the row is read again and,
\* when it says executing, completed as failed.
Abort(i) ==
  /\ status' = [r \in Requests |->
                  IF r = of[i] /\ Swept[r] = "executing" THEN "failed" ELSE Swept[r]]
  /\ Goto(i, Done)
  /\ UNCHANGED <<report, announced>>

\* complete_vehicle_action and the client event; a row that is no longer
\* executing raises ValueError, which ends in runner's except clause.
Complete(i, v) ==
  IF status[of[i]] = "executing"
    THEN /\ status' = [Swept EXCEPT ![of[i]] = v]
         /\ announced' = announced \cup {of[i]}
         /\ Goto(i, Done)
         /\ UNCHANGED report
    ELSE Abort(i)

\* The provider call of a step leaves Core.
Send(i, s) ==
  /\ call' = [call EXCEPT ![<<of[i], s>>] = "inflight"]
  /\ Goto(i, Calling(s))

\* claim_vehicle_action and what follows it up to the first await.  A refused
\* claim is an exception like any other.
Start(i) ==
  /\ task[i] = Scheduled
  /\ IF ~Claimable(of[i])
       THEN Abort(i) /\ UNCHANGED <<call, claimer>>
       ELSE /\ claimer' = [claimer EXCEPT ![of[i]] = i]
            /\ UNCHANGED <<report, announced>>
            /\ \/ /\ kind[of[i]].shape # "workflow"
                  /\ status' = [Swept EXCEPT ![of[i]] = "executing"]
                  /\ Send(i, "call")
               \/ /\ kind[of[i]].shape = "workflow"
                  /\ status' = [Swept EXCEPT ![of[i]] = "executing"]
                  /\ Goto(i, Calling("overview")) \/ Goto(i, Before("destination"))
                  /\ UNCHANGED call
  /\ UNCHANGED <<kind, lapsed, of, crashes>>

\* The saved destination has been deleted since the request was made.
WithoutDestination(i) ==
  /\ task[i] = Before("destination")
  /\ Complete(i, "failed")
  /\ UNCHANGED <<kind, lapsed, of, call, claimer, crashes>>

\* _single_action: the call is answered, and the entity read when it has one.
SingleAnswered(i) ==
  /\ task[i] = Calling("call")
  /\ \/ /\ call[<<of[i], "call">>] = "performed"
        /\ IF kind[of[i]].shape = "observable"
             THEN Goto(i, Calling("observe")) /\ UNCHANGED <<status, report, announced>>
             ELSE Complete(i, "unverified")
     \/ Complete(i, "failed")
  /\ UNCHANGED <<kind, lapsed, of, call, claimer, crashes>>

\* The observed state matches, does not, or cannot be read.
Observed(i, v) ==
  /\ task[i] = Calling("observe") /\ v \in Completions
  /\ Complete(i, v)
  /\ UNCHANGED <<kind, lapsed, of, call, claimer, crashes>>

\* The vehicle's overview: its failure is an exception; an online vehicle
\* needs no wake step.
OverviewAnswered(i) ==
  /\ task[i] = Calling("overview")
  /\ \/ Abort(i)
     \/ /\ Goto(i, Before("wake"))
        /\ UNCHANGED <<status, report, announced>>
     \/ /\ Goto(i, Before("climate"))
        /\ report' = [report EXCEPT ![of[i]]["wake"] = "not_required"]
        /\ UNCHANGED <<status, announced>>
  /\ UNCHANGED <<kind, lapsed, of, call, claimer, crashes>>

\* Mutant: the workflow goes past its last step.
NextStepPast(s, x) ==
  CASE s = "wake" -> IF x = "accepted" THEN Calling("online") ELSE Before("climate")
    [] s = "climate" -> Before("temperature")
    [] s = "temperature" -> Before("seat")
    [] s = "seat" -> Before("route")
    [] OTHER -> Before("compensation")

\* Where the workflow goes on after a step that was reported as x.
NextStep(s, x) ==
  CASE s = "wake" -> IF x = "accepted" THEN Calling("online") ELSE Before("climate")
    [] s = "climate" -> Before("temperature")
    [] s = "temperature" -> Before("seat")
    [] s = "seat" -> Before("route")
    [] OTHER -> Done

\* Mutant: a failed step fails the action.
StepEndsWorkflow(i, s, x) ==
  IF status[of[i]] # "executing" THEN Abort(i)
  ELSE /\ report' = [report EXCEPT ![of[i]][s] = x]
       /\ IF s = "route" \/ x = "failed"
            THEN /\ status' = [Swept EXCEPT ![of[i]] =
                                 IF x = "accepted" THEN "unverified" ELSE "failed"]
                 /\ announced' = announced \cup {of[i]}
                 /\ Goto(i, Done)
            ELSE /\ UNCHANGED <<status, announced>>
                 /\ Goto(i, NextStep(s, x))

\* run_step records how the step went; after the route the action completes.
StepEnds(i, s, x) ==
  IF status[of[i]] # "executing" THEN Abort(i)
  ELSE /\ report' = [report EXCEPT ![of[i]][s] = x]
       /\ IF s = "route"
            THEN /\ status' = [Swept EXCEPT ![of[i]] =
                                 IF x = "accepted" THEN "unverified" ELSE "failed"]
                 /\ announced' = announced \cup {of[i]}
            ELSE UNCHANGED <<status, announced>>
       /\ Goto(i, NextStep(s, x))

\* A step is sent, or its control does not exist; climate may be disabled for
\* the destination, and no seat mode chosen.
TakeStep(i, s) ==
  /\ task[i] = Before(s) /\ s \in WorkflowSteps
  /\ \/ Send(i, s) /\ UNCHANGED <<status, report, announced>>
     \/ StepEnds(i, s, "unsupported") /\ UNCHANGED call
     \/ /\ s = "climate"
        /\ report' = [report EXCEPT ![of[i]][s] = "disabled"]
        /\ Goto(i, Before("route"))
        /\ UNCHANGED <<status, announced, call>>
     \/ /\ s = "seat"
        /\ Goto(i, Before("route"))
        /\ UNCHANGED <<status, report, announced, call>>
  /\ UNCHANGED <<kind, lapsed, of, claimer, crashes>>

\* A step's call is answered, refused or given up.
StepAnswered(i, s) ==
  /\ task[i] = Calling(s) /\ s \in WorkflowSteps
  /\ \/ call[<<of[i], s>>] = "performed" /\ StepEnds(i, s, "accepted")
     \/ StepEnds(i, s, "failed")
  /\ UNCHANGED <<kind, lapsed, of, call, claimer, crashes>>

\* _wait_until_online returns, after a minute at the latest, and its answer is
\* not looked at.
OnlineOrNot(i) ==
  /\ task[i] = Calling("online")
  /\ Goto(i, Before("climate"))
  /\ UNCHANGED <<rows, of, call, claimer, crashes>>

-----------------------------------------------------------------------------
(* Everybody else.                                                         *)

ProviderActs(r, s) ==
  /\ call[<<r, s>>] = "inflight"
  /\ \E x \in {"performed", "refused"} : call' = [call EXCEPT ![<<r, s>>] = x]
  /\ UNCHANGED <<rows, task, of, claimer, crashes>>

Lapse(r) ==
  /\ status[r] \in Waiting /\ r \notin lapsed
  /\ lapsed' = lapsed \cup {r}
  /\ UNCHANGED <<status, kind, report, announced, task, of, call, claimer, crashes>>

\* Core dies or shuts down: cancelled tasks are not failed by runner, whose
\* except clause does not see the cancellation.
CoreCrashes ==
  /\ crashes < MaxCrashes
  /\ crashes' = crashes + 1
  /\ task' = [i \in Runners |-> IF task[i] = Unused THEN Unused ELSE Done]
  /\ UNCHANGED <<rows, of, call, claimer>>

-----------------------------------------------------------------------------
RunnerStep(i) ==
  \/ Start(i) \/ WithoutDestination(i)
  \/ SingleAnswered(i) \/ \E v \in Completions : Observed(i, v)
  \/ OverviewAnswered(i) \/ OnlineOrNot(i)
  \/ \E s \in WorkflowSteps : TakeStep(i, s) \/ StepAnswered(i, s)

Next ==
  \/ \E i \in Runners : RunnerStep(i)
  \/ \E r \in Requests : \/ \E k \in Offers : Request(r, k)
                         \/ Confirm(r) \/ Lapse(r)
                         \/ \E s \in Steps : ProviderActs(r, s)
  \/ ReadRequests \/ CoreCrashes

Spec == Init /\ [][Next]_vars

\* Every scheduled task runs, and every call is answered or times out.
FairSpec == Spec /\ \A i \in Runners : WF_vars(RunnerStep(i))

-----------------------------------------------------------------------------
(* Properties.                                                             *)

\* A destination workflow that completes has reported its route step, whatever
\* became of the steps before it, and its verdict is that of the route; one
\* that was stopped before its first step has reported none.
RouteDecides ==
  \A r \in Requests :
    kind[r].shape = "workflow" /\ status[r] \in Completions =>
      \/ \A s \in WorkflowSteps : report[r][s] = None
      \/ /\ report[r]["wake"] # None /\ report[r]["climate"] # None
         /\ report[r]["route"] # None
         /\ status[r] = "unverified" <=> report[r]["route"] = "accepted"

\* A confirmation is single-use: once a runner has claimed a request, only that
\* runner can end its execution.
ConfirmedOnce ==
  [][\A r \in Requests :
       status[r] = "executing" /\ status'[r] # "executing"
         => task'[claimer[r]] # task[claimer[r]]]_vars

\* No request that waits for no one is left over in the end: it is executed,
\* fails or expires, unless Core dies: nothing runs or closes it after a restart.
EventuallyResolved ==
  <>[](crashes > 0 \/ \A r \in Requests : status[r] \notin {"accepted", "executing"})

\* Vehicle actions implement the contract of governed actions.
Phase ==
  LET seen == Swept
  IN  [r \in Requests |->
         CASE seen[r] \in Waiting -> "waiting"
           [] seen[r] = "reconciled" -> "verified"
           [] OTHER -> seen[r]]

Contract == INSTANCE GovernedAction
              WITH phase <- Phase,
                   acted <- {c \in Requests \X Steps : call[c] = "performed"}
ContractSpec == Contract!Spec
=============================================================================
