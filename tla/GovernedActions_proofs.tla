------------------------- MODULE GovernedActions_proofs -------------------------
(***************************************************************************)
(* Proofs about home and vehicle actions together, for all their constants. *)
(* What HomeActions_proofs shows of the home carries over; the rest is      *)
(* about the vehicle, and at the end are the theorems about ActionsSpec, in *)
(* which a table that a behaviour is not about rests.                       *)
(***************************************************************************)
EXTENDS GovernedActions, HomeActions_proofs, FiniteSets

-----------------------------------------------------------------------------
(* Vehicle actions: the invariant (vehicle.py, api.py).                    *)

\* Where the runner of a destination workflow stands, and that of a single action.
Early == {Vehicle!Calling("overview"), Vehicle!Before("destination"),
          Vehicle!Before("wake"), Vehicle!Calling("wake")}
Midway == {Vehicle!Calling("online"), Vehicle!Before("climate"), Vehicle!Calling("climate")}
Late == {Vehicle!Before(s) : s \in {"temperature", "seat", "route"}}
          \cup {Vehicle!Calling(s) : s \in {"temperature", "seat", "route"}}
OnRoad == Early \cup Midway \cup Late
Alone == {Vehicle!Calling("call"), Vehicle!Calling("observe")}
AtRest == {Vehicle!Unused, Vehicle!Scheduled, Vehicle!Done}

\* The steps of a workflow that have not been sent.
Ahead(p) ==
  CASE p \in {Vehicle!Calling("overview"), Vehicle!Before("destination"), Vehicle!Before("wake")} ->
         Vehicle!WorkflowSteps
    [] p \in {Vehicle!Calling("wake"), Vehicle!Calling("online"), Vehicle!Before("climate")} ->
         {"climate", "temperature", "seat", "route"}
    [] p \in {Vehicle!Calling("climate"), Vehicle!Before("temperature")} ->
         {"temperature", "seat", "route"}
    [] p \in {Vehicle!Calling("temperature"), Vehicle!Before("seat")} -> {"seat", "route"}
    [] p \in {Vehicle!Calling("seat"), Vehicle!Before("route")} -> {"route"}
    [] OTHER -> {}

\* What the steps of a request have come to when its workflow stands at p.
Progress(r, p) ==
  /\ order[r] = "executing" /\ report[r]["route"] = Vehicle!None
  /\ \A s \in Ahead(p) : answer[<<r, s>>] = Vehicle!None
  /\ p \in Early => \A s \in Vehicle!WorkflowSteps : report[r][s] = Vehicle!None
  /\ p \notin Early => report[r]["wake"] # Vehicle!None
  /\ p \in Late => report[r]["climate"] # Vehicle!None

Decided(r) ==
  kind[r].shape = "workflow" /\ order[r] \in Vehicle!Completions =>
    \/ \A s \in Vehicle!WorkflowSteps : report[r][s] = Vehicle!None
    \/ /\ report[r]["wake"] # Vehicle!None /\ report[r]["climate"] # Vehicle!None
       /\ report[r]["route"] # Vehicle!None
       /\ order[r] = "unverified" <=> report[r]["route"] = "accepted"

\* A row has a kind, waits as its kind demands, and before it is claimed nothing was sent or
\* reported.
Row(r) ==
  /\ order[r] = Vehicle!None => r \notin late
  /\ order[r] # Vehicle!None => kind[r] \in OrderKinds
  /\ order[r] \in Vehicle!Waiting => order[r] = Vehicle!Created(kind[r])
  /\ order[r] \notin {"executing"} \cup Vehicle!Completions =>
       /\ \A s \in Vehicle!Steps : answer[<<r, s>>] = Vehicle!None
       /\ \A s \in Vehicle!WorkflowSteps : report[r][s] = Vehicle!None
  /\ Decided(r)

\* A runner stands where the kind of its request, its row and its calls agree.
Runner(i) ==
  /\ runner[i] = Vehicle!Unused => of[i] = Vehicle!None
  /\ runner[i] # Vehicle!Unused => of[i] \in Orders /\ order[of[i]] # Vehicle!None
  /\ runner[i] \in AtRest \cup Alone \cup OnRoad
  /\ runner[i] = Vehicle!Scheduled /\ kind[of[i]].shape = "workflow" =>
       order[of[i]] \notin {"executing"} \cup Vehicle!Completions
  /\ runner[i] \in Alone => kind[of[i]].shape # "workflow"
  /\ runner[i] = Vehicle!Calling("observe") => answer[<<of[i], "call">>] = "performed"
  /\ runner[i] \in OnRoad => kind[of[i]].shape = "workflow" /\ Progress(of[i], runner[i])

\* A workflow is run once.
Single ==
  \A i, j \in Vehicle!Runners :
    of[i] = of[j] /\ of[i] \in Orders /\ kind[of[i]].shape = "workflow" => i = j

VehicleInv ==
  /\ Vehicle!TypeOK /\ (\A r \in Orders : Row(r)) /\ (\A i \in Vehicle!Runners : Runner(i))
  /\ Single

\* The places of runners differ as they read.
LEMMA PlacesDiffer ==
  /\ \A s, t : Vehicle!Before(s) # Vehicle!Calling(t)
  /\ \A s, t : Vehicle!Before(s) = Vehicle!Before(t) => s = t
  /\ \A s, t : (Vehicle!Calling(s) = Vehicle!Calling(t) => s = t)
  /\ \A s : Vehicle!Before(s) \notin AtRest /\ Vehicle!Calling(s) \notin AtRest
  /\ Vehicle!Unused # Vehicle!Scheduled /\ Vehicle!Unused # Vehicle!Done
  /\ Vehicle!Scheduled # Vehicle!Done
<1>1. \A s, t : Vehicle!Before(s) # Vehicle!Calling(t)
  <2> SUFFICES ASSUME NEW s, NEW t, Vehicle!Before(s) = Vehicle!Calling(t) PROVE FALSE
    OBVIOUS
  <2>1. Vehicle!Before(s).at = "before" /\ Vehicle!Calling(t).at = "calling"
    BY DEF Vehicle!Before, Vehicle!Calling
  <2> QED
    BY <2>1
<1>2. ASSUME NEW s, NEW t
      PROVE  /\ Vehicle!Before(s) = Vehicle!Before(t) => s = t
             /\ Vehicle!Calling(s) = Vehicle!Calling(t) => s = t
  <2>1. /\ Vehicle!Before(s).step = s /\ Vehicle!Before(t).step = t
        /\ Vehicle!Calling(s).step = s
        /\ Vehicle!Calling(t).step = t
    BY DEF Vehicle!Before, Vehicle!Calling
  <2> QED
    BY <2>1
<1>3. ASSUME NEW s PROVE Vehicle!Before(s) \notin AtRest /\ Vehicle!Calling(s) \notin AtRest
  <2>1. /\ Vehicle!Before(s).at = "before" /\ Vehicle!Calling(s).at = "calling"
        /\ Vehicle!Unused.at = "unused" /\ Vehicle!Scheduled.at = "scheduled"
        /\ Vehicle!Done.at = "done"
    BY DEF Vehicle!Before, Vehicle!Calling, Vehicle!Unused, Vehicle!Scheduled, Vehicle!Done
  <2> QED
    BY <2>1 DEF AtRest
<1>4. /\ Vehicle!Unused # Vehicle!Scheduled /\ Vehicle!Unused # Vehicle!Done
      /\ Vehicle!Scheduled # Vehicle!Done
  <2>1. /\ Vehicle!Unused.at = "unused" /\ Vehicle!Scheduled.at = "scheduled"
        /\ Vehicle!Done.at = "done"
    BY DEF Vehicle!Unused, Vehicle!Scheduled, Vehicle!Done
  <2> QED
    BY <2>1
<1> QED
  BY <1>1, <1>2, <1>3, <1>4

\* What a step that is not about a request leaves of it: it may be swept.
VehicleQuiet(q) ==
  /\ order'[q] \in {order[q], Vehicle!Swept[q]} /\ kind'[q] = kind[q] /\ report'[q] = report[q]
  /\ \A s \in Vehicle!Steps : answer'[<<q, s>>] = answer[<<q, s>>]
  /\ q \in late' <=> q \in late

LEMMA VehicleSweeping ==
  ASSUME Vehicle!TypeOK
  PROVE  /\ Vehicle!Swept \in [Orders -> Vehicle!Statuses]
         /\ \A r \in Orders :
              \/ Vehicle!Swept[r] = order[r]
              \/ (Vehicle!Swept[r] = "expired" /\ order[r] \in Vehicle!Waiting /\ r \in late)
  BY DEF Vehicle!TypeOK, Vehicle!Swept, Vehicle!Statuses

LEMMA RowRests ==
  ASSUME Vehicle!TypeOK, NEW r \in Orders, Row(r), VehicleQuiet(r) PROVE Row(r)'
<1>1. order'[r] = order[r] \/ (order'[r] = "expired" /\ order[r] \in Vehicle!Waiting)
  BY VehicleSweeping DEF VehicleQuiet
<1>2. Decided(r)'
  BY <1>1 DEF Row, Decided, VehicleQuiet, Vehicle!Completions
<1> QED
  BY <1>1, <1>2 DEF Row, VehicleQuiet, Vehicle!Waiting, Vehicle!Completions, Vehicle!None

LEMMA RunnerRests ==
  ASSUME Vehicle!TypeOK, NEW i \in Vehicle!Runners, Runner(i), runner'[i] = runner[i],
         of'[i] = of[i],
         of[i] \in Orders => VehicleQuiet(of[i])
  PROVE  Runner(i)'
<1>1. CASE runner[i] = Vehicle!Unused
  BY <1>1, PlacesDiffer DEF Runner, AtRest, Alone, OnRoad, Early, Midway, Late
<1>2. CASE runner[i] # Vehicle!Unused
  <2>1. PICK r \in Orders : r = of[i] /\ r = of'[i] /\ VehicleQuiet(r)
    BY <1>2 DEF Runner
  <2>2. order'[r] = order[r] \/ (order'[r] = "expired" /\ order[r] \in Vehicle!Waiting)
    BY <2>1, VehicleSweeping DEF VehicleQuiet
  <2>3. ASSUME Progress(r, runner[i]) PROVE Progress(r, runner[i])'
    <3>1. order'[r] = "executing"
      BY <2>2, <2>3 DEF Progress, Vehicle!Waiting
    <3>2. \A s \in Ahead(runner[i]) : s \in Vehicle!Steps
      BY DEF Ahead, Vehicle!Steps, Vehicle!WorkflowSteps, Vehicle!Workflow
    <3> QED
      BY <2>1, <2>3, <3>1, <3>2 DEF Progress, VehicleQuiet
  <2>4. "call" \in Vehicle!Steps
    BY DEF Vehicle!Steps
  <2> QED
    BY <1>2, <2>1, <2>2, <2>3, <2>4 DEF Runner, VehicleQuiet, Vehicle!Waiting,
       Vehicle!Completions, Vehicle!None
<1> QED
  BY <1>1, <1>2

\* Another runner of a request that is no workflow stands as well as before, whatever becomes of
\* the request, as long as it stays one and what was performed stays so.
LEMMA RunnerStands ==
  ASSUME NEW i \in Vehicle!Runners, Runner(i), runner'[i] = runner[i], of'[i] = of[i],
         of[i] \in Orders,
         kind'[of[i]] = kind[of[i]], kind[of[i]].shape # "workflow",
         order'[of[i]] # Vehicle!None,
         answer[<<of[i], "call">>] = "performed" => answer'[<<of[i], "call">>] = "performed"
  PROVE  Runner(i)'
<1>1. runner[i] \notin OnRoad
  BY DEF Runner
<1> QED
  BY <1>1 DEF Runner

\* The step of one runner, about one request.
Stepped(i, r) ==
  /\ of[i] = r /\ of' = of /\ kind' = kind
  /\ \A q \in Orders \ {r} : VehicleQuiet(q)
  /\ \A j \in Vehicle!Runners \ {i} : runner'[j] = runner[j]
  /\ order'[r] # Vehicle!None
  /\ answer[<<r, "call">>] = "performed" => answer'[<<r, "call">>] = "performed"

LEMMA StepKeeps ==
  ASSUME VehicleInv, NEW i \in Vehicle!Runners, NEW r \in Orders, Stepped(i, r),
         Vehicle!TypeOK', Row(r)', Runner(i)'
  PROVE  VehicleInv'
<1>1. ASSUME NEW q \in Orders PROVE Row(q)'
  BY <1>1, RowRests DEF VehicleInv, Stepped
<1>2. ASSUME NEW j \in Vehicle!Runners PROVE Runner(j)'
  <2>1. CASE j = i
    BY <2>1
  <2>2. CASE j # i /\ of[j] = r
    <3>1. kind[r].shape # "workflow"
      BY <2>2 DEF VehicleInv, Single, Stepped
    <3> QED
      BY <2>2, <3>1, RunnerStands DEF VehicleInv, Stepped
  <2>3. CASE j # i /\ of[j] # r
    BY <2>3, RunnerRests DEF VehicleInv, Stepped
  <2> QED
    BY <2>1, <2>2, <2>3
<1>3. Single'
  BY DEF VehicleInv, Single, Stepped
<1> QED
  BY <1>1, <1>2, <1>3 DEF VehicleInv

\* The places that steps lead to.
LEMMA PlacesExist ==
  /\ {Vehicle!Unused, Vehicle!Scheduled, Vehicle!Done} \subseteq Vehicle!Places
  /\ \A s \in Vehicle!StepNames :
       Vehicle!Before(s) \in Vehicle!Places /\ Vehicle!Calling(s) \in Vehicle!Places
  /\ {"call", "destination", "observe", "overview", "online"} \cup Vehicle!WorkflowSteps
       \subseteq Vehicle!StepNames
  /\ Vehicle!WorkflowSteps = {"wake", "climate", "temperature", "seat", "route"}
  /\ Vehicle!Steps = Vehicle!WorkflowSteps \cup {"call"}
<1>1. Vehicle!WorkflowSteps = {"wake", "climate", "temperature", "seat", "route"}
  BY DEF Vehicle!WorkflowSteps, Vehicle!Workflow
<1> QED
  BY <1>1 DEF Vehicle!Places, Vehicle!Unused, Vehicle!Scheduled, Vehicle!Done,
     Vehicle!StepNames, Vehicle!Before, Vehicle!Calling, Vehicle!Steps

LEMMA VehicleStarts == Vehicle!BoundsAssumption /\ Vehicle!Init => VehicleInv
<1> SUFFICES ASSUME Vehicle!BoundsAssumption, Vehicle!Init PROVE VehicleInv
  OBVIOUS
<1>1. Vehicle!TypeOK
  BY PlacesExist DEF Vehicle!Init, Vehicle!TypeOK, Vehicle!BoundsAssumption, Vehicle!Statuses,
     Vehicle!NoRunner, Vehicle!Reports
<1>2. ASSUME NEW r \in Orders PROVE Row(r)
  <2>1. /\ order[r] = Vehicle!None /\ r \notin late
        /\ \A s \in Vehicle!Steps : answer[<<r, s>>] = Vehicle!None
        /\ \A s \in Vehicle!WorkflowSteps : report[r][s] = Vehicle!None
    BY DEF Vehicle!Init
  <2> QED
    BY <2>1 DEF Row, Vehicle!Waiting, Decided, Vehicle!Completions, Vehicle!None
<1>3. ASSUME NEW i \in Vehicle!Runners PROVE Runner(i)
  <2>1. runner[i] = Vehicle!Unused /\ of[i] = Vehicle!None
    BY <1>3 DEF Vehicle!Init
  <2> QED
    BY <2>1, PlacesDiffer DEF Runner, AtRest, Alone, OnRoad, Early, Midway, Late
<1>4. Single
  <2>1. \A r \in Orders : kind[r].shape = Vehicle!None
    BY DEF Vehicle!Init, Vehicle!NoKind
  <2> QED
    BY <2>1 DEF Single, Vehicle!None
<1> QED
  BY <1>1, <1>2, <1>3, <1>4 DEF VehicleInv

\* The rows of others, when one row is written and the table swept.
LEMMA OthersQuiet ==
  ASSUME Vehicle!TypeOK, NEW r \in Orders,
         \A q \in Orders \ {r} : order'[q] \in {order[q], Vehicle!Swept[q]},
         \A q \in Orders \ {r} : report'[q] = report[q] /\ kind'[q] = kind[q],
         \A q \in Orders \ {r}, t \in Vehicle!Steps : answer'[<<q, t>>] = answer[<<q, t>>],
         late' = late
  PROVE  \A q \in Orders \ {r} : VehicleQuiet(q)
  BY DEF VehicleQuiet

\* A runner that ends, with a verdict or without.
LEMMA EndTypes ==
  ASSUME Vehicle!TypeOK, NEW i \in Vehicle!Runners, of[i] \in Orders,
         NEW v \in Vehicle!Completions,
         Vehicle!Complete(i, v) \/ Vehicle!Abort(i),
         UNCHANGED <<kind, late, of, answer, claimer, stops>>
  PROVE  Vehicle!TypeOK'
<1>1. order' \in [Orders -> Vehicle!Statuses]
  BY VehicleSweeping DEF Vehicle!Complete, Vehicle!Abort, Vehicle!Statuses, Vehicle!Completions
<1>2. runner' \in [Vehicle!Runners -> Vehicle!Places]
  BY PlacesExist DEF Vehicle!Complete, Vehicle!Abort, Vehicle!Goto, Vehicle!TypeOK
<1>3. told' \subseteq Orders
  <2>1. CASE Vehicle!Abort(i)
    BY <2>1 DEF Vehicle!Abort, Vehicle!TypeOK
  <2>2. CASE order[of[i]] = "executing" /\ told' = told \cup {of[i]}
    BY <2>2 DEF Vehicle!TypeOK
  <2> QED
    BY <2>1, <2>2 DEF Vehicle!Complete
<1> QED
  BY <1>1, <1>2, <1>3 DEF Vehicle!TypeOK, Vehicle!Complete, Vehicle!Abort

\* What becomes of its row.
LEMMA Ending ==
  ASSUME VehicleInv, NEW i \in Vehicle!Runners, NEW r \in Orders, r = of[i],
         NEW v \in Vehicle!Completions,
         Vehicle!Complete(i, v) \/ Vehicle!Abort(i)
  PROVE  /\ runner' = [runner EXCEPT ![i] = Vehicle!Done] /\ report' = report
         /\ \/ order' = Vehicle!Swept
            \/ order[r] = "executing" /\ \E w \in {v, "failed"} :
                                           order' = [Vehicle!Swept EXCEPT ![r] = w]
<1>1. Vehicle!Swept[r] = "executing" <=> order[r] = "executing"
  BY DEF Vehicle!Swept, Vehicle!Waiting
<1>2. CASE Vehicle!Abort(i)
  <2>1. CASE order[r] = "executing"
    <3>1. order' = [Vehicle!Swept EXCEPT ![r] = "failed"]
      BY <1>1, <1>2, <2>1 DEF Vehicle!Abort, Vehicle!Swept
    <3> QED
      BY <1>2, <2>1, <3>1 DEF Vehicle!Abort, Vehicle!Goto, Vehicle!Completions
  <2>2. CASE order[r] # "executing"
    <3>1. order' = Vehicle!Swept
      BY <1>1, <1>2, <2>2 DEF Vehicle!Abort, Vehicle!Swept
    <3> QED
      BY <1>2, <3>1 DEF Vehicle!Abort, Vehicle!Goto
  <2> QED
    BY <2>1, <2>2
<1>3. CASE order[r] = "executing" /\ Vehicle!Complete(i, v)
  BY <1>3 DEF Vehicle!Complete, Vehicle!Goto
<1> QED
  BY <1>2, <1>3 DEF Vehicle!Complete

LEMMA EndKeeps ==
  ASSUME VehicleInv, NEW i \in Vehicle!Runners,
         runner[i] \in Alone \cup Early \cup {Vehicle!Scheduled},
         NEW v \in Vehicle!Completions, Vehicle!Complete(i, v) \/ Vehicle!Abort(i),
         UNCHANGED <<kind, late, of, answer, claimer, stops>>
  PROVE  VehicleInv'
<1>0. PICK r \in Orders : r = of[i] /\ order[r] # Vehicle!None
  BY PlacesDiffer DEF VehicleInv, Runner, AtRest, Alone, Early
<1>1. /\ runner' = [runner EXCEPT ![i] = Vehicle!Done] /\ report' = report
      /\ \/ order' = Vehicle!Swept
         \/ order[r] = "executing" /\ \E w \in Vehicle!Completions :
                                        order' = [Vehicle!Swept EXCEPT ![r] = w]
  BY <1>0, Ending DEF Vehicle!Completions
<1>2. Vehicle!TypeOK'
  BY <1>0, EndTypes DEF VehicleInv
<1>3. \A q \in Orders \ {r} : VehicleQuiet(q)
  <2>1. \A q \in Orders \ {r} : order'[q] \in {order[q], Vehicle!Swept[q]}
    BY <1>1, VehicleSweeping DEF VehicleInv
  <2> QED
    BY <1>1, <2>1, OthersQuiet DEF VehicleInv
<1>4. \/ order'[r] \in {order[r], Vehicle!Swept[r]}
      \/ (order[r] = "executing" /\ order'[r] \in Vehicle!Completions)
  BY <1>1, VehicleSweeping DEF VehicleInv
<1>5. order'[r] # Vehicle!None
  BY <1>0, <1>4, VehicleSweeping DEF VehicleInv, Vehicle!Completions, Vehicle!None
<1>6. Row(r)'
  <2>1. CASE order'[r] \in {order[r], Vehicle!Swept[r]}
    <3>1. VehicleQuiet(r)
      BY <1>1, <2>1 DEF VehicleQuiet
    <3> QED
      BY <3>1, RowRests DEF VehicleInv
  <2>2. CASE order[r] = "executing" /\ order'[r] \in Vehicle!Completions
    <3>1. kind[r].shape = "workflow" => \A s \in Vehicle!WorkflowSteps :
                                          report[r][s] = Vehicle!None
      BY <1>0, <2>2, PlacesDiffer DEF VehicleInv, Runner, Progress, OnRoad, Vehicle!Completions
    <3> QED
      BY <1>1, <2>2, <3>1 DEF VehicleInv, Row, Decided, Vehicle!Completions, Vehicle!Waiting,
         Vehicle!None
  <2> QED
    BY <1>4, <2>1, <2>2
<1>7. Runner(i)'
  <2>1. runner'[i] = Vehicle!Done
    BY <1>1 DEF VehicleInv, Vehicle!TypeOK
  <2> QED
    BY <1>0, <1>5, <2>1, PlacesDiffer DEF Runner, AtRest, Alone, OnRoad, Early, Midway, Late
<1>8. Stepped(i, r)
  BY <1>0, <1>1, <1>3, <1>5 DEF Stepped, VehicleInv, Vehicle!TypeOK
<1> QED
  BY <1>2, <1>6, <1>7, <1>8, StepKeeps

\* What is ahead of each place, and on which part of the road it lies.
LEMMA RoadIs ==
  /\ Ahead(Vehicle!Calling("overview")) = Vehicle!WorkflowSteps
  /\ Ahead(Vehicle!Before("wake")) = Vehicle!WorkflowSteps
  /\ Ahead(Vehicle!Before("destination")) = Vehicle!WorkflowSteps
  /\ Ahead(Vehicle!Calling("wake")) = {"climate", "temperature", "seat", "route"}
  /\ Ahead(Vehicle!Calling("online")) = {"climate", "temperature", "seat", "route"}
  /\ Ahead(Vehicle!Before("climate")) = {"climate", "temperature", "seat", "route"}
  /\ Ahead(Vehicle!Calling("climate")) = {"temperature", "seat", "route"}
  /\ Ahead(Vehicle!Before("temperature")) = {"temperature", "seat", "route"}
  /\ Ahead(Vehicle!Calling("temperature")) = {"seat", "route"}
  /\ Ahead(Vehicle!Before("seat")) = {"seat", "route"}
  /\ Ahead(Vehicle!Calling("seat")) = {"route"} /\ Ahead(Vehicle!Before("route")) = {"route"}
  /\ Ahead(Vehicle!Calling("route")) = {}
  /\ Early \cap (Midway \cup Late) = {} /\ Midway \cap Late = {}
  /\ Late = {Vehicle!Before("temperature"), Vehicle!Before("seat"), Vehicle!Before("route"),
             Vehicle!Calling("temperature"), Vehicle!Calling("seat"), Vehicle!Calling("route")}
<1>1. /\ Ahead(Vehicle!Calling("overview")) = Vehicle!WorkflowSteps
      /\ Ahead(Vehicle!Before("wake")) = Vehicle!WorkflowSteps
      /\ Ahead(Vehicle!Before("destination")) = Vehicle!WorkflowSteps
  BY PlacesDiffer DEF Ahead
<1>2. /\ Ahead(Vehicle!Calling("wake")) = {"climate", "temperature", "seat", "route"}
      /\ Ahead(Vehicle!Calling("online")) = {"climate", "temperature", "seat", "route"}
      /\ Ahead(Vehicle!Before("climate")) = {"climate", "temperature", "seat", "route"}
  BY PlacesDiffer DEF Ahead
<1>3. /\ Ahead(Vehicle!Calling("climate")) = {"temperature", "seat", "route"}
      /\ Ahead(Vehicle!Before("temperature")) = {"temperature", "seat", "route"}
  BY PlacesDiffer DEF Ahead
<1>4. /\ Ahead(Vehicle!Calling("temperature")) = {"seat", "route"}
      /\ Ahead(Vehicle!Before("seat")) = {"seat", "route"}
  BY PlacesDiffer DEF Ahead
<1>5. Ahead(Vehicle!Calling("seat")) = {"route"} /\ Ahead(Vehicle!Before("route")) = {"route"}
  BY PlacesDiffer DEF Ahead
<1>6. Ahead(Vehicle!Calling("route")) = {}
  BY PlacesDiffer DEF Ahead
<1>7. Late = {Vehicle!Before("temperature"), Vehicle!Before("seat"), Vehicle!Before("route"),
              Vehicle!Calling("temperature"), Vehicle!Calling("seat"),
              Vehicle!Calling("route")}
  BY DEF Late
<1>8. Early \cap (Midway \cup Late) = {} /\ Midway \cap Late = {}
  BY <1>7, PlacesDiffer DEF Early, Midway
<1> QED
  BY <1>1, <1>2, <1>3, <1>4, <1>5, <1>6, <1>7, <1>8

\* A workflow goes from one place to the next.
LEMMA RoadKeeps ==
  ASSUME VehicleInv, NEW i \in Vehicle!Runners, runner[i] \in OnRoad,
         NEW p \in OnRoad \cap Vehicle!Places,
         runner' = [runner EXCEPT ![i] = p],
         UNCHANGED <<order, kind, late, told, of, claimer, stops>>,
         report' \in [Orders -> [Vehicle!WorkflowSteps -> Vehicle!Reports]],
         answer' \in [Orders \X Vehicle!Steps ->
                     {Vehicle!None, "inflight", "performed", "refused"}],
         \A q \in Orders \ {of[i]} :
           report'[q] = report[q] /\ \A s \in Vehicle!Steps :
                                       answer'[<<q, s>>] = answer[<<q, s>>],
         answer'[<<of[i], "call">>] = answer[<<of[i], "call">>],
         of[i] \in Orders => Progress(of[i], p)'
  PROVE  VehicleInv'
<1>0. PICK r \in Orders : /\ r = of[i] /\ order[r] = "executing" /\ kind[r].shape = "workflow"
                            /\ Progress(r, p)'
  <2>1. runner[i] # Vehicle!Unused
    BY PlacesDiffer DEF AtRest, OnRoad, Early, Midway, Late
  <2>2. of[i] \in Orders /\ kind[of[i]].shape = "workflow" /\ Progress(of[i], runner[i])
    BY <2>1 DEF VehicleInv, Runner
  <2>3. order[of[i]] = "executing"
    BY <2>2 DEF Progress
  <2> QED
    BY <2>2, <2>3
<1>1. Vehicle!TypeOK'
  BY DEF VehicleInv, Vehicle!TypeOK
<1>2. \A q \in Orders \ {r} : VehicleQuiet(q)
  BY <1>0 DEF VehicleQuiet
<1>3. Row(r)'
  BY <1>0 DEF VehicleInv, Row, Decided, Vehicle!Completions, Vehicle!Waiting, Vehicle!None
<1>4. Runner(i)'
  <2>1. runner'[i] = p
    BY DEF VehicleInv, Vehicle!TypeOK
  <2>2. p \notin AtRest \cup Alone
    BY PlacesDiffer DEF AtRest, Alone, OnRoad, Early, Midway, Late
  <2>3. Progress(of[i], runner[i])'
    BY <1>0, <2>1 DEF Progress
  <2> QED
    BY <1>0, <2>1, <2>2, <2>3 DEF Runner, AtRest, Alone, Vehicle!None
<1>5. answer[<<r, "call">>] = "performed" => answer'[<<r, "call">>] = "performed"
  BY <1>0
<1>6. Stepped(i, r)
  BY <1>0, <1>2, <1>5 DEF Stepped, VehicleInv, Vehicle!TypeOK, Vehicle!None
<1> QED
  BY <1>0, <1>1, <1>3, <1>4, <1>6, StepKeeps

\* Who stands on the road has a workflow that is being executed.
LEMMA OnRoadIs ==
  ASSUME VehicleInv, NEW i \in Vehicle!Runners, runner[i] \in OnRoad
  PROVE  /\ runner[i] # Vehicle!Unused /\ of[i] \in Orders /\ kind[of[i]].shape = "workflow"
         /\ order[of[i]] = "executing" /\ Progress(of[i], runner[i])
<1>1. runner[i] # Vehicle!Unused
  BY PlacesDiffer DEF AtRest, OnRoad, Early, Midway, Late
<1>2. of[i] \in Orders /\ kind[of[i]].shape = "workflow" /\ Progress(of[i], runner[i])
  BY <1>1 DEF VehicleInv, Runner
<1> QED
  BY <1>1, <1>2 DEF Progress

\* All the places of a step are on the road.
LEMMA RoadHas ==
  /\ \A s \in Vehicle!WorkflowSteps :
       {Vehicle!Before(s), Vehicle!Calling(s)} \subseteq OnRoad \cap Vehicle!Places
  /\ {Vehicle!Calling("overview"), Vehicle!Before("destination"), Vehicle!Calling("online")}
       \subseteq OnRoad \cap Vehicle!Places
<1>1. \A s \in Vehicle!WorkflowSteps :
        Vehicle!Before(s) \in OnRoad /\ Vehicle!Calling(s) \in OnRoad
  BY PlacesExist DEF OnRoad, Early, Midway, Late
<1>2. {Vehicle!Calling("overview"), Vehicle!Before("destination"), Vehicle!Calling("online")}
        \subseteq OnRoad
  BY DEF OnRoad, Early, Midway
<1> QED
  BY <1>1, <1>2, PlacesExist

\* A report of a step.
LEMMA Reporting ==
  ASSUME Vehicle!TypeOK, NEW r \in Orders, NEW s \in Vehicle!WorkflowSteps,
         NEW x \in Vehicle!Reports,
         report' = [report EXCEPT ![r][s] = x]
  PROVE  /\ report' \in [Orders -> [Vehicle!WorkflowSteps -> Vehicle!Reports]]
         /\ report'[r][s] = x
         /\ \A t \in Vehicle!WorkflowSteps \ {s} : report'[r][t] = report[r][t]
         /\ \A q \in Orders \ {r} : report'[q] = report[q]
  BY DEF Vehicle!TypeOK

\* Where a step that has ended leads.
LEMMA NextIs ==
  ASSUME NEW s \in Vehicle!WorkflowSteps \ {"route"}, NEW x
  PROVE  /\ Vehicle!NextStep(s, x) \in OnRoad \cap Vehicle!Places
         /\ Vehicle!NextStep(s, x) \notin Early
         /\ Vehicle!NextStep(s, x) \in Late <=> s # "wake"
         /\ Ahead(Vehicle!NextStep(s, x)) \subseteq Ahead(Vehicle!Calling(s))
         /\ Ahead(Vehicle!NextStep(s, x)) \subseteq Ahead(Vehicle!Before(s))
<1>1. CASE s = "wake"
  <2>1. Vehicle!NextStep(s, x) \in {Vehicle!Calling("online"), Vehicle!Before("climate")}
    BY <1>1 DEF Vehicle!NextStep
  <2> QED
    BY <1>1, <2>1, RoadIs, RoadHas, PlacesExist DEF Midway
<1>2. CASE s = "climate"
  <2>1. Vehicle!NextStep(s, x) = Vehicle!Before("temperature")
    BY <1>2 DEF Vehicle!NextStep
  <2> QED
    BY <1>2, <2>1, RoadIs, RoadHas, PlacesExist
<1>3. CASE s = "temperature"
  <2>1. Vehicle!NextStep(s, x) = Vehicle!Before("seat")
    BY <1>3 DEF Vehicle!NextStep
  <2> QED
    BY <1>3, <2>1, RoadIs, RoadHas, PlacesExist
<1>4. CASE s = "seat"
  <2>1. Vehicle!NextStep(s, x) = Vehicle!Before("route")
    BY <1>4 DEF Vehicle!NextStep
  <2> QED
    BY <1>4, <2>1, RoadIs, RoadHas, PlacesExist
<1> QED
  BY <1>1, <1>2, <1>3, <1>4, PlacesExist

\* A step that does not end the workflow.
LEMMA StepKeepsOn ==
  ASSUME VehicleInv, NEW i \in Vehicle!Runners, NEW s \in Vehicle!WorkflowSteps \ {"route"},
         runner[i] \in {Vehicle!Before(s), Vehicle!Calling(s)},
         NEW x \in Vehicle!Reports \ {Vehicle!None},
         report' = [report EXCEPT ![of[i]][s] = x],
         runner' = [runner EXCEPT ![i] = Vehicle!NextStep(s, x)],
         UNCHANGED <<order, told, kind, late, of, answer, claimer, stops>>
  PROVE  VehicleInv'
<1>1. runner[i] \in OnRoad
  BY RoadHas
<1>2. PICK r \in Orders : r = of[i] /\ order[r] = "executing" /\ Progress(r, runner[i])
  BY <1>1, OnRoadIs
<1>3. /\ report' \in [Orders -> [Vehicle!WorkflowSteps -> Vehicle!Reports]]
      /\ report'[r][s] = x
      /\ \A t \in Vehicle!WorkflowSteps \ {s} : report'[r][t] = report[r][t]
      /\ \A q \in Orders \ {r} : report'[q] = report[q]
  <2>1. Vehicle!TypeOK /\ report' = [report EXCEPT ![r][s] = x]
    BY <1>2 DEF VehicleInv
  <2> QED
    BY <2>1, Reporting
<1>4. Progress(r, Vehicle!NextStep(s, x))'
  <2>1. report'[r]["route"] = Vehicle!None
    BY <1>2, <1>3, PlacesExist DEF Progress
  <2>2. report'[r]["wake"] # Vehicle!None
    <3>1. CASE s = "wake"
      BY <1>3, <3>1
    <3>2. CASE s # "wake"
      <4>1. runner[i] \notin Early
        BY <3>2, PlacesExist, PlacesDiffer DEF Early
      <4> QED
        BY <1>2, <1>3, <3>2, <4>1, PlacesExist DEF Progress
    <3> QED
      BY <3>1, <3>2
  <2>3. s # "wake" => report'[r]["climate"] # Vehicle!None
    <3>1. CASE s = "climate"
      BY <1>3, <3>1
    <3>2. CASE s \in {"temperature", "seat"}
      <4>1. runner[i] \in Late
        BY <3>2, RoadIs
      <4> QED
        BY <1>2, <1>3, <3>2, <4>1, PlacesExist DEF Progress
    <3> QED
      BY <3>1, <3>2, PlacesExist
  <2>4. \A t \in Ahead(Vehicle!NextStep(s, x)) : answer[<<r, t>>] = Vehicle!None
    BY <1>2, NextIs DEF Progress
  <2> QED
    BY <1>2, <2>1, <2>2, <2>3, <2>4, NextIs DEF Progress
<1> QED
  BY <1>1, <1>2, <1>3, <1>4, NextIs, RoadKeeps DEF VehicleInv, Vehicle!TypeOK

\* The step that does.
LEMMA RouteKeeps ==
  ASSUME VehicleInv, NEW i \in Vehicle!Runners,
         runner[i] \in {Vehicle!Before("route"), Vehicle!Calling("route")},
         NEW x \in Vehicle!Reports \ {Vehicle!None}, Vehicle!StepEnds(i, "route", x),
         UNCHANGED <<kind, late, of, answer, claimer, stops>>
  PROVE  VehicleInv'
<1>1. runner[i] \in OnRoad /\ runner[i] \in Late /\ runner[i] \notin Early
  BY RoadHas, PlacesExist, RoadIs
<1>2. PICK r \in Orders : /\ r = of[i] /\ order[r] = "executing" /\ Progress(r, runner[i])
                            /\ kind[r].shape = "workflow"
  BY <1>1, OnRoadIs
<1>3. PICK v \in {"unverified", "failed"} :
        /\ v = (IF x = "accepted" THEN "unverified" ELSE "failed")
        /\ order' = [Vehicle!Swept EXCEPT ![r] = v]
        /\ told' = told \cup {r} /\ runner' = [runner EXCEPT ![i] = Vehicle!Done]
        /\ report' = [report EXCEPT ![r]["route"] = x]
  BY <1>2 DEF Vehicle!StepEnds, Vehicle!Goto, Vehicle!NextStep
<1>4. /\ report' \in [Orders -> [Vehicle!WorkflowSteps -> Vehicle!Reports]]
      /\ report'[r]["route"] = x
      /\ \A t \in Vehicle!WorkflowSteps \ {"route"} : report'[r][t] = report[r][t]
      /\ \A q \in Orders \ {r} : report'[q] = report[q]
  <2>1. Vehicle!TypeOK /\ "route" \in Vehicle!WorkflowSteps
    BY PlacesExist DEF VehicleInv
  <2>2. PICK y \in Vehicle!Reports : y = x
    OBVIOUS
  <2> QED
    BY <1>3, <2>1, <2>2, Reporting
<1>5. order' \in [Orders -> Vehicle!Statuses] /\ order'[r] = v
  BY <1>3, VehicleSweeping DEF VehicleInv, Vehicle!Statuses, Vehicle!Completions
<1>6. Vehicle!TypeOK'
  <2>1. runner' \in [Vehicle!Runners -> Vehicle!Places]
    BY <1>3, PlacesExist DEF VehicleInv, Vehicle!TypeOK
  <2>2. told' \subseteq Orders
    BY <1>3 DEF VehicleInv, Vehicle!TypeOK
  <2> QED
    BY <1>4, <1>5, <2>1, <2>2 DEF VehicleInv, Vehicle!TypeOK
<1>7. \A q \in Orders \ {r} : VehicleQuiet(q)
  <2>1. \A q \in Orders \ {r} : order'[q] \in {order[q], Vehicle!Swept[q]}
    BY <1>3, <1>4, VehicleSweeping DEF VehicleInv
  <2> QED
    BY <1>3, <1>4, <2>1, OthersQuiet DEF VehicleInv
<1>8. Row(r)'
  <2>1. report'[r]["wake"] # Vehicle!None /\ report'[r]["climate"] # Vehicle!None
    BY <1>1, <1>2, <1>4, PlacesExist DEF Progress
  <2>2. Decided(r)'
    BY <1>3, <1>4, <1>5, <2>1 DEF Decided
  <2>3. kind[r] \in OrderKinds
    BY <1>2 DEF VehicleInv, Row, Vehicle!None
  <2> QED
    BY <1>5, <2>2, <2>3 DEF Row, Vehicle!Completions, Vehicle!Waiting, Vehicle!None
<1>9. Runner(i)'
  <2>1. runner'[i] = Vehicle!Done
    BY <1>3 DEF VehicleInv, Vehicle!TypeOK
  <2> QED
    BY <1>2, <1>5, <2>1, PlacesDiffer DEF Runner, AtRest, Alone, OnRoad, Early, Midway, Late,
       Vehicle!None
<1>10. Stepped(i, r)
  BY <1>2, <1>3, <1>5, <1>7 DEF Stepped, VehicleInv, Vehicle!TypeOK, Vehicle!None
<1> QED
  BY <1>6, <1>8, <1>9, <1>10, StepKeeps

\* Any step that ends.
LEMMA StepEndsKeeps ==
  ASSUME VehicleInv, NEW i \in Vehicle!Runners, NEW s \in Vehicle!WorkflowSteps,
         runner[i] \in {Vehicle!Before(s), Vehicle!Calling(s)},
         NEW x \in {"accepted", "failed", "unsupported"}, Vehicle!StepEnds(i, s, x),
         UNCHANGED <<kind, late, of, answer, claimer, stops>>
  PROVE  VehicleInv'
<1>1. x \in Vehicle!Reports \ {Vehicle!None}
  BY DEF Vehicle!Reports, Vehicle!None
<1>2. CASE s = "route"
  BY <1>1, <1>2, RouteKeeps
<1>3. CASE s # "route"
  <2>1. runner[i] \in OnRoad
    BY RoadHas
  <2>2. order[of[i]] = "executing"
    BY <2>1, OnRoadIs
  <2>3. /\ report' = [report EXCEPT ![of[i]][s] = x]
        /\ runner' = [runner EXCEPT ![i] = Vehicle!NextStep(s, x)]
        /\ UNCHANGED <<order, told>>
    BY <1>3, <2>2 DEF Vehicle!StepEnds, Vehicle!Goto
  <2> QED
    BY <1>1, <1>3, <2>3, StepKeepsOn
<1> QED
  BY <1>2, <1>3

\* The steps of a runner, one by one.
LEMMA KeepsTakeStep ==
  ASSUME VehicleInv, NEW i \in Vehicle!Runners, NEW s \in Vehicle!WorkflowSteps,
         Vehicle!TakeStep(i, s) PROVE VehicleInv'
<1>1. runner[i] = Vehicle!Before(s) /\ runner[i] \in OnRoad
  BY RoadHas DEF Vehicle!TakeStep
<1>2. PICK r \in Orders : r = of[i] /\ order[r] = "executing" /\ Progress(r, runner[i])
  BY <1>1, OnRoadIs
<1>3. CASE Vehicle!Send(i, s) /\ UNCHANGED <<order, report, told>>
  <2>1. /\ answer' = [answer EXCEPT ![<<r, s>>] = "inflight"]
        /\ runner' = [runner EXCEPT ![i] = Vehicle!Calling(s)]
    BY <1>2, <1>3 DEF Vehicle!Send, Vehicle!Goto
  <2>2. /\ answer' \in [Orders \X Vehicle!Steps ->
                       {Vehicle!None, "inflight", "performed", "refused"}]
        /\ \A q \in Orders, t \in Vehicle!Steps :
             <<q, t>> # <<r, s>> => answer'[<<q, t>>] = answer[<<q, t>>]
    BY <2>1, PlacesExist DEF VehicleInv, Vehicle!TypeOK
  <2>3. Ahead(Vehicle!Calling(s)) = Ahead(Vehicle!Before(s)) \ {s}
    BY RoadIs, PlacesExist
  <2>4. Vehicle!Calling(s) \in Early <=> Vehicle!Before(s) \in Early
    BY RoadIs, PlacesExist, PlacesDiffer DEF Early
  <2>5. Vehicle!Calling(s) \in Late <=> Vehicle!Before(s) \in Late
    BY RoadIs, PlacesExist, PlacesDiffer
  <2>6. Progress(r, Vehicle!Calling(s))'
    <3>1. \A t \in Ahead(Vehicle!Calling(s)) :
            t \in Vehicle!Steps /\ t # s /\ t \in Ahead(Vehicle!Before(s))
      BY <2>3, RoadIs, PlacesExist
    <3>2. \A t \in Ahead(Vehicle!Calling(s)) : answer'[<<r, t>>] = Vehicle!None
      BY <1>1, <1>2, <2>2, <3>1 DEF Progress
    <3> QED
      BY <1>1, <1>2, <1>3, <2>4, <2>5, <3>2 DEF Progress
  <2>7. UNCHANGED <<order, kind, late, told, of, claimer, stops>>
    BY <1>3 DEF Vehicle!TakeStep
  <2>8. "call" # s /\ "call" \in Vehicle!Steps
    BY PlacesExist
  <2> QED
    BY <1>1, <1>2, <1>3, <2>1, <2>2, <2>6, <2>7, <2>8, RoadHas, RoadKeeps DEF VehicleInv,
       Vehicle!TypeOK
<1>4. CASE Vehicle!StepEnds(i, s, "unsupported") /\ UNCHANGED answer
  BY <1>1, <1>4, StepEndsKeeps DEF Vehicle!TakeStep
<1>5. CASE /\ s = "climate"
           /\ report' = [report EXCEPT ![of[i]][s] = "disabled"]
           /\ Vehicle!Goto(i, Vehicle!Before("route"))
           /\ UNCHANGED <<order, told, answer>>
  <2>1. /\ Vehicle!TypeOK /\ report' = [report EXCEPT ![r][s] = "disabled"]
        /\ "disabled" \in Vehicle!Reports
    BY <1>2, <1>5 DEF VehicleInv, Vehicle!Reports
  <2>2. /\ report' \in [Orders -> [Vehicle!WorkflowSteps -> Vehicle!Reports]]
        /\ report'[r][s] = "disabled"
        /\ \A t \in Vehicle!WorkflowSteps \ {s} : report'[r][t] = report[r][t]
        /\ \A q \in Orders \ {r} : report'[q] = report[q]
    BY <2>1, Reporting
  <2>3. runner[i] \notin Early
    BY <1>1, <1>5, RoadIs DEF Midway
  <2>4. /\ \A t \in Ahead(Vehicle!Before("route")) : t \in Ahead(runner[i])
        /\ Vehicle!Before("route") \notin Early
    BY <1>1, <1>5, RoadIs
  <2>5. Progress(r, Vehicle!Before("route"))'
    BY <1>2, <1>5, <2>2, <2>3, <2>4, PlacesExist DEF Progress, Vehicle!None
  <2>6. UNCHANGED <<order, kind, late, told, of, answer, claimer, stops>>
    BY <1>5 DEF Vehicle!TakeStep
  <2>7. /\ runner' = [runner EXCEPT ![i] = Vehicle!Before("route")]
        /\ Vehicle!Before("route") \in OnRoad \cap Vehicle!Places
    BY <1>5, RoadHas, PlacesExist DEF Vehicle!Goto
  <2> QED
    BY <1>1, <1>2, <2>2, <2>5, <2>6, <2>7, RoadKeeps DEF VehicleInv, Vehicle!TypeOK
<1>6. CASE /\ s = "seat" /\ Vehicle!Goto(i, Vehicle!Before("route"))
           /\ UNCHANGED <<order, report, told, answer>>
  <2>1. runner[i] \notin Early /\ runner[i] \in Late
    BY <1>1, <1>6, RoadIs
  <2>2. /\ \A t \in Ahead(Vehicle!Before("route")) : t \in Ahead(runner[i])
        /\ Vehicle!Before("route") \notin Early
    BY <1>1, <1>6, RoadIs
  <2>3. Progress(r, Vehicle!Before("route"))'
    BY <1>2, <1>6, <2>1, <2>2 DEF Progress
  <2>4. UNCHANGED <<order, report, kind, late, told, of, answer, claimer, stops>>
    BY <1>6 DEF Vehicle!TakeStep
  <2>5. /\ runner' = [runner EXCEPT ![i] = Vehicle!Before("route")]
        /\ Vehicle!Before("route") \in OnRoad \cap Vehicle!Places
    BY <1>6, RoadHas, PlacesExist DEF Vehicle!Goto
  <2> QED
    BY <1>1, <1>2, <2>3, <2>4, <2>5, RoadKeeps DEF VehicleInv, Vehicle!TypeOK
<1> QED
  BY <1>3, <1>4, <1>5, <1>6 DEF Vehicle!TakeStep

LEMMA KeepsStepAnswered ==
  ASSUME VehicleInv, NEW i \in Vehicle!Runners, NEW s \in Vehicle!WorkflowSteps,
         Vehicle!StepAnswered(i, s) PROVE VehicleInv'
<1>1. PICK x \in {"accepted", "failed", "unsupported"} : Vehicle!StepEnds(i, s, x)
  BY DEF Vehicle!StepAnswered
<1> QED
  BY <1>1, StepEndsKeeps DEF Vehicle!StepAnswered

LEMMA KeepsOverviewAnswered ==
  ASSUME VehicleInv, NEW i \in Vehicle!Runners, Vehicle!OverviewAnswered(i) PROVE VehicleInv'
<1>1. /\ runner[i] = Vehicle!Calling("overview") /\ runner[i] \in OnRoad /\ runner[i] \in Early
      /\ UNCHANGED <<kind, late, of, answer, claimer, stops>>
  BY RoadHas DEF Vehicle!OverviewAnswered, Early
<1>2. PICK r \in Orders : r = of[i] /\ order[r] = "executing" /\ Progress(r, runner[i])
  BY <1>1, OnRoadIs
<1>3. CASE Vehicle!Abort(i)
  BY <1>1, <1>3, EndKeeps DEF Vehicle!Completions
<1>4. CASE Vehicle!Goto(i, Vehicle!Before("wake")) /\ UNCHANGED <<order, report, told>>
  <2>1. Progress(r, Vehicle!Before("wake"))'
    <3>1. Vehicle!Before("wake") \in Early /\ Vehicle!Before("wake") \notin Late
      BY RoadIs DEF Early
    <3>2. Ahead(Vehicle!Before("wake")) = Ahead(runner[i])
      BY <1>1, RoadIs
    <3> QED
      BY <1>1, <1>2, <1>4, <3>1, <3>2 DEF Progress
  <2>2. /\ runner' = [runner EXCEPT ![i] = Vehicle!Before("wake")]
        /\ Vehicle!Before("wake") \in OnRoad \cap Vehicle!Places
    BY <1>4, RoadHas, PlacesExist DEF Vehicle!Goto
  <2> QED
    BY <1>1, <1>2, <1>4, <2>1, <2>2, RoadKeeps DEF VehicleInv, Vehicle!TypeOK
<1>5. CASE /\ Vehicle!Goto(i, Vehicle!Before("climate"))
           /\ report' = [report EXCEPT ![of[i]]["wake"] = "not_required"]
           /\ UNCHANGED <<order, told>>
  <2>1. Vehicle!TypeOK /\ report' = [report EXCEPT ![r]["wake"] = "not_required"]
        /\ "not_required" \in Vehicle!Reports /\ "wake" \in Vehicle!WorkflowSteps
    BY <1>2, <1>5, PlacesExist DEF VehicleInv, Vehicle!Reports
  <2>2. /\ report' \in [Orders -> [Vehicle!WorkflowSteps -> Vehicle!Reports]]
        /\ report'[r]["wake"] = "not_required"
        /\ \A t \in Vehicle!WorkflowSteps \ {"wake"} : report'[r][t] = report[r][t]
        /\ \A q \in Orders \ {r} : report'[q] = report[q]
    BY <2>1, Reporting
  <2>3. Progress(r, Vehicle!Before("climate"))'
    <3>1. Vehicle!Before("climate") \notin Early /\ Vehicle!Before("climate") \notin Late
      BY RoadIs DEF Midway
    <3>2. \A t \in Ahead(Vehicle!Before("climate")) : t \in Ahead(runner[i])
      BY <1>1, RoadIs, PlacesExist
    <3> QED
      BY <1>1, <1>2, <1>5, <2>2, <3>1, <3>2, PlacesExist DEF Progress, Vehicle!None
  <2>4. /\ runner' = [runner EXCEPT ![i] = Vehicle!Before("climate")]
        /\ Vehicle!Before("climate") \in OnRoad \cap Vehicle!Places
    BY <1>5, RoadHas, PlacesExist DEF Vehicle!Goto
  <2> QED
    BY <1>1, <1>2, <1>5, <2>2, <2>3, <2>4, RoadKeeps DEF VehicleInv, Vehicle!TypeOK
<1> QED
  BY <1>3, <1>4, <1>5 DEF Vehicle!OverviewAnswered

LEMMA KeepsOnlineOrNot ==
  ASSUME VehicleInv, NEW i \in Vehicle!Runners, Vehicle!OnlineOrNot(i) PROVE VehicleInv'
<1>1. /\ runner[i] = Vehicle!Calling("online") /\ runner[i] \in OnRoad
      /\ UNCHANGED <<order, kind, late, report, told, of, answer, claimer, stops>>
  BY RoadHas DEF Vehicle!OnlineOrNot, Vehicle!rows
<1>2. PICK r \in Orders : r = of[i] /\ order[r] = "executing" /\ Progress(r, runner[i])
  BY <1>1, OnRoadIs
<1>3. Progress(r, Vehicle!Before("climate"))'
  <2>1. /\ Vehicle!Before("climate") \notin Early /\ Vehicle!Before("climate") \notin Late
        /\ Vehicle!Calling("online") \notin Early
    BY RoadIs DEF Midway
  <2>2. Ahead(Vehicle!Before("climate")) = Ahead(runner[i])
    BY <1>1, RoadIs
  <2> QED
    BY <1>1, <1>2, <2>1, <2>2 DEF Progress
<1>4. /\ runner' = [runner EXCEPT ![i] = Vehicle!Before("climate")]
      /\ Vehicle!Before("climate") \in OnRoad \cap Vehicle!Places
  BY RoadHas, PlacesExist DEF Vehicle!OnlineOrNot, Vehicle!Goto
<1> QED
  BY <1>1, <1>2, <1>3, <1>4, RoadKeeps DEF VehicleInv, Vehicle!TypeOK

\* Single actions, and ends of workflows before their first step.
LEMMA KeepsEnds ==
  ASSUME VehicleInv, NEW i \in Vehicle!Runners,
         Vehicle!WithoutDestination(i) \/ \E v \in Vehicle!Completions : Vehicle!Observed(i, v)
  PROVE  VehicleInv'
<1>1. PICK v \in Vehicle!Completions :
        /\ Vehicle!Complete(i, v) /\ UNCHANGED <<kind, late, of, answer, claimer, stops>>
        /\ runner[i] \in {Vehicle!Before("destination"), Vehicle!Calling("observe")}
  BY DEF Vehicle!WithoutDestination, Vehicle!Observed, Vehicle!Completions
<1> QED
  BY <1>1, EndKeeps DEF Early, Alone

LEMMA KeepsSingleAnswered ==
  ASSUME VehicleInv, NEW i \in Vehicle!Runners, Vehicle!SingleAnswered(i) PROVE VehicleInv'
<1>1. /\ runner[i] = Vehicle!Calling("call") /\ runner[i] \in Alone
      /\ UNCHANGED <<kind, late, of, answer, claimer, stops>>
  BY DEF Vehicle!SingleAnswered, Alone
<1>2. CASE \E v \in Vehicle!Completions : Vehicle!Complete(i, v)
  BY <1>1, <1>2, EndKeeps
<1>3. CASE /\ answer[<<of[i], "call">>] = "performed"
           /\ Vehicle!Goto(i, Vehicle!Calling("observe")) /\ UNCHANGED <<order, report, told>>
  <2>1. PICK r \in Orders : r = of[i] /\ order[r] # Vehicle!None /\ kind[r].shape # "workflow"
    BY <1>1, PlacesDiffer DEF VehicleInv, Runner, AtRest
  <2>2. Vehicle!TypeOK' /\ runner'[i] = Vehicle!Calling("observe")
    BY <1>1, <1>3, PlacesExist DEF VehicleInv, Vehicle!TypeOK, Vehicle!Goto
  <2>3. \A q \in Orders : VehicleQuiet(q)
    BY <1>1, <1>3 DEF VehicleQuiet
  <2>4. Row(r)'
    BY <2>3, RowRests DEF VehicleInv
  <2>5. Runner(i)'
    <3>1. runner'[i] \in Alone /\ runner'[i] \notin AtRest \cup OnRoad
      BY <2>2, PlacesDiffer, PlacesExist DEF Alone, AtRest, OnRoad, Early, Midway, Late
    <3> QED
      BY <1>1, <1>3, <2>1, <2>2, <3>1 DEF Runner, AtRest
  <2>6. Stepped(i, r)
    BY <1>1, <1>3, <2>1, <2>3 DEF Stepped, Vehicle!Goto, VehicleInv, Vehicle!TypeOK
  <2> QED
    BY <2>2, <2>4, <2>5, <2>6, StepKeeps
<1> QED
  BY <1>2, <1>3 DEF Vehicle!SingleAnswered, Vehicle!Completions

LEMMA KeepsStart ==
  ASSUME VehicleInv, NEW i \in Vehicle!Runners, Vehicle!Start(i) PROVE VehicleInv'
<1>1. runner[i] = Vehicle!Scheduled /\ UNCHANGED <<kind, late, of, stops>>
  BY DEF Vehicle!Start
<1>2. PICK r \in Orders : r = of[i] /\ order[r] # Vehicle!None
  BY <1>1, PlacesDiffer DEF VehicleInv, Runner
<1>3. CASE ~Vehicle!Claimable(r)
  <2>1. Vehicle!Abort(i) /\ UNCHANGED <<answer, claimer>>
    BY <1>2, <1>3 DEF Vehicle!Start
  <2> QED
    BY <1>1, <2>1, EndKeeps DEF Vehicle!Completions
<1>4. CASE Vehicle!Claimable(r)
  <2>1. /\ order[r] \in Vehicle!Waiting
        /\ \A s \in Vehicle!Steps : answer[<<r, s>>] = Vehicle!None
        /\ \A s \in Vehicle!WorkflowSteps : report[r][s] = Vehicle!None
    <3>1. order[r] \in Vehicle!Waiting
      BY <1>4, VehicleSweeping DEF Vehicle!Claimable, Vehicle!Expected, Vehicle!Waiting,
         VehicleInv
    <3> QED
      BY <3>1 DEF VehicleInv, Row, Vehicle!Waiting, Vehicle!Completions
  <2>2. /\ order' = [Vehicle!Swept EXCEPT ![r] = "executing"]
        /\ claimer' = [claimer EXCEPT ![r] = i]
        /\ UNCHANGED <<report, told>>
    BY <1>2, <1>4 DEF Vehicle!Start
  <2>3. order' \in [Orders -> Vehicle!Statuses] /\ order'[r] = "executing"
    BY <2>2, VehicleSweeping DEF VehicleInv, Vehicle!Statuses
  <2>4. claimer' \in [Orders -> Vehicle!Runners \cup {Vehicle!NoRunner}]
    BY <2>2 DEF VehicleInv, Vehicle!TypeOK
  <2>5. Row(r)'
    BY <1>1, <1>2, <2>1, <2>2, <2>3 DEF VehicleInv, Row, Decided, Vehicle!Waiting,
       Vehicle!Completions, Vehicle!None
  <2>6. CASE kind[r].shape # "workflow" /\ Vehicle!Send(i, "call")
    <3>1. /\ answer' = [answer EXCEPT ![<<r, "call">>] = "inflight"]
          /\ runner' = [runner EXCEPT ![i] = Vehicle!Calling("call")]
      BY <1>2, <2>6 DEF Vehicle!Send, Vehicle!Goto
    <3>2. /\ answer' \in [Orders \X Vehicle!Steps ->
                         {Vehicle!None, "inflight", "performed", "refused"}]
          /\ \A q \in Orders \ {r}, t \in Vehicle!Steps : answer'[<<q, t>>] = answer[<<q, t>>]
      BY <3>1, PlacesExist DEF VehicleInv, Vehicle!TypeOK
    <3>3. Vehicle!TypeOK' /\ runner'[i] = Vehicle!Calling("call")
      BY <1>1, <2>2, <2>3, <2>4, <3>1, <3>2, PlacesExist DEF VehicleInv, Vehicle!TypeOK
    <3>4. Runner(i)'
      <4>1. /\ runner'[i] \in Alone /\ runner'[i] \notin AtRest \cup OnRoad
            /\ runner'[i] # Vehicle!Calling("observe")
        BY <3>3, PlacesDiffer, PlacesExist DEF Alone, AtRest, OnRoad, Early, Midway, Late
      <4> QED
        BY <1>1, <1>2, <2>3, <2>6, <3>3, <4>1 DEF Runner, AtRest, Vehicle!None
    <3>5. \A q \in Orders \ {r} : VehicleQuiet(q)
      <4>1. \A q \in Orders \ {r} : order'[q] \in {order[q], Vehicle!Swept[q]}
        BY <1>1, <2>2, <3>2, VehicleSweeping DEF VehicleInv
      <4> QED
        BY <1>1, <2>2, <3>2, <4>1, OthersQuiet DEF VehicleInv
    <3>6. answer[<<r, "call">>] # "performed"
      BY <2>1 DEF Vehicle!Steps, Vehicle!None
    <3>7. Stepped(i, r)
      BY <1>1, <1>2, <2>3, <3>1, <3>5, <3>6 DEF Stepped, VehicleInv, Vehicle!TypeOK,
         Vehicle!None
    <3> QED
      BY <2>5, <3>3, <3>4, <3>7, StepKeeps
  <2>7. CASE /\ kind[r].shape = "workflow" /\ UNCHANGED answer
             /\ \/ Vehicle!Goto(i, Vehicle!Calling("overview"))
                \/ Vehicle!Goto(i, Vehicle!Before("destination"))
    <3>1. PICK p \in {Vehicle!Calling("overview"), Vehicle!Before("destination")} :
                 runner' = [runner EXCEPT ![i] = p]
      BY <2>7 DEF Vehicle!Goto
    <3>2. /\ p \in OnRoad \cap Vehicle!Places /\ p \in Early /\ p \notin Late
          /\ Ahead(p) = Vehicle!WorkflowSteps
      BY RoadHas, RoadIs DEF Early
    <3>3. Vehicle!TypeOK' /\ runner'[i] = p
      BY <1>1, <2>2, <2>3, <2>4, <2>7, <3>1, <3>2 DEF VehicleInv, Vehicle!TypeOK
    <3>4. Progress(r, p)'
      BY <2>1, <2>2, <2>3, <2>7, <3>2, PlacesExist DEF Progress
    <3>5. Runner(i)'
      <4>1. p \notin AtRest \cup Alone
        BY PlacesDiffer DEF AtRest, Alone
      <4>2. Progress(of[i], runner[i])'
        BY <1>1, <1>2, <3>3, <3>4 DEF Progress
      <4> QED
        BY <1>1, <1>2, <2>3, <2>7, <3>2, <3>3, <4>1, <4>2 DEF Runner, AtRest, Alone,
           Vehicle!None
    <3>6. \A q \in Orders \ {r} : VehicleQuiet(q)
      <4>1. \A q \in Orders \ {r} : order'[q] \in {order[q], Vehicle!Swept[q]}
        BY <1>1, <2>2, <2>7, VehicleSweeping DEF VehicleInv
      <4> QED
        BY <1>1, <2>2, <2>7, <4>1, OthersQuiet DEF VehicleInv
    <3>7. Stepped(i, r)
      BY <1>1, <1>2, <2>3, <2>7, <3>1, <3>6 DEF Stepped, VehicleInv, Vehicle!TypeOK,
         Vehicle!None
    <3> QED
      BY <2>5, <3>3, <3>5, <3>7, StepKeeps
  <2> QED
    BY <1>2, <1>4, <2>6, <2>7 DEF Vehicle!Start
<1> QED
  BY <1>3, <1>4

-----------------------------------------------------------------------------
(* Everything but the runners' steps.                                       *)

\* A step that leaves every request, and the runners, as they are.
LEMMA QuietKeeps ==
  ASSUME VehicleInv, Vehicle!TypeOK', \A q \in Orders : VehicleQuiet(q),
         UNCHANGED <<kind, runner, of>>
  PROVE  VehicleInv'
<1>1. ASSUME NEW q \in Orders PROVE Row(q)'
  BY RowRests DEF VehicleInv
<1>2. ASSUME NEW j \in Vehicle!Runners PROVE Runner(j)'
  BY RunnerRests DEF VehicleInv
<1>3. Single'
  BY DEF VehicleInv, Single
<1> QED
  BY <1>1, <1>2, <1>3 DEF VehicleInv

\* A runner is scheduled for a request.
Scheduling(i, r) ==
  /\ runner[i] = Vehicle!Unused /\ runner' = [runner EXCEPT ![i] = Vehicle!Scheduled]
  /\ of' = [of EXCEPT ![i] = r]

LEMMA ScheduledRunner ==
  ASSUME VehicleInv, NEW i \in Vehicle!Runners, NEW r \in Orders, Scheduling(i, r),
         order'[r] # Vehicle!None,
         kind'[r].shape = "workflow" => order'[r] \notin {"executing"} \cup Vehicle!Completions
  PROVE  /\ runner'[i] = Vehicle!Scheduled /\ of'[i] = r /\ Runner(i)'
         /\ runner' \in [Vehicle!Runners -> Vehicle!Places]
         /\ of' \in [Vehicle!Runners -> Orders \cup {Vehicle!None}]
         /\ \A j \in Vehicle!Runners \ {i} : runner'[j] = runner[j] /\ of'[j] = of[j]
<1>1. runner'[i] = Vehicle!Scheduled /\ of'[i] = r
  BY DEF Scheduling, VehicleInv, Vehicle!TypeOK
<1>2. Runner(i)'
  BY <1>1, PlacesDiffer DEF Runner, AtRest, Alone, OnRoad, Early, Midway, Late
<1> QED
  BY <1>1, <1>2, PlacesExist DEF Scheduling, VehicleInv, Vehicle!TypeOK

LEMMA KeepsRequest ==
  ASSUME Vehicle!BoundsAssumption, VehicleInv, NEW r \in Orders, NEW k \in OrderKinds,
         Vehicle!Request(r, k)
  PROVE  VehicleInv'
<1>1. /\ order[r] = Vehicle!None /\ kind' = [kind EXCEPT ![r] = k]
      /\ order' = [Vehicle!Swept EXCEPT ![r] = Vehicle!Created(k)]
      /\ UNCHANGED <<late, report, told, answer, claimer, stops>>
  BY DEF Vehicle!Request
<1>2. /\ order' \in [Orders -> Vehicle!Statuses] /\ order'[r] = Vehicle!Created(k)
      /\ Vehicle!Created(k) \in Vehicle!Waiting
      /\ kind' \in [Orders -> OrderKinds \cup {Vehicle!NoKind}] /\ kind'[r] = k
      /\ \A q \in Orders \ {r} : kind'[q] = kind[q] /\ order'[q] = Vehicle!Swept[q]
  BY <1>1, VehicleSweeping DEF VehicleInv, Vehicle!TypeOK, Vehicle!Created, Vehicle!Waiting,
     Vehicle!Statuses
<1>3. \A q \in Orders \ {r} : VehicleQuiet(q)
  BY <1>1, <1>2 DEF VehicleQuiet
<1>4. Row(r)'
  <2>1. Row(r)
    BY DEF VehicleInv
  <2>2. order[r] \notin {"executing"} \cup Vehicle!Completions
    BY <1>1 DEF Vehicle!Completions, Vehicle!None
  <2> QED
    BY <1>1, <1>2, <2>1, <2>2 DEF Row, Decided, Vehicle!Waiting, Vehicle!Completions,
       Vehicle!None
<1>5. ASSUME NEW q \in Orders PROVE Row(q)'
  BY <1>3, <1>4, RowRests DEF VehicleInv
<1>6. \A j \in Vehicle!Runners : of[j] # r
  BY <1>1 DEF VehicleInv, Runner, Vehicle!BoundsAssumption
<1>7. ASSUME NEW j \in Vehicle!Runners, runner'[j] = runner[j], of'[j] = of[j] PROVE Runner(j)'
  BY <1>3, <1>6, <1>7, RunnerRests DEF VehicleInv
<1>8. CASE UNCHANGED <<runner, of>>
  <2>1. Vehicle!TypeOK'
    BY <1>1, <1>2, <1>8 DEF VehicleInv, Vehicle!TypeOK
  <2>2. Single'
    BY <1>2, <1>6, <1>8 DEF VehicleInv, Single
  <2> QED
    BY <1>5, <1>7, <1>8, <2>1, <2>2 DEF VehicleInv
<1>9. ASSUME NEW i \in Vehicle!Runners, Scheduling(i, r) PROVE VehicleInv'
  <2>1. order'[r] # Vehicle!None /\ order'[r] \notin {"executing"} \cup Vehicle!Completions
    BY <1>2 DEF Vehicle!Waiting, Vehicle!Completions, Vehicle!None
  <2>2. /\ of'[i] = r /\ Runner(i)'
        /\ runner' \in [Vehicle!Runners -> Vehicle!Places]
        /\ of' \in [Vehicle!Runners -> Orders \cup {Vehicle!None}]
        /\ \A j \in Vehicle!Runners \ {i} : runner'[j] = runner[j] /\ of'[j] = of[j]
    BY <1>9, <2>1, ScheduledRunner
  <2>3. Vehicle!TypeOK'
    BY <1>1, <1>2, <2>2 DEF VehicleInv, Vehicle!TypeOK
  <2>4. \A j \in Vehicle!Runners : Runner(j)'
    BY <1>7, <2>2
  <2>5. Single'
    BY <1>2, <1>6, <2>2 DEF VehicleInv, Single
  <2> QED
    BY <1>5, <2>3, <2>4, <2>5 DEF VehicleInv
<1> QED
  BY <1>8, <1>9 DEF Vehicle!Request, Vehicle!Schedule, Scheduling

LEMMA KeepsConfirm ==
  ASSUME Vehicle!BoundsAssumption, VehicleInv, NEW r \in Orders, Vehicle!Confirm(r)
  PROVE VehicleInv'
<1>1. /\ order' = Vehicle!Swept
      /\ UNCHANGED <<kind, late, report, told, answer, claimer, stops>>
      /\ order' \in [Orders -> Vehicle!Statuses]
  BY VehicleSweeping DEF Vehicle!Confirm, VehicleInv
<1>2. \A q \in Orders : VehicleQuiet(q)
  BY <1>1 DEF VehicleQuiet
<1>3. CASE UNCHANGED <<runner, of>>
  BY <1>1, <1>2, <1>3, QuietKeeps DEF VehicleInv, Vehicle!TypeOK
<1>4. ASSUME NEW i \in Vehicle!Runners, Scheduling(i, r),
             Vehicle!Swept[r] = "pending_confirmation" PROVE VehicleInv'
  <2>1. kind[r] \in OrderKinds /\ kind[r].risk = "high" /\ kind[r].shape # "workflow"
    <3>1. order[r] = "pending_confirmation"
      BY <1>4, VehicleSweeping DEF VehicleInv
    <3>2. kind[r] \in OrderKinds /\ Vehicle!Created(kind[r]) = "pending_confirmation"
      BY <3>1 DEF VehicleInv, Row, Vehicle!Waiting, Vehicle!None
    <3>3. kind[r].risk = "high"
      BY <3>2 DEF Vehicle!Created
    <3> QED
      BY <3>2, <3>3 DEF Vehicle!BoundsAssumption
  <2>2. order'[r] # Vehicle!None
    BY <1>1, <1>4 DEF Vehicle!None
  <2>3. /\ of'[i] = r /\ Runner(i)'
        /\ runner' \in [Vehicle!Runners -> Vehicle!Places]
        /\ of' \in [Vehicle!Runners -> Orders \cup {Vehicle!None}]
        /\ \A j \in Vehicle!Runners \ {i} : runner'[j] = runner[j] /\ of'[j] = of[j]
    BY <1>1, <1>4, <2>1, <2>2, ScheduledRunner
  <2>4. Vehicle!TypeOK'
    BY <1>1, <2>3 DEF VehicleInv, Vehicle!TypeOK
  <2>5. ASSUME NEW j \in Vehicle!Runners PROVE Runner(j)'
    BY <1>2, <2>3, RunnerRests DEF VehicleInv
  <2>6. ASSUME NEW q \in Orders PROVE Row(q)'
    BY <1>2, RowRests DEF VehicleInv
  <2>7. Single'
    BY <1>1, <2>1, <2>3 DEF VehicleInv, Single
  <2> QED
    BY <2>4, <2>5, <2>6, <2>7 DEF VehicleInv
<1> QED
  BY <1>3, <1>4 DEF Vehicle!Confirm, Vehicle!Schedule, Scheduling

LEMMA KeepsReadRequests == ASSUME VehicleInv, Vehicle!ReadRequests PROVE VehicleInv'
<1>1. /\ order' = Vehicle!Swept /\ order' \in [Orders -> Vehicle!Statuses]
      /\ UNCHANGED <<kind, late, report, told, runner, of, answer, claimer, stops>>
  BY VehicleSweeping DEF Vehicle!ReadRequests, VehicleInv
<1> QED
  BY <1>1, QuietKeeps DEF VehicleInv, Vehicle!TypeOK, VehicleQuiet

\* An answer is of a call that was sent, so that its request is under way or decided.
LEMMA KeepsProviderActs ==
  ASSUME VehicleInv, NEW r \in Orders, NEW s \in Vehicle!Steps,
         Vehicle!ProviderActs(r, s) PROVE VehicleInv'
<1>1. PICK x \in {"performed", "refused"} :
        /\ answer[<<r, s>>] = "inflight" /\ answer' = [answer EXCEPT ![<<r, s>>] = x]
        /\ UNCHANGED <<order, kind, late, report, told, runner, of, claimer, stops>>
  BY DEF Vehicle!ProviderActs, Vehicle!rows
<1>2. /\ answer' \in [Orders \X Vehicle!Steps -> {Vehicle!None, "inflight", "performed", "refused"}]
      /\ \A q \in Orders, t \in Vehicle!Steps :
             <<q, t>> # <<r, s>> => answer'[<<q, t>>] = answer[<<q, t>>]
  BY <1>1 DEF VehicleInv, Vehicle!TypeOK
<1>3. Vehicle!TypeOK'
  BY <1>1, <1>2 DEF VehicleInv, Vehicle!TypeOK
<1>4. order[r] \in {"executing"} \cup Vehicle!Completions
  BY <1>1 DEF VehicleInv, Row, Vehicle!None
<1>5. ASSUME NEW q \in Orders PROVE Row(q)'
  <2>1. CASE q = r
    BY <1>1, <1>4, <2>1 DEF VehicleInv, Row, Decided, Vehicle!Completions, Vehicle!Waiting,
       Vehicle!None
  <2>2. CASE q # r
    BY <1>1, <1>2, <2>2, RowRests DEF VehicleInv, VehicleQuiet
  <2> QED
    BY <2>1, <2>2
<1>6. ASSUME NEW j \in Vehicle!Runners PROVE Runner(j)'
  <2>1. CASE of[j] = r /\ runner[j] \in OnRoad
    <3>1. Progress(r, runner[j]) /\ kind[r].shape = "workflow"
      BY <2>1, OnRoadIs
    <3>2. s \notin Ahead(runner[j])
      BY <1>1, <3>1 DEF Progress, Vehicle!None
    <3>3. \A t \in Ahead(runner[j]) : t \in Vehicle!Steps
      BY DEF Ahead, Vehicle!Steps, Vehicle!WorkflowSteps, Vehicle!Workflow
    <3>4. Progress(r, runner[j])'
      BY <1>1, <1>2, <3>1, <3>2, <3>3 DEF Progress
    <3>5. runner[j] \notin Alone
      BY <2>1, <3>1 DEF VehicleInv, Runner
    <3>6. Progress(of[j], runner[j])'
      BY <1>1, <2>1, <3>4 DEF Progress
    <3>7. Runner(j)
      BY DEF VehicleInv
    <3> QED
      BY <1>1, <2>1, <3>1, <3>5, <3>6, <3>7 DEF Runner, Alone
  <2>2. CASE of[j] = r /\ runner[j] \notin OnRoad
    <3>1. answer[<<r, "call">>] = "performed" => answer'[<<r, "call">>] = "performed"
      BY <1>1, <1>2, PlacesExist
    <3>2. Runner(j)
      BY DEF VehicleInv
    <3> QED
      BY <1>1, <2>2, <3>1, <3>2 DEF Runner
  <2>3. CASE of[j] # r
    BY <1>1, <1>2, <2>3, RunnerRests DEF VehicleInv, VehicleQuiet
  <2> QED
    BY <2>1, <2>2, <2>3
<1>7. Single'
  BY <1>1 DEF VehicleInv, Single
<1> QED
  BY <1>3, <1>5, <1>6, <1>7 DEF VehicleInv

LEMMA KeepsLapse ==
  ASSUME VehicleInv, NEW r \in Orders, Vehicle!Lapse(r) PROVE VehicleInv'
<1>1. /\ order[r] \in Vehicle!Waiting /\ late' = late \cup {r}
      /\ UNCHANGED <<order, kind, report, told, runner, of, answer, claimer, stops>>
  BY DEF Vehicle!Lapse
<1>2. Vehicle!TypeOK'
  BY <1>1 DEF VehicleInv, Vehicle!TypeOK
<1>3. ASSUME NEW q \in Orders PROVE Row(q)'
  BY <1>1 DEF VehicleInv, Row, Decided, Vehicle!Waiting, Vehicle!None
<1>4. ASSUME NEW j \in Vehicle!Runners PROVE Runner(j)'
  BY <1>1 DEF VehicleInv, Runner, Progress
<1>5. Single'
  BY <1>1 DEF VehicleInv, Single
<1> QED
  BY <1>2, <1>3, <1>4, <1>5 DEF VehicleInv

LEMMA KeepsCoreCrashes ==
  ASSUME Vehicle!BoundsAssumption, VehicleInv, Vehicle!CoreCrashes
  PROVE  VehicleInv'
<1>1. /\ runner' = [i \in Vehicle!Runners |->
                        IF runner[i] = Vehicle!Unused THEN Vehicle!Unused ELSE Vehicle!Done]
      /\ UNCHANGED <<order, kind, late, report, told, of, answer, claimer>>
      /\ stops < MaxStops /\ stops' = stops + 1
  BY DEF Vehicle!CoreCrashes, Vehicle!rows
<1>2. Vehicle!TypeOK'
  <2>1. stops' \in 0..MaxStops
    BY <1>1 DEF Vehicle!BoundsAssumption, VehicleInv, Vehicle!TypeOK
  <2> QED
    BY <1>1, <2>1, PlacesExist DEF VehicleInv, Vehicle!TypeOK
<1>3. ASSUME NEW q \in Orders PROVE Row(q)'
  BY <1>1 DEF VehicleInv, Row, Decided
<1>4. ASSUME NEW j \in Vehicle!Runners PROVE Runner(j)'
  BY <1>1, PlacesDiffer DEF VehicleInv, Runner, AtRest, Alone, OnRoad, Early, Midway, Late
<1>5. Single'
  BY <1>1 DEF VehicleInv, Single
<1> QED
  BY <1>2, <1>3, <1>4, <1>5 DEF VehicleInv

LEMMA VehicleSteps ==
  ASSUME Vehicle!BoundsAssumption, VehicleInv, Vehicle!Next
  PROVE  VehicleInv'
<1>1. ASSUME NEW i \in Vehicle!Runners, Vehicle!RunnerStep(i) PROVE VehicleInv'
  BY <1>1, KeepsStart, KeepsEnds, KeepsSingleAnswered, KeepsOverviewAnswered, KeepsOnlineOrNot,
     KeepsTakeStep, KeepsStepAnswered DEF Vehicle!RunnerStep
<1>2. ASSUME NEW r \in Orders, NEW k \in OrderKinds, Vehicle!Request(r, k) PROVE VehicleInv'
  BY <1>2, KeepsRequest
<1>3. ASSUME NEW r \in Orders, Vehicle!Confirm(r) \/ Vehicle!Lapse(r) PROVE VehicleInv'
  BY <1>3, KeepsConfirm, KeepsLapse
<1>4. ASSUME NEW r \in Orders, NEW s \in Vehicle!Steps, Vehicle!ProviderActs(r, s)
      PROVE VehicleInv'
  BY <1>4, KeepsProviderActs
<1>5. CASE Vehicle!ReadRequests \/ Vehicle!CoreCrashes
  BY <1>5, KeepsReadRequests, KeepsCoreCrashes
<1> QED
  BY <1>1, <1>2, <1>3, <1>4, <1>5 DEF Vehicle!Next

LEMMA VehicleRests == VehicleInv /\ UNCHANGED Vehicle!vars => VehicleInv'
<1> SUFFICES ASSUME VehicleInv, UNCHANGED Vehicle!vars PROVE VehicleInv'
  OBVIOUS
<1>1. UNCHANGED <<order, kind, late, report, told, runner, of, answer, claimer, stops>>
  BY DEF Vehicle!vars, Vehicle!rows
<1> QED
  BY <1>1, QuietKeeps DEF VehicleInv, Vehicle!TypeOK, VehicleQuiet

LEMMA VehicleSafe == VehicleInv => Vehicle!RouteDecides
  BY DEF VehicleInv, Row, Decided, Vehicle!RouteDecides

-----------------------------------------------------------------------------
(* The contract of governed actions.                                       *)

VehiclePerformed == {c \in Orders \X Vehicle!Steps : answer[c] = "performed"}

\* Where a request stands, read off its row and its lifetime.
VehiclePhaseOf(s, gone) ==
  IF s \in Vehicle!Waiting THEN IF gone THEN "expired" ELSE "waiting"
  ELSE IF s = "reconciled" THEN "verified" ELSE s

LEMMA VehiclePhaseIs ==
  /\ Vehicle!Phase = [r \in Orders |-> VehiclePhaseOf(order[r], r \in late)]
  /\ Vehicle!Phase' = [r \in Orders |-> VehiclePhaseOf(order'[r], r \in late')]
<1>1. "expired" \notin Vehicle!Waiting /\ "reconciled" \notin Vehicle!Waiting
  BY DEF Vehicle!Waiting
<1>2. Vehicle!Phase = [r \in Orders |-> VehiclePhaseOf(order[r], r \in late)]
  BY <1>1 DEF Vehicle!Phase, VehiclePhaseOf, Vehicle!Swept
<1>3. Vehicle!Phase' = [r \in Orders |-> VehiclePhaseOf(order'[r], r \in late')]
  BY <1>1 DEF Vehicle!Phase, VehiclePhaseOf, Vehicle!Swept
<1> QED
  BY <1>2, <1>3

LEMMA VehicleQuietPhase ==
  ASSUME Vehicle!TypeOK, NEW q \in Orders, VehicleQuiet(q)
  PROVE  VehiclePhaseOf(order'[q], q \in late') = VehiclePhaseOf(order[q], q \in late)
<1>1. Vehicle!Swept[q] = IF order[q] \in Vehicle!Waiting /\ q \in late THEN "expired" ELSE order[q]
  BY DEF Vehicle!Swept
<1>2. "expired" \notin Vehicle!Waiting
  BY DEF Vehicle!Waiting
<1> QED
  BY <1>1, <1>2 DEF VehicleQuiet, VehiclePhaseOf

\* A step after which every request stands where it stood, and one that moves one request.
LEMMA VehicleAllQuiet ==
  ASSUME Vehicle!TypeOK, \A q \in Orders : VehicleQuiet(q)
  PROVE Vehicle!Phase' = Vehicle!Phase /\ VehiclePerformed' = VehiclePerformed
<1>1. Vehicle!Phase' = Vehicle!Phase
  BY VehiclePhaseIs, VehicleQuietPhase
<1> QED
  BY <1>1 DEF VehiclePerformed, VehicleQuiet

LEMMA VehicleOneMoves ==
  ASSUME Vehicle!TypeOK, NEW r \in Orders, \A q \in Orders \ {r} : VehicleQuiet(q)
  PROVE  Vehicle!Phase' = [Vehicle!Phase EXCEPT ![r] = VehiclePhaseOf(order'[r], r \in late')]
<1>1. \A q \in Orders \ {r} :
        VehiclePhaseOf(order'[q], q \in late') = VehiclePhaseOf(order[q], q \in late)
  BY VehicleQuietPhase
<1> QED
  BY <1>1, VehiclePhaseIs

\* A step asks, expires, claims, acts on or decides one request, or none.
Refined ==
  \/ (Vehicle!Phase' = Vehicle!Phase /\ VehiclePerformed' = VehiclePerformed)
  \/ \E r \in Orders : Vehicle!Contract!Step(r)

\* The end of an execution; success is of a call that was performed.
LEMMA VehicleVerdictRefines ==
  ASSUME VehicleInv, NEW r \in Orders, \A q \in Orders \ {r} : VehicleQuiet(q),
         UNCHANGED <<late, answer>>, order[r] = "executing", order'[r] \in Vehicle!Completions,
         order'[r] = "reconciled" => answer[<<r, "call">>] = "performed"
  PROVE  Refined
<1> DEFINE v == VehiclePhaseOf(order'[r], FALSE)
<1>1. VehiclePhaseOf(order'[r], r \in late') = v /\ v \in Vehicle!Contract!Verdicts
  BY DEF VehiclePhaseOf, Vehicle!Completions, Vehicle!Waiting, Vehicle!Contract!Verdicts
<1>2. Vehicle!Phase' = [Vehicle!Phase EXCEPT ![r] = v]
  BY <1>1, VehicleOneMoves DEF VehicleInv
<1>3. Vehicle!Phase[r] = "executing"
  BY VehiclePhaseIs DEF VehiclePhaseOf, Vehicle!Waiting
<1>4. v = "verified" => <<r, "call">> \in VehiclePerformed
  BY DEF VehiclePhaseOf, Vehicle!Completions, Vehicle!Waiting, VehiclePerformed, Vehicle!Steps
<1>5. VehiclePerformed' = VehiclePerformed
  BY DEF VehiclePerformed
<1>6. Vehicle!Contract!Finish(r, v)
  BY <1>2, <1>3, <1>4, <1>5 DEF Vehicle!Contract!Finish, VehiclePerformed, Vehicle!Steps
<1> QED
  BY <1>1, <1>6 DEF Refined, Vehicle!Contract!Step

LEMMA EndRefines ==
  ASSUME VehicleInv, NEW i \in Vehicle!Runners, runner[i] # Vehicle!Unused,
         NEW v \in Vehicle!Completions,
         Vehicle!Complete(i, v) \/ Vehicle!Abort(i),
         v = "reconciled" => answer[<<of[i], "call">>] = "performed",
         UNCHANGED <<kind, late, of, answer, claimer, stops>>
  PROVE  Refined
<1>1. PICK r \in Orders : r = of[i]
  BY DEF VehicleInv, Runner
<1>2. /\ report' = report
      /\ \/ order' = Vehicle!Swept
         \/ order[r] = "executing" /\ \E w \in {v, "failed"} :
                                        order' = [Vehicle!Swept EXCEPT ![r] = w]
  BY <1>1, Ending
<1>3. CASE order' = Vehicle!Swept
  BY <1>2, <1>3, VehicleAllQuiet DEF VehicleQuiet, VehicleInv, Refined
<1>4. ASSUME order[r] = "executing", NEW w \in {v, "failed"},
             order' = [Vehicle!Swept EXCEPT ![r] = w]
      PROVE  Refined
  <2>1. /\ order'[r] = w /\ w \in Vehicle!Completions
        /\ \A q \in Orders \ {r} : VehicleQuiet(q)
    BY <1>2, <1>4, VehicleSweeping DEF VehicleInv, Vehicle!Completions, VehicleQuiet
  <2> QED
    BY <1>1, <1>4, <2>1, VehicleVerdictRefines
<1> QED
  BY <1>2, <1>3, <1>4

\* A step on the way, at whose end the request still is.
LEMMA OnTheWay ==
  ASSUME UNCHANGED <<order, late>>, VehiclePerformed' = VehiclePerformed PROVE Refined
<1>1. Vehicle!Phase' = Vehicle!Phase
  BY VehiclePhaseIs
<1> QED
  BY <1>1 DEF Refined

LEMMA StepEndsRefines ==
  ASSUME VehicleInv, NEW i \in Vehicle!Runners, NEW s \in Vehicle!WorkflowSteps,
         runner[i] \in {Vehicle!Before(s), Vehicle!Calling(s)},
         NEW x \in {"accepted", "failed", "unsupported"}, Vehicle!StepEnds(i, s, x),
         UNCHANGED <<kind, late, of, answer, claimer, stops>>
  PROVE  Refined
<1>1. runner[i] \in OnRoad
  BY RoadHas
<1>2. PICK r \in Orders : r = of[i] /\ order[r] = "executing"
  BY <1>1, OnRoadIs
<1>3. CASE s # "route"
  BY <1>2, <1>3, OnTheWay DEF Vehicle!StepEnds, VehiclePerformed
<1>4. CASE s = "route"
  <2>1. PICK v \in {"unverified", "failed"} :
          /\ order' = [Vehicle!Swept EXCEPT ![r] = v] /\ report' = [report EXCEPT ![r][s] = x]
    BY <1>2, <1>4 DEF Vehicle!StepEnds
  <2>2. order'[r] = v /\ v \in Vehicle!Completions /\ v # "reconciled"
    BY <2>1, VehicleSweeping DEF VehicleInv, Vehicle!Completions
  <2>3. \A q \in Orders \ {r} : VehicleQuiet(q)
    BY <2>1, VehicleSweeping DEF VehicleInv, Vehicle!TypeOK, VehicleQuiet
  <2> QED
    BY <1>2, <2>2, <2>3, VehicleVerdictRefines
<1> QED
  BY <1>3, <1>4

LEMMA StartRefines ==
  ASSUME VehicleInv, NEW i \in Vehicle!Runners, Vehicle!Start(i) PROVE Refined
<1>1. /\ runner[i] = Vehicle!Scheduled /\ runner[i] # Vehicle!Unused
      /\ UNCHANGED <<kind, late, of, stops>>
  BY PlacesDiffer DEF Vehicle!Start
<1>2. PICK r \in Orders : r = of[i]
  BY <1>1 DEF VehicleInv, Runner
<1>3. CASE ~Vehicle!Claimable(r)
  <2>1. Vehicle!Abort(i) /\ UNCHANGED <<answer, claimer>>
    BY <1>2, <1>3 DEF Vehicle!Start
  <2>2. PICK v \in Vehicle!Completions : v # "reconciled"
    BY DEF Vehicle!Completions
  <2> QED
    BY <1>1, <2>1, <2>2, EndRefines
<1>4. CASE Vehicle!Claimable(r)
  <2>1. /\ order[r] \in Vehicle!Waiting /\ r \notin late
        /\ \A s \in Vehicle!Steps : answer[<<r, s>>] = Vehicle!None
    <3>1. order[r] \in Vehicle!Waiting /\ r \notin late
      <4>1. Vehicle!Swept[r] \in Vehicle!Waiting
        BY <1>4 DEF Vehicle!Claimable, Vehicle!Expected, Vehicle!Waiting
      <4> QED
        BY <4>1 DEF Vehicle!Swept, Vehicle!Waiting
    <3> QED
      BY <3>1 DEF VehicleInv, Row, Vehicle!Waiting, Vehicle!Completions
  <2>2. /\ order' = [Vehicle!Swept EXCEPT ![r] = "executing"] /\ UNCHANGED report
        /\ \/ answer' = [answer EXCEPT ![<<r, "call">>] = "inflight"]
           \/ answer' = answer
    BY <1>2, <1>4 DEF Vehicle!Start, Vehicle!Send
  <2>3. /\ order'[r] = "executing"
        /\ \A q \in Orders \ {r} : VehicleQuiet(q)
    BY <1>1, <2>2, VehicleSweeping, PlacesExist DEF VehicleInv, Vehicle!TypeOK, VehicleQuiet
  <2>4. Vehicle!Phase' = [Vehicle!Phase EXCEPT ![r] = "executing"]
    <3>1. VehiclePhaseOf("executing", r \in late') = "executing"
      BY DEF VehiclePhaseOf, Vehicle!Waiting
    <3> QED
      BY <2>3, <3>1, VehicleOneMoves DEF VehicleInv
  <2>5. Vehicle!Phase[r] = "waiting"
    BY <2>1, VehiclePhaseIs DEF VehiclePhaseOf
  <2>6. VehiclePerformed' = VehiclePerformed
    <3>1. <<r, "call">> \in Orders \X Vehicle!Steps /\ answer[<<r, "call">>] = Vehicle!None
      BY <2>1, PlacesExist
    <3>2. \A c \in Orders \X Vehicle!Steps : answer'[c] = "performed" <=> answer[c] = "performed"
      BY <2>2, <3>1 DEF VehicleInv, Vehicle!TypeOK, Vehicle!None
    <3> QED
      BY <3>2 DEF VehiclePerformed
  <2>7. Vehicle!Contract!Claim(r)
    BY <2>4, <2>5, <2>6 DEF Vehicle!Contract!Claim, VehiclePerformed
  <2> QED
    BY <2>7 DEF Refined, Vehicle!Contract!Step
<1> QED
  BY <1>3, <1>4

LEMMA RunnerRefines ==
  ASSUME VehicleInv, NEW i \in Vehicle!Runners, Vehicle!RunnerStep(i) PROVE Refined
<1>1. CASE Vehicle!WithoutDestination(i)
  <2>1. runner[i] # Vehicle!Unused
    BY <1>1, PlacesDiffer DEF Vehicle!WithoutDestination, AtRest
  <2> QED
    BY <1>1, <2>1, EndRefines DEF Vehicle!WithoutDestination, Vehicle!Completions
<1>2. CASE Vehicle!SingleAnswered(i)
  <2>1. runner[i] # Vehicle!Unused
    BY <1>2, PlacesDiffer DEF Vehicle!SingleAnswered, AtRest
  <2>2. CASE \E v \in {"failed", "unverified"} : Vehicle!Complete(i, v)
    BY <1>2, <2>1, <2>2, EndRefines DEF Vehicle!SingleAnswered, Vehicle!Completions
  <2>3. CASE UNCHANGED <<order, report, told>>
    BY <1>2, <2>3, OnTheWay DEF Vehicle!SingleAnswered, VehiclePerformed
  <2> QED
    BY <1>2, <2>2, <2>3 DEF Vehicle!SingleAnswered
<1>3. ASSUME NEW v \in Vehicle!Completions, Vehicle!Observed(i, v) PROVE Refined
  <2>1. runner[i] = Vehicle!Calling("observe") /\ runner[i] # Vehicle!Unused
    BY <1>3, PlacesDiffer DEF Vehicle!Observed, AtRest
  <2>2. answer[<<of[i], "call">>] = "performed"
    BY <2>1 DEF VehicleInv, Runner
  <2> QED
    BY <1>3, <2>1, <2>2, EndRefines DEF Vehicle!Observed
<1>4. CASE Vehicle!OverviewAnswered(i)
  <2>1. runner[i] # Vehicle!Unused
    BY <1>4, PlacesDiffer DEF Vehicle!OverviewAnswered, AtRest
  <2>2. CASE Vehicle!Abort(i)
    <3>1. PICK v \in Vehicle!Completions : v # "reconciled"
      BY DEF Vehicle!Completions
    <3> QED
      BY <1>4, <2>1, <2>2, <3>1, EndRefines DEF Vehicle!OverviewAnswered
  <2>3. CASE UNCHANGED <<order, told>>
    BY <1>4, <2>3, OnTheWay DEF Vehicle!OverviewAnswered, VehiclePerformed
  <2> QED
    BY <1>4, <2>2, <2>3 DEF Vehicle!OverviewAnswered
<1>5. CASE Vehicle!OnlineOrNot(i)
  BY <1>5, OnTheWay DEF Vehicle!OnlineOrNot, Vehicle!rows, VehiclePerformed
<1>6. ASSUME NEW s \in Vehicle!WorkflowSteps, Vehicle!TakeStep(i, s) PROVE Refined
  <2>1. /\ runner[i] = Vehicle!Before(s) /\ runner[i] \in OnRoad
        /\ UNCHANGED <<kind, late, of, claimer, stops>>
    BY <1>6, RoadHas DEF Vehicle!TakeStep
  <2>2. CASE Vehicle!StepEnds(i, s, "unsupported") /\ UNCHANGED answer
    BY <2>1, <2>2, StepEndsRefines
  <2>3. CASE UNCHANGED <<order, told, answer>>
    BY <2>1, <2>3, OnTheWay DEF VehiclePerformed
  <2>4. CASE Vehicle!Send(i, s) /\ UNCHANGED order
    <3>1. of[i] \in Orders /\ s \in Ahead(runner[i]) /\ Progress(of[i], runner[i])
      BY <2>1, OnRoadIs, RoadIs, PlacesExist
    <3>2. answer[<<of[i], s>>] = Vehicle!None
      BY <3>1 DEF Progress
    <3>3. VehiclePerformed' = VehiclePerformed
      BY <2>4, <3>1, <3>2 DEF Vehicle!Send, VehiclePerformed, VehicleInv, Vehicle!TypeOK,
         Vehicle!None
    <3> QED
      BY <2>1, <2>4, <3>3, OnTheWay
  <2> QED
    BY <1>6, <2>2, <2>3, <2>4 DEF Vehicle!TakeStep
<1>7. ASSUME NEW s \in Vehicle!WorkflowSteps, Vehicle!StepAnswered(i, s) PROVE Refined
  BY <1>7, StepEndsRefines DEF Vehicle!StepAnswered
<1> QED
  BY <1>1, <1>2, <1>3, <1>4, <1>5, <1>6, <1>7, StartRefines DEF Vehicle!RunnerStep

LEMMA OtherStepsRefine ==
  ASSUME Vehicle!BoundsAssumption, VehicleInv, NEW r \in Orders,
         \/ \E k \in OrderKinds : Vehicle!Request(r, k)
         \/ Vehicle!Confirm(r) \/ Vehicle!Lapse(r) \/ Vehicle!ReadRequests
         \/ \E s \in Vehicle!Steps : Vehicle!ProviderActs(r, s)
  PROVE  Refined
<1>1. ASSUME NEW k \in OrderKinds, Vehicle!Request(r, k) PROVE Refined
  <2>1. /\ order[r] = Vehicle!None /\ r \notin late /\ late' = late /\ answer' = answer
        /\ order' = [Vehicle!Swept EXCEPT ![r] = Vehicle!Created(k)]
        /\ kind' = [kind EXCEPT ![r] = k]
        /\ report' = report
    BY <1>1 DEF Vehicle!Request, VehicleInv, Row
  <2>2. order'[r] \in Vehicle!Waiting /\ \A q \in Orders \ {r} : VehicleQuiet(q)
    BY <2>1, VehicleSweeping DEF VehicleInv, Vehicle!TypeOK, Vehicle!Created, Vehicle!Waiting,
       VehicleQuiet
  <2>3. Vehicle!Phase' = [Vehicle!Phase EXCEPT ![r] = "waiting"]
    <3>1. VehiclePhaseOf(order'[r], r \in late') = "waiting"
      BY <2>1, <2>2 DEF VehiclePhaseOf
    <3> QED
      BY <2>2, <3>1, VehicleOneMoves DEF VehicleInv
  <2>4. Vehicle!Phase[r] = "none"
    BY <2>1, VehiclePhaseIs DEF VehiclePhaseOf, Vehicle!Waiting, Vehicle!None
  <2>5. Vehicle!Contract!Ask(r)
    BY <2>1, <2>3, <2>4 DEF Vehicle!Contract!Ask
  <2> QED
    BY <2>5 DEF Refined, Vehicle!Contract!Step
<1>2. CASE Vehicle!Confirm(r) \/ Vehicle!ReadRequests
  <2>1. \A q \in Orders : VehicleQuiet(q)
    BY <1>2 DEF Vehicle!Confirm, Vehicle!ReadRequests, VehicleQuiet
  <2> QED
    BY <2>1, VehicleAllQuiet DEF VehicleInv, Refined
<1>3. CASE Vehicle!Lapse(r)
  <2>1. /\ order[r] \in Vehicle!Waiting /\ r \notin late /\ late' = late \cup {r}
        /\ UNCHANGED <<order, kind, report, answer>>
    BY <1>3 DEF Vehicle!Lapse
  <2>2. \A q \in Orders \ {r} : VehicleQuiet(q)
    BY <2>1 DEF VehicleQuiet
  <2>3. Vehicle!Phase' = [Vehicle!Phase EXCEPT ![r] = "expired"]
    <3>1. VehiclePhaseOf(order'[r], r \in late') = "expired"
      BY <2>1 DEF VehiclePhaseOf
    <3> QED
      BY <2>2, <3>1, VehicleOneMoves DEF VehicleInv
  <2>4. Vehicle!Phase[r] = "waiting"
    BY <2>1, VehiclePhaseIs DEF VehiclePhaseOf
  <2>5. Vehicle!Contract!Expire(r)
    BY <2>1, <2>3, <2>4 DEF Vehicle!Contract!Expire
  <2> QED
    BY <2>5 DEF Refined, Vehicle!Contract!Step
<1>4. ASSUME NEW s \in Vehicle!Steps, Vehicle!ProviderActs(r, s) PROVE Refined
  <2>1. PICK x \in {"performed", "refused"} :
          /\ answer[<<r, s>>] = "inflight" /\ answer' = [answer EXCEPT ![<<r, s>>] = x]
          /\ UNCHANGED <<order, late>>
    BY <1>4 DEF Vehicle!ProviderActs, Vehicle!rows
  <2>2. CASE x = "refused"
    <3>1. VehiclePerformed' = VehiclePerformed
      BY <2>1, <2>2 DEF VehiclePerformed, VehicleInv, Vehicle!TypeOK
    <3> QED
      BY <2>1, <3>1, OnTheWay
  <2>3. CASE x = "performed"
    <3>1. Vehicle!Phase' = Vehicle!Phase
      BY <2>1, VehiclePhaseIs
    <3>2. order[r] \in {"executing"} \cup Vehicle!Completions
      BY <2>1 DEF VehicleInv, Row, Vehicle!None
    <3>3. Vehicle!Phase[r] \in {"executing"} \cup Vehicle!Contract!Verdicts
      BY <3>2, VehiclePhaseIs DEF VehiclePhaseOf, Vehicle!Completions, Vehicle!Waiting,
         Vehicle!Contract!Verdicts
    <3>4. /\ <<r, s>> \notin VehiclePerformed
          /\ VehiclePerformed' = VehiclePerformed \cup {<<r, s>>}
      BY <2>1, <2>3 DEF VehiclePerformed, VehicleInv, Vehicle!TypeOK
    <3>5. Vehicle!Contract!Act(r, s)
      BY <3>1, <3>3, <3>4 DEF Vehicle!Contract!Act, VehiclePerformed
    <3> QED
      BY <3>5 DEF Refined, Vehicle!Contract!Step
  <2> QED
    BY <2>2, <2>3
<1> QED
  BY <1>1, <1>2, <1>3, <1>4

LEMMA VehicleRefines == ASSUME Vehicle!BoundsAssumption, VehicleInv, Vehicle!Next PROVE Refined
<1>1. ASSUME NEW i \in Vehicle!Runners, Vehicle!RunnerStep(i) PROVE Refined
  BY <1>1, RunnerRefines
<1>2. ASSUME NEW r \in Orders,
             \/ \E k \in OrderKinds : Vehicle!Request(r, k)
             \/ Vehicle!Confirm(r) \/ Vehicle!Lapse(r)
             \/ \E s \in Vehicle!Steps : Vehicle!ProviderActs(r, s)
      PROVE  Refined
  BY <1>2, OtherStepsRefine
<1>3. CASE Vehicle!ReadRequests
  <2>1. \A q \in Orders : VehicleQuiet(q)
    BY <1>3 DEF Vehicle!ReadRequests, VehicleQuiet
  <2> QED
    BY <2>1, VehicleAllQuiet DEF VehicleInv, Refined
<1>4. CASE Vehicle!CoreCrashes
  BY <1>4, OnTheWay DEF Vehicle!CoreCrashes, Vehicle!rows, VehiclePerformed
<1> QED
  BY <1>1, <1>2, <1>3, <1>4 DEF Vehicle!Next

-----------------------------------------------------------------------------
(* Home and vehicle.                                                       *)

ActionsInv == IInv /\ VehicleInv

LEMMA VehicleAtRest == ASSUME VehicleInv, UNCHANGED vehicle PROVE VehicleInv'
BY VehicleRests DEF vehicle, Vehicle!vars, Vehicle!rows

\* A step is one of the home or of the vehicle, and the other rests.
LEMMA ActionsSteps ==
  ASSUME [ActionsNext]_<<component, vars, vehicle>>
  PROVE  [Next]_vars /\ (Vehicle!Next \/ UNCHANGED vehicle)
BY DEF ActionsNext, HomeMoves, VehicleMoves

LEMMA ActionsInvariant == ActionsSpec => []ActionsInv
<1>1. ActionsInit => ActionsInv
  BY GovernedConstants, Initially, VehicleStarts DEF ActionsInit, ActionsInv
<1>2. ActionsInv /\ [ActionsNext]_<<component, vars, vehicle>> => ActionsInv'
  <2> SUFFICES ASSUME ActionsInv, [ActionsNext]_<<component, vars, vehicle>> PROVE ActionsInv'
    OBVIOUS
  <2>1. IInv'
    BY ActionsSteps, GovernedConstants, Kept DEF ActionsInv
  <2>2. VehicleInv'
    BY ActionsSteps, GovernedConstants, VehicleSteps, VehicleAtRest DEF ActionsInv
  <2> QED
    BY <2>1, <2>2 DEF ActionsInv
<1> QED
  BY <1>1, <1>2, PTL DEF ActionsSpec

\* Both tables keep the types of their variables.
THEOREM ActionsTypes == ActionsSpec => []TypesOK
<1>1. ActionsInv => TypesOK
  BY DEF ActionsInv, IInv, VehicleInv, TypesOK
<1> QED
  BY <1>1, ActionsInvariant, PTL

\* However many runners a request was scheduled, wherever they wait, and whatever its other
\* steps have come to, the route alone decides the verdict of a destination workflow that got
\* under way (vehicle.py _destination_workflow).
THEOREM RouteAlwaysDecides == ActionsSpec => []RouteDecides
<1>1. ActionsInv => RouteDecides
  BY VehicleSafe DEF ActionsInv, RouteDecides
<1> QED
  BY <1>1, ActionsInvariant, PTL

\* Vehicle actions implement the contract: confirmed twice, late or by several runners, a
\* request is claimed at most once and not after its lifetime, and verified only if its call
\* was performed (vehicle.py, api.py schedule_vehicle_action, storage.py claim).
THEOREM VehicleImplementsContract == ActionsSpec => VehicleContract
<1>1. ActionsInit => Vehicle!Contract!Init
  <2> SUFFICES ASSUME Vehicle!Init PROVE Vehicle!Contract!Init
    BY DEF ActionsInit
  <2>1. /\ \A r \in Orders : order[r] = "none"
        /\ \A c \in Orders \X Vehicle!Steps : answer[c] # "performed"
    BY DEF Vehicle!Init, Vehicle!None
  <2>2. Vehicle!Phase = [r \in Orders |-> "none"]
    BY <2>1, VehiclePhaseIs DEF VehiclePhaseOf, Vehicle!Waiting
  <2> QED
    BY <2>1, <2>2 DEF Vehicle!Contract!Init
<1>2. ActionsInv /\ [ActionsNext]_<<component, vars, vehicle>>
        => [Vehicle!Contract!Next]_(Vehicle!Contract!vars)
  <2> SUFFICES ASSUME ActionsInv, [ActionsNext]_<<component, vars, vehicle>>
               PROVE  [Vehicle!Contract!Next]_(Vehicle!Contract!vars)
    OBVIOUS
  <2>1. CASE Vehicle!Next
    <3>1. Refined
      BY <2>1, GovernedConstants, VehicleRefines DEF ActionsInv
    <3> QED
      BY <3>1 DEF Refined, VehiclePerformed, Vehicle!Contract!Next, Vehicle!Contract!vars
  <2>2. CASE UNCHANGED vehicle
    BY <2>2, VehiclePhaseIs DEF vehicle, Vehicle!Contract!vars
  <2> QED
    BY <2>1, <2>2, ActionsSteps
<1> QED
  BY <1>1, <1>2, ActionsInvariant, PTL
     DEF ActionsSpec, VehicleContract, Vehicle!ContractSpec, Vehicle!Contract!Spec
=============================================================================
