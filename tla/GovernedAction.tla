--------------------------- MODULE GovernedAction ---------------------------
(***************************************************************************)
(* What Pilot Core promises of every action it takes in the physical world *)
(* on somebody's request, at home or in the vehicle: the request waits     *)
(* until it is claimed or its lifetime has passed, a claim is final, each   *)
(* step reaches the provider at most once and never without a claim, and   *)
(* success is never reported of something that was not done.               *)
(***************************************************************************)
CONSTANTS
  Requests,   \* identifiers of action requests
  Steps       \* the provider calls one action may consist of

Verdicts == {"verified", "unverified", "failed"}

VARIABLES
  phase,      \* request -> where it stands
  acted       \* the steps that have reached the provider: <<request, step>>

vars == <<phase, acted>>

Init ==
  /\ phase = [r \in Requests |-> "none"]
  /\ acted = {}

Ask(r) ==
  /\ phase[r] = "none"
  /\ phase' = [phase EXCEPT ![r] = "waiting"]
  /\ UNCHANGED acted

Expire(r) ==
  /\ phase[r] = "waiting"
  /\ phase' = [phase EXCEPT ![r] = "expired"]
  /\ UNCHANGED acted

Claim(r) ==
  /\ phase[r] = "waiting"
  /\ phase' = [phase EXCEPT ![r] = "executing"]
  /\ UNCHANGED acted

\* A call may still take effect after its verdict: an answer can come too late.
Act(r, s) ==
  /\ phase[r] \in {"executing"} \cup Verdicts
  /\ <<r, s>> \notin acted
  /\ acted' = acted \cup {<<r, s>>}
  /\ UNCHANGED phase

Finish(r, v) ==
  /\ phase[r] = "executing"
  /\ v = "verified" => \E s \in Steps : <<r, s>> \in acted
  /\ phase' = [phase EXCEPT ![r] = v]
  /\ UNCHANGED acted

Step(r) ==
  \/ Ask(r) \/ Expire(r) \/ Claim(r)
  \/ \E s \in Steps : Act(r, s)
  \/ \E v \in Verdicts : Finish(r, v)

Next == vars' # vars /\ \E r \in Requests : Step(r)

Spec == Init /\ [][Next]_vars
=============================================================================
