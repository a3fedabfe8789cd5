--------------------------- MODULE CommandContract ---------------------------
(***************************************************************************)
(* What the command transport promises, without connections, replays or    *)
(* journals: a command's outcome is decided once, at the endpoint, by one   *)
(* of its executions; Core reports that outcome and no other, and nothing  *)
(* for a command whose lifetime has passed first.                          *)
(***************************************************************************)
EXTENDS Naturals

CONSTANTS MaxCmd

Cmds == 1..MaxCmd
Outcomes == {"succeeded", "failed"}

VARIABLES
  report,    \* command -> what Core tells its clients
  decided,   \* command -> its outcome at the endpoint, "none" while open
  late       \* commands whose lifetime has passed

vars == <<report, decided, late>>

Init ==
  /\ report = [c \in Cmds |-> "none"]
  /\ decided = [c \in Cmds |-> "none"]
  /\ late = {}

\* Core notices that lifetimes have passed, whatever else it does.
Expiring == [c \in Cmds |->
               IF report[c] = "pending" /\ c \in late THEN "expired" ELSE report[c]]

Accept(c) ==
  /\ report[c] = "none"
  /\ report' = [Expiring EXCEPT ![c] = "pending"]
  /\ UNCHANGED <<decided, late>>

Expire ==
  /\ report' = Expiring
  /\ UNCHANGED <<decided, late>>

LifetimePasses(c) ==
  /\ report[c] = "pending"
  /\ late' = late \cup {c}
  /\ UNCHANGED <<report, decided>>

Decide(c, r) ==
  /\ report[c] # "none" /\ decided[c] = "none"
  /\ decided' = [decided EXCEPT ![c] = r]
  /\ UNCHANGED <<report, late>>

Report(c) ==
  /\ report[c] = "pending" /\ c \notin late
  /\ decided[c] # "none"
  /\ report' = [Expiring EXCEPT ![c] = decided[c]]
  /\ UNCHANGED <<decided, late>>

Next ==
  \/ Expire
  \/ \E c \in Cmds : \/ Accept(c) \/ LifetimePasses(c) \/ Report(c)
                     \/ \E r \in Outcomes : Decide(c, r)

Spec == Init /\ [][Next]_vars
=============================================================================
