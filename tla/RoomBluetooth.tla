----------------------------- MODULE RoomBluetooth -----------------------------
(***************************************************************************)
(* The Bluetooth bridge of a room: every few seconds it lists PipeWire's     *)
(* sources and modules and loads or unloads one loopback per connected      *)
(* phone.  It keeps the module numbers in memory; PipeWire gives the same   *)
(* numbers again after a restart.                                           *)
(***************************************************************************)
EXTENDS Naturals, FiniteSets

CONSTANTS
  Phones,      \* Bluetooth sources that may be connected
  MaxModules,  \* module numbers PipeWire gives
  MaxEvents    \* phones that come and go, faults and the operator's modules

Operator == "operator"
Numbers == 1..MaxModules
NoModule == 0

VARIABLES
  connected,  \* the phones PipeWire has a source of
  modules,    \* number -> whose loopback it is: a phone's, the operator's or nobody's
  loopbacks,  \* BluetoothBridge.loopbacks: phone -> number
  pass,       \* reconcile_once: where it stands, and the sources it listed
  renumbered, \* history: PipeWire was restarted
  unsure,     \* history: a listing failed or a load was given up
  orphaned,   \* history: a phone left while no agent remembered its module, or
              \* its module could not be unloaded
  taken,      \* history: a module of the operator was unloaded
  events

vars == <<connected, modules, loopbacks, pass, renumbered, unsure, orphaned, taken,
          events>>

Nobody == "nobody"
BoundsAssumption ==
  {MaxModules, MaxEvents} \subseteq Nat /\ Phones \cap {Operator, Nobody} = {}

Idle == [at |-> "idle", sources |-> {}]

TypeOK ==
  /\ connected \subseteq Phones
  /\ modules \in [Numbers -> Phones \cup {Operator, Nobody}]
  /\ loopbacks \in [Phones -> Numbers \cup {NoModule}]
  /\ pass \in [at: {"idle", "listed", "loading", "unloading"}, sources: SUBSET Phones]
  /\ renumbered \in BOOLEAN /\ unsure \in BOOLEAN /\ orphaned \in BOOLEAN /\ taken \in BOOLEAN
  /\ events \in 0..MaxEvents

Init ==
  /\ connected = {} /\ modules = [n \in Numbers |-> Nobody]
  /\ loopbacks = [p \in Phones |-> NoModule] /\ pass = Idle
  /\ renumbered = FALSE /\ unsure = FALSE /\ orphaned = FALSE /\ taken = FALSE /\ events = 0

\* PipeWire's modules

FreeNumber(n) == modules[n] = Nobody /\ \A m \in Numbers : modules[m] = Nobody => n <= m

\* Mutant: a loopback passes for the phone's without the mark PilotBluetooth.
OwnUnmarked(p) == {n \in Numbers : modules[n] \in {p, Operator}}

\* The loopbacks of p with the mark.  (Sources are named bluez_input, as
\* docs/BLUETOOTH.md has it: those that the code accepts by their properties alone
\* would not be recognised here.)
Own(p) == {n \in Numbers : modules[n] = p}

-----------------------------------------------------------------------------
(* The world                                                               *)

Event == events < MaxEvents /\ events' = events + 1

ConnectsOrLeaves(p) ==
  /\ Event
  /\ connected' = IF p \in connected THEN connected \ {p} ELSE connected \cup {p}
  /\ orphaned' = (orphaned \/ (p \in connected /\ loopbacks[p] = NoModule /\ Own(p) # {}))
  /\ UNCHANGED <<modules, loopbacks, pass, renumbered, unsure, taken>>

\* (Enough of the bounded numbers are left to the phones.)
OperatorLoads ==
  /\ Event /\ Cardinality({n \in Numbers : modules[n] = Nobody}) > Cardinality(Phones)
  /\ \E n \in Numbers : FreeNumber(n) /\ modules' = [modules EXCEPT ![n] = Operator]
  /\ UNCHANGED <<connected, loopbacks, pass, renumbered, unsure, orphaned, taken>>

PipeWireRestarts ==
  /\ Event
  /\ modules' = [n \in Numbers |-> Nobody] /\ renumbered' = TRUE
  /\ UNCHANGED <<connected, loopbacks, pass, unsure, orphaned, taken>>

\* Killed, the agent forgets its loopbacks and leaves them to the next one.
AgentDies ==
  /\ Event
  /\ loopbacks' = [p \in Phones |-> NoModule] /\ pass' = Idle
  /\ orphaned' = (orphaned \/ \E p \in Phones \ connected : Own(p) # {})
  /\ UNCHANGED <<connected, modules, renumbered, unsure, taken>>

\* pactl unload-module, whose answer nobody looks at: it may leave some there.
Unload(ns, stuck) ==
  /\ modules' = [n \in Numbers |-> IF n \in ns \ stuck THEN Nobody ELSE modules[n]]
  /\ taken' = (taken \/ \E n \in ns \ stuck : modules[n] = Operator)
  /\ orphaned' = (orphaned \/ \E n \in stuck : modules[n] \in Phones \ connected)

Remembered(phones) == {loopbacks[p] : p \in phones} \ {NoModule}

\* Stopped, it unloads them.  (The loop has ended, or is given up after 5 s.)
AgentStops ==
  /\ Event
  /\ \E stuck \in SUBSET Remembered(Phones) : Unload(Remembered(Phones), stuck)
  /\ loopbacks' = [p \in Phones |-> NoModule] /\ pass' = Idle
  /\ UNCHANGED <<connected, renumbered, unsure>>

-----------------------------------------------------------------------------
(* reconcile_once                                                          *)

\* A pass that has nothing to do is left out.
Settled == \A p \in Phones : loopbacks[p] = NoModule <=> p \notin connected

ListSources ==
  /\ pass.at = "idle" /\ ~(Settled /\ \A p \in connected : Own(p) \in {{}, {loopbacks[p]}})
  /\ pass' = [at |-> "listed", sources |-> connected]
  /\ UNCHANGED <<connected, modules, loopbacks, renumbered, unsure, orphaned, taken, events>>

\* What the list of modules says of the phones replaces what is remembered; of
\* several loopbacks of one phone the last counts.
Adopted(p) ==
  IF p \in pass.sources /\ Own(p) # {}
  THEN CHOOSE n \in Own(p) : \A m \in Own(p) : m <= n
  ELSE loopbacks[p]

ListModules ==
  /\ pass.at = "listed"
  /\ \/ loopbacks' = [p \in Phones |-> Adopted(p)] /\ UNCHANGED <<unsure, events>>
     \/ Event /\ unsure' = TRUE /\ UNCHANGED loopbacks
  /\ pass' = [pass EXCEPT !.at = "loading"]
  /\ UNCHANGED <<connected, modules, renumbered, orphaned, taken>>

\* Mutant: a phone that is connected gets a loopback in every pass.
WantedAlways(p) == p \in pass.sources

Wanted(p) == p \in pass.sources /\ loopbacks[p] = NoModule

\* pactl load-module: it names the new module, or fails; given up after 5 s, it
\* ends the pass with the module loaded all the same.
Load(p) ==
  /\ pass.at = "loading" /\ Wanted(p)
  /\ \/ \E n \in Numbers :
          /\ FreeNumber(n) /\ modules' = [modules EXCEPT ![n] = p]
          /\ \/ loopbacks' = [loopbacks EXCEPT ![p] = n] /\ UNCHANGED <<pass, unsure, events>>
             \/ Event /\ pass' = Idle /\ unsure' = TRUE /\ UNCHANGED loopbacks
     \/ Event /\ pass' = [pass EXCEPT !.sources = @ \ {p}]
        /\ UNCHANGED <<modules, loopbacks, unsure>>
  /\ UNCHANGED <<connected, renumbered, orphaned, taken>>

EndLoading ==
  /\ pass.at = "loading" /\ ~\E p \in Phones : Wanted(p)
  /\ pass' = [pass EXCEPT !.at = "unloading"]
  /\ UNCHANGED <<connected, modules, loopbacks, renumbered, unsure, orphaned, taken, events>>

\* The loopbacks of phones that were not listed are unloaded, and forgotten
\* whatever pactl answers.
UnloadVanished ==
  /\ pass.at = "unloading"
  /\ LET gone == Remembered(Phones \ pass.sources) IN
       \/ Unload(gone, {}) /\ UNCHANGED events
       \/ Event /\ \E stuck \in SUBSET gone : Unload(gone, stuck)
  /\ loopbacks' = [p \in Phones |-> IF p \in pass.sources THEN loopbacks[p] ELSE NoModule]
  /\ pass' = Idle
  /\ UNCHANGED <<connected, renumbered, unsure>>

-----------------------------------------------------------------------------
PassStep ==
  ListSources \/ ListModules \/ (\E p \in Phones : Load(p)) \/ EndLoading \/ UnloadVanished
Next ==
  \/ \E p \in Phones : ConnectsOrLeaves(p) \/ Load(p)
  \/ OperatorLoads \/ PipeWireRestarts \/ AgentDies \/ AgentStops
  \/ ListSources \/ ListModules \/ EndLoading \/ UnloadVanished

Spec == Init /\ [][Next]_vars
FairSpec == Spec /\ WF_vars(PassStep)

-----------------------------------------------------------------------------
\* In the end every connected phone is heard over exactly one loopback and no
\* other phone has one, whatever came, went or crashed in between, since an agent
\* that starts adopts the loopbacks of the phones it sees.  The exceptions:
\* PipeWire was restarted (a remembered number then stands for a module that is
\* gone, and the phone stays silent); a listing failed or a load was given up
\* (a second loopback of the phone is then nobody's); a phone left while no
\* agent remembered its loopback, or its loopback could not be unloaded.
HeardOnce ==
  <>[](\/ renumbered \/ unsure \/ orphaned
       \/ \A p \in Phones : Cardinality(Own(p)) = IF p \in connected THEN 1 ELSE 0)

\* No phone is ever heard over two loopbacks at a time, although each agent forgets
\* its numbers when it is killed and a phone can come back at any point of a pass:
\* what the module list shows of a phone is adopted before anything is loaded for
\* it (reconcile_once).  A listing that fails, or a load that is given up, is the
\* exception: the next load is then a second one.
HeardOnlyOnce == unsure \/ \A p \in Phones : \A m, n \in Own(p) : m = n

\* BLUETOOTH.md: "Unrelated operator-created loopbacks are never adopted or
\* removed."  Numbers that are remembered across passes and agents name the phones'
\* own modules, until PipeWire is restarted and gives them again.
OperatorsModulesStay == taken => renumbered
=============================================================================
