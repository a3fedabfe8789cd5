----------------------------- MODULE HomeCatalogue -----------------------------
(***************************************************************************)
(* The catalogue of Home Assistant's entities.  A synchronization reads the *)
(* states and, concurrently, the registries; what the registries say of an  *)
(* entity (hidden, its area or the area of its device) is kept when they    *)
(* cannot be read.  Administrators override how an entity is presented, and *)
(* the presentation decides whether an action may address it.              *)
(***************************************************************************)
EXTENDS Naturals, FiniteSets

CONSTANTS
  Entities,      \* entity identifiers
  Named,         \* those whose name holds the name of exactly one room
  Hint, Other,   \* two rooms, which are areas too; names only ever suggest Hint
  NoArea,        \* no area, no room
  MaxChanges,    \* changes made in Home Assistant and of presentations
  MaxCrashes     \* restarts of Core

\* Two rooms, and none.
BoundsAssumption ==
  /\ Hint # Other /\ NoArea \notin {Hint, Other}
  /\ {MaxChanges, MaxCrashes} \subseteq Nat

Areas == {Hint, Other}
Policies == {"automatic", "include", "exclude"}
Reads == {"states", "registry"}

VARIABLES
  ha,         \* Home Assistant: what it would answer of each entity, and whether it answers
  catalogue,  \* home_entities
  override,   \* home_entity_presentations
  sync,       \* the synchronization under way: its two reads, and whose it is
  loop,       \* HomeIntelligence.run: due, syncing or waiting
  latest,     \* the status of the newest row of home_catalog_syncs
  aged,       \* the catalogue is older than stale_after_seconds
  said,       \* history: the last the registries said of a catalogued entity
  changes, restarts

vars == <<ha, catalogue, override, sync, loop, latest, aged, said, changes, restarts>>

NoSync == [by |-> "nobody", read |-> {}, failed |-> {}, states |-> {},
           registry |-> [entities |-> FALSE, devices |-> FALSE, of |-> <<>>]]
Unknown == [known |-> FALSE, missing |-> FALSE, hidden |-> FALSE, area |-> NoArea,
            source |-> "unassigned"]
Silent == [read |-> FALSE, hidden |-> FALSE, area |-> NoArea]
Registration == [hidden: BOOLEAN, area: Areas \cup {NoArea}, inherited: BOOLEAN]
Sections == [entities: BOOLEAN, devices: BOOLEAN, of: [Entities -> Registration]]

TypeOK ==
  /\ ha \in [up: BOOLEAN, present: SUBSET Entities, of: [Entities -> Registration]]
  /\ catalogue \in [Entities -> [known: BOOLEAN, missing: BOOLEAN, hidden: BOOLEAN,
                                 area: Areas \cup {NoArea},
                                 source: {"registry", "inferred", "unassigned"}]]
  /\ override \in [Entities -> [policy: Policies, room: Areas \cup {NoArea}]]
  /\ sync \in [by: {"nobody", "loop", "admin"}, read: SUBSET Reads, failed: SUBSET Reads,
               states: SUBSET Entities, registry: Sections \cup {NoSync.registry}]
  /\ sync.failed \subseteq sync.read
  /\ "registry" \in sync.read \ sync.failed => sync.registry \in Sections
  /\ loop \in {"due", "syncing", "waiting"}
  /\ latest \in {"never", "running", "failed", "succeeded"}
  /\ aged \in BOOLEAN
  /\ said \in [Entities -> [read: BOOLEAN, hidden: BOOLEAN, area: Areas \cup {NoArea}]]
  /\ changes \in 0..MaxChanges /\ restarts \in 0..MaxCrashes
  /\ latest = "running" => sync.by # "nobody" \/ restarts > 0
  /\ \A e \in Entities : catalogue[e].area = NoArea <=> catalogue[e].source = "unassigned"

Init ==
  /\ ha = [up |-> TRUE, present |-> Entities,
           of |-> [e \in Entities |-> [hidden |-> FALSE, area |-> Other, inherited |-> TRUE]]]
  /\ catalogue = [e \in Entities |-> Unknown]
  /\ override = [e \in Entities |-> [policy |-> "automatic", room |-> NoArea]]
  /\ sync = NoSync /\ loop = "due" /\ latest = "never" /\ aged = TRUE
  /\ said = [e \in Entities |-> Silent]
  /\ changes = 0 /\ restarts = 0

-----------------------------------------------------------------------------
(* Home Assistant                                                          *)

Changed == changes < MaxChanges /\ changes' = changes + 1
HomeAssistant ==
  UNCHANGED <<catalogue, override, sync, loop, latest, aged, said, restarts>>

ComesOrGoes(e) ==
  /\ Changed /\ HomeAssistant
  /\ ha' = [ha EXCEPT !.present = IF e \in @ THEN @ \ {e} ELSE @ \cup {e}]

IsEdited(e) ==
  /\ Changed /\ HomeAssistant
  /\ \E r \in Registration : ha' = [ha EXCEPT !.of[e] = r]

GoesDownOrUp == Changed /\ HomeAssistant /\ ha' = [ha EXCEPT !.up = ~@]

-----------------------------------------------------------------------------
(* A synchronization                                                       *)

BeginSync(by) ==
  /\ sync.by = "nobody"
  /\ sync' = [NoSync EXCEPT !.by = by]
  /\ latest' = "running"
  /\ UNCHANGED <<ha, catalogue, override, aged, said, changes, restarts>>

\* The loop's turn; with a synchronization of an administrator under way it
\* only waits for the next interval.
LoopTurn ==
  /\ loop = "due"
  /\ \/ BeginSync("loop") /\ loop' = "syncing"
     \/ /\ sync.by # "nobody" /\ loop' = "waiting"
        /\ UNCHANGED <<ha, catalogue, override, sync, latest, aged, said, changes, restarts>>

AdminSync == BeginSync("admin") /\ UNCHANGED loop

IntervalPasses ==
  /\ loop = "waiting" /\ loop' = "due"
  /\ UNCHANGED <<ha, catalogue, override, sync, latest, aged, said, changes, restarts>>

Reading(what) ==
  /\ sync.by # "nobody" /\ what \notin sync.read
  /\ UNCHANGED <<ha, catalogue, override, loop, latest, aged, said, changes, restarts>>

\* The snapshot of the states; an answer that is too large or not a list is no
\* answer.
ReadStates ==
  /\ Reading("states")
  /\ sync' = IF ha.up THEN [sync EXCEPT !.read = @ \cup {"states"}, !.states = ha.present]
             ELSE [sync EXCEPT !.read = @ \cup {"states"}, !.failed = @ \cup {"states"}]

\* The four registries over one WebSocket.  A command that Home Assistant does
\* not support leaves its section empty; a lost connection all of them.
ReadRegistry ==
  /\ Reading("registry")
  /\ \/ /\ ha.up
        /\ \E es, ds \in BOOLEAN :
             sync' = [sync EXCEPT !.read = @ \cup {"registry"},
                                  !.registry = [entities |-> es, devices |-> ds, of |-> ha.of]]
     \/ sync' = [sync EXCEPT !.read = @ \cup {"registry"}, !.failed = @ \cup {"registry"}]

Readable(registry) == "registry" \notin sync.failed /\ registry.entities

\* What a section read says of an entity: its own area, else its device's.
RegisteredArea(registry, e) ==
  IF registry.of[e].inherited /\ ~registry.devices THEN NoArea ELSE registry.of[e].area

\* _area_mapping: the registry's area, else the one room the name holds.
AreaMapping(e, registered) ==
  IF registered # NoArea THEN [area |-> registered, source |-> "registry"]
  ELSE IF e \in Named THEN [area |-> Hint, source |-> "inferred"]
  ELSE [area |-> NoArea, source |-> "unassigned"]

\* Mutant: the source is kept, the area is not.
AreaGuessedAnew(row, fresh) ==
  IF row.area # NoArea THEN [fresh EXCEPT !.source = row.source] ELSE fresh

\* preserve_entity_metadata: an area the row has stays, with its source.
AreaPreserved(row, fresh) ==
  IF row.area # NoArea THEN [area |-> row.area, source |-> row.source] ELSE fresh

\* The row of an entity in the snapshot.  The marks of the registry are among
\* the attributes, which are always replaced.
Upserted(e, registry) ==
  LET read == Readable(registry)
      fresh == AreaMapping(e, IF read THEN RegisteredArea(registry, e) ELSE NoArea)
      place == IF read \/ ~catalogue[e].known THEN fresh
               ELSE AreaPreserved(catalogue[e], fresh)
  IN [known |-> TRUE, missing |-> FALSE, hidden |-> read /\ registry.of[e].hidden,
      area |-> place.area, source |-> place.source]

\* replace_home_catalog: all rows in one transaction.
Replace ==
  /\ catalogue' = [e \in Entities |->
                     IF e \in sync.states THEN Upserted(e, sync.registry)
                     ELSE [catalogue[e] EXCEPT !.missing = catalogue[e].known]]
  /\ said' = [e \in Entities |->
                IF e \in sync.states /\ Readable(sync.registry)
                THEN [read |-> TRUE, hidden |-> sync.registry.of[e].hidden,
                      area |-> RegisteredArea(sync.registry, e)]
                ELSE said[e]]
  /\ aged' = FALSE /\ latest' = "succeeded"

FailSync == latest' = "failed" /\ UNCHANGED <<catalogue, said, aged>>

\* Mutant: an error of Home Assistant ends the loop.
LoopStopsOnError ==
  loop' = IF sync.by = "admin" THEN loop
          ELSE IF "states" \in sync.failed THEN "syncing" ELSE "waiting"

\* The loop takes note of the error and waits like after a success.
LoopGoesOn == loop' = IF sync.by = "admin" THEN loop ELSE "waiting"

\* Both reads have ended: only without states there is nothing to replace by.
EndSync ==
  /\ sync.by # "nobody" /\ sync.read = Reads
  /\ IF "states" \in sync.failed THEN FailSync ELSE Replace
  /\ sync' = NoSync
  /\ LoopGoesOn
  /\ UNCHANGED <<ha, override, changes, restarts>>

Ages ==
  /\ ~aged /\ aged' = TRUE
  /\ UNCHANGED <<ha, catalogue, override, sync, loop, latest, said, changes, restarts>>

\* Core stops in a synchronization or beside it; its row is left as it is.
Restart ==
  /\ restarts < MaxCrashes /\ restarts' = restarts + 1
  /\ sync' = NoSync /\ loop' = "due"
  /\ UNCHANGED <<ha, catalogue, override, latest, aged, said, changes>>

\* home_catalog_sync_status
SyncStatus == [status |-> latest, stale |-> aged]

-----------------------------------------------------------------------------
(* The presentation                                                        *)

\* update_home_entity_presentation: fields that are not given stay as they are.
Merged(e, change) == [f \in DOMAIN override[e] |-> IF f \in DOMAIN change THEN change[f]
                                                  ELSE override[e][f]]

\* An administrator's change of some fields of the override.
UpdatePresentation(e) ==
  /\ catalogue[e].known /\ Changed
  /\ \E change \in [policy: Policies] \cup [room: Areas \cup {NoArea}]
                   \cup [policy: Policies, room: Areas \cup {NoArea}] :
       override' = [override EXCEPT ![e] = Merged(e, change)]
  /\ UNCHANGED <<ha, catalogue, sync, loop, latest, aged, said, restarts>>

\* _automatic_relevance of a user-facing entity.
AutomaticallyIncluded(e) == ~catalogue[e].hidden

Included(e) ==
  \/ override[e].policy = "include"
  \/ override[e].policy = "automatic" /\ AutomaticallyIncluded(e)

Room(e) == IF override[e].room # NoArea THEN override[e].room ELSE catalogue[e].area
Trust(e) == IF override[e].room # NoArea THEN "explicit" ELSE catalogue[e].source
Authoritative(e) == Trust(e) \in {"registry", "explicit"}

\* What home_actions demands of a target.
Addressable(e) ==
  /\ catalogue[e].known /\ ~catalogue[e].missing
  /\ Included(e) /\ Authoritative(e)

-----------------------------------------------------------------------------
Next ==
  \/ \E e \in Entities : ComesOrGoes(e) \/ IsEdited(e) \/ UpdatePresentation(e)
  \/ GoesDownOrUp
  \/ LoopTurn \/ AdminSync \/ IntervalPasses
  \/ ReadStates \/ ReadRegistry \/ EndSync
  \/ Ages \/ Restart

Spec == Init /\ [][Next]_vars
FairSpec == Spec /\ WF_vars(LoopTurn) /\ WF_vars(IntervalPasses)
                 /\ WF_vars(ReadStates) /\ WF_vars(ReadRegistry) /\ WF_vars(EndSync)

-----------------------------------------------------------------------------
\* An action that reaches an entity without an explicit room finds it in the
\* area the registries gave when they were last read for it: a room that was
\* only guessed from a name never gains authority, and a fallback to the states
\* alone neither moves nor promotes an entity.
RoomIsRegistered ==
  \A e \in Entities :
    Addressable(e) /\ override[e].room = NoArea => said[e].read /\ Room(e) = said[e].area

\* HOME_INTELLIGENCE.md: without the registries the metadata of the last read
\* is preserved, so that an entity they hid stays out of automatic projections.
HiddenStaysHidden ==
  \A e \in Entities :
    catalogue[e].known /\ said[e].hidden /\ override[e].policy = "automatic" => ~Included(e)

\* If Home Assistant answers from some time on, the catalogue is fresh again
\* and again, whatever failed or was interrupted before.
CatalogueRecovers == <>[](ha.up) => []<>(~SyncStatus.stale)
=============================================================================
