-------------------------------- MODULE HomeLab --------------------------------
(***************************************************************************)
(* Home lab monitoring and the guarded migration of a workload.  Clients      *)
(* share one cached snapshot, renewed under a lock while the providers are     *)
(* awaited; a migration is checked against a forced snapshot, kept for a       *)
(* limited time and submitted when the same device confirms it.               *)
(***************************************************************************)
EXTENDS Naturals

CONSTANTS
  Readers,       \* requests that may be under way at once
  Clients,       \* devices with homelab-control
  Migrations,    \* ids of prepared migrations
  Providers,     \* configured upstreams, of "proxmox" and "truenas"
  CacheTime,     \* homelab_cache_seconds, in ticks
  ConfirmTime,   \* the 120 seconds of a confirmation, in ticks
  MaxTime,       \* ticks
  MaxShifts      \* changes of the world

None == "none"

BoundsAssumption ==
  /\ {CacheTime, ConfirmTime, MaxTime, MaxShifts} \subseteq Nat
  /\ None \notin Clients

VARIABLES
  world,       \* target online, workload at its source, workload locked
  reachable,   \* upstreams that answer
  cached,      \* _cached with _cached_monotonic, and when its data was read
  asking,      \* reader -> what it wants and how far it is
  planned,     \* _migrations: by whom and until when, or gone
  submitted,   \* history: submissions to Proxmox by migration id
  clock, shifts

vars == <<world, reachable, cached, asking, planned, submitted, clock, shifts>>

Worlds == [online: BOOLEAN, here: BOOLEAN, locked: BOOLEAN]
Snapshots == [status: {None, "healthy", "degraded", "unavailable", "stale"}, stamp: 0..MaxTime,
              read: 0..MaxTime, failed: SUBSET Providers, online: BOOLEAN, here: BOOLEAN]
Empty == [status |-> None, stamp |-> 0, read |-> 0, failed |-> {}, online |-> FALSE,
          here |-> FALSE]
Resting == [phase |-> "idle", forced |-> FALSE, client |-> None, now |-> 0, seen |-> Empty,
            previous |-> Empty]
Asks == [phase: {"idle", "waiting", "polling", "read", "detail"}, forced: BOOLEAN,
             client: Clients \cup {None}, now: 0..MaxTime, seen: Snapshots, previous: Snapshots]
NotPlanned == [client |-> None, expires |-> 0]

TypeOK ==
  /\ world \in Worlds /\ reachable \subseteq Providers
  /\ cached \in Snapshots
  /\ asking \in [Readers -> Asks]
  /\ planned \in [Migrations -> [client: Clients \cup {None}, expires: Nat]]
  /\ submitted \in [Migrations -> Nat]
  /\ clock \in 0..MaxTime /\ shifts \in 0..MaxShifts

Init ==
  /\ world = [online |-> TRUE, here |-> TRUE, locked |-> FALSE] /\ reachable = Providers
  /\ cached = Empty /\ asking = [r \in Readers |-> Resting]
  /\ planned = [m \in Migrations |-> NotPlanned]
  /\ submitted = [m \in Migrations |-> 0] /\ clock = 0 /\ shifts = 0

service == <<cached, asking, planned, submitted>>

-----------------------------------------------------------------------------
(* The surroundings                                                        *)

Tick ==
  /\ clock < MaxTime /\ clock' = clock + 1
  /\ UNCHANGED <<world, reachable, shifts, service>>

\* A node fails or returns, the workload is moved or locked by somebody else, an
\* upstream can or cannot be reached.
Shift ==
  /\ shifts < MaxShifts /\ shifts' = shifts + 1
  /\ \/ \E f \in DOMAIN world : world' = [world EXCEPT ![f] = ~@] /\ UNCHANGED reachable
     \/ \E p \in SUBSET Providers : reachable' = p /\ UNCHANGED world
  /\ UNCHANGED <<clock, service>>

\* update_agent: what an agent reports makes the cache void.
AgentReports ==
  /\ cached' = Empty
  /\ UNCHANGED <<world, reachable, asking, planned, submitted, clock, shifts>>

-----------------------------------------------------------------------------
(* HomeLabService.snapshot                                                 *)

Fresh(now) == cached.status # None /\ now - cached.stamp < CacheTime

\* A reader shows its snapshot, or goes on with its migration.
Deliver(r, snapshot) ==
  asking' = [asking EXCEPT ![r] =
    IF @.client = None THEN Resting
    ELSE [@ EXCEPT !.phase = "detail", !.now = 0, !.previous = Empty,
                   !.seen = [Empty EXCEPT !.online = snapshot.online, !.here = snapshot.here]]]

\* A client looks at the dashboard, or begins a migration, for which the
\* snapshot is forced.
Ask(r) ==
  /\ asking[r].phase = "idle"
  /\ \E forced \in BOOLEAN, c \in Clients \cup {None} :
       /\ c # None => forced
       /\ IF ~forced /\ Fresh(clock)
          THEN Deliver(r, cached)
          ELSE asking' = [asking EXCEPT ![r] = [Resting EXCEPT !.phase = "waiting",
                                                 !.forced = forced, !.client = c]]
  /\ UNCHANGED <<world, reachable, cached, planned, submitted, clock, shifts>>

Locked == \E r \in Readers : asking[r].phase \in {"polling", "read"}

\* With the lock, the cache is looked at again; the time and what it held are
\* noted before the upstreams are asked.
Enter(r) ==
  /\ asking[r].phase = "waiting" /\ ~Locked
  /\ IF ~asking[r].forced /\ Fresh(clock)
     THEN Deliver(r, cached)
     ELSE asking' = [asking EXCEPT ![r].phase = "polling", ![r].now = clock,
                                   ![r].previous = cached]
  /\ UNCHANGED <<world, reachable, cached, planned, submitted, clock, shifts>>

\* Upstreams that are not reached, refuse the token or answer something unusable.
Unanswered == Providers \ reachable
ProxmoxAnswers == "proxmox" \in reachable

\* Both upstreams have answered or failed; without Proxmox there are no nodes
\* and no workloads.
UpstreamsAnswer(r) ==
  /\ asking[r].phase = "polling"
  /\ LET up == ProxmoxAnswers IN
     asking' = [asking EXCEPT ![r] = [@ EXCEPT !.phase = "read",
                  !.seen = [Empty EXCEPT !.failed = Unanswered, !.read = clock,
                                         !.online = up /\ world.online, !.here = up /\ world.here]]]
  /\ UNCHANGED <<world, reachable, cached, planned, submitted, clock, shifts>>

\* _compose, without agents.
Status(snapshot) ==
  IF Providers = {} THEN "unavailable"
  ELSE IF snapshot.failed # {} \/ ("proxmox" \in Providers /\ ~snapshot.online) THEN "degraded"
  ELSE "healthy"

\* Mutant: the snapshot is as old as the end of the poll.
StampedLate(r) == clock

\* _cached_monotonic
Stamped(r) == asking[r].now

\* The end of snapshot(): what was cached stays, marked, where nothing is available.
Renew(r) ==
  /\ asking[r].phase = "read"
  /\ LET seen == asking[r].seen
         status == Status(seen)
         previous == asking[r].previous
         kept == status = "unavailable" /\ previous.status # None
         base == IF kept THEN [previous EXCEPT !.status = "stale"] ELSE [seen EXCEPT !.status = status]
         new == [base EXCEPT !.stamp = Stamped(r), !.failed = seen.failed]
     IN cached' = new /\ Deliver(r, new)
  /\ UNCHANGED <<world, reachable, planned, submitted, clock, shifts>>

-----------------------------------------------------------------------------
(* Migration                                                               *)

\* prepare_migration after its snapshot: source and target are eligible in it;
\* the workload's lock and storage are read now.  A new id is kept.
Prepare(r, m) ==
  /\ asking[r].phase = "detail" /\ asking' = [asking EXCEPT ![r] = Resting]
  /\ IF /\ asking[r].seen.online /\ asking[r].seen.here
        /\ ProxmoxAnswers /\ ~world.locked
     THEN /\ planned[m] = NotPlanned /\ submitted[m] = 0
          /\ planned' = [planned EXCEPT ![m] = [client |-> asking[r].client,
                                                expires |-> clock + ConfirmTime]]
     ELSE UNCHANGED planned
  /\ UNCHANGED <<world, reachable, cached, submitted, clock, shifts>>

\* Mutant: a migration stays confirmable until it expires.
LeaveThere(m) == planned

\* confirm_migration takes the request out before it looks at it.
TakeOut(m) == [planned EXCEPT ![m] = NotPlanned]

Confirmable(m, c) == planned[m].client = c /\ planned[m].expires >= clock

\* Proxmox takes it on, or does not, or its answer is lost; the cache is void
\* only after an answer.
Submit(m) ==
  /\ submitted[m] < 2 /\ submitted' = [submitted EXCEPT ![m] = @ + 1]
  /\ \E w \in {world, [world EXCEPT !.here = FALSE]}, answered \in BOOLEAN :
       /\ world' = w /\ cached' = (IF answered THEN Empty ELSE cached)

\* Whoever may not confirm it has taken it out all the same.
Confirm(m, c) ==
  /\ planned[m] # NotPlanned /\ planned' = TakeOut(m)
  /\ IF Confirmable(m, c)
     THEN Submit(m)
     ELSE UNCHANGED <<world, cached, submitted>>
  /\ UNCHANGED <<reachable, asking, clock, shifts>>

\* Core restarts: nothing of all this is stored.
Restart ==
  /\ cached' = Empty /\ asking' = [r \in Readers |-> Resting]
  /\ planned' = [m \in Migrations |-> NotPlanned]
  /\ UNCHANGED <<world, reachable, submitted, clock, shifts>>

-----------------------------------------------------------------------------
Next ==
  \/ Tick \/ Shift \/ AgentReports \/ Restart
  \/ \E r \in Readers : Ask(r) \/ Enter(r) \/ UpstreamsAnswer(r) \/ Renew(r)
  \/ \E r \in Readers, m \in Migrations : Prepare(r, m)
  \/ \E m \in Migrations, c \in Clients : Confirm(m, c)
Spec == Init /\ [][Next]_vars

-----------------------------------------------------------------------------
\* However long a poll takes and however many requests wait for it, nobody is
\* given data out of the cache that was read longer ago than the cache time.
ServedIsRecent == Fresh(clock) => clock - cached.read < CacheTime

\* One preparation is submitted to Proxmox at most once, however often it is
\* confirmed and whatever becomes of the submission.
MigratesOnce == \A m \in Migrations : submitted[m] <= 1

\* docs/HOMELAB_MONITORING.md: Core "returns a clearly marked stale snapshot if
\* every configured upstream becomes unavailable" (after one that was available).
OutageIsMarkedStale ==
  [][\A r \in Readers : asking[r].phase = "read" /\ Providers # {}
       /\ asking[r].previous.status # None /\ asking[r].previous.failed = {}
       /\ asking[r].seen.failed = Providers /\ asking'[r].phase # "read"
       => cached'.status \in {None, "stale"}]_vars
=============================================================================
