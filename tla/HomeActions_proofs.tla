--------------------------- MODULE HomeActions_proofs ---------------------------
(***************************************************************************)
(* Proofs about HomeActions, for every number of requests, clients, entities *)
(* and crashes.  SubjectsAssumption says what the constants stand for.       *)
(***************************************************************************)
EXTENDS HomeActions, TLAPS

-----------------------------------------------------------------------------
(* The rows and their audit.                                               *)

LEMMA Setting ==
  ASSUME NEW S, NEW T, NEW f \in [S -> T], NEW x \in S, NEW y \in T
  PROVE  /\ [f EXCEPT ![x] = y] \in [S -> T] /\ [f EXCEPT ![x] = y][x] = y
         /\ \A z \in S \ {x} : [f EXCEPT ![x] = y][z] = f[z]
  OBVIOUS

\* What appending does to a sequence.
LEMMA Appending ==
  ASSUME NEW S, NEW s \in Seq(S), NEW e \in S
  PROVE  /\ Append(s, e) \in Seq(S)
         /\ Append(s, e)[Len(Append(s, e))] = e
         /\ \A i \in DOMAIN s : i \in DOMAIN Append(s, e) /\ Append(s, e)[i] = s[i]
  OBVIOUS

\* The sweep turns waiting rows into expired ones and touches no other.
LEMMA Sweeping ==
  ASSUME TypeOK
  PROVE  /\ Swept \in [Requests -> Statuses]
         /\ SweptAudit \in [Requests -> Seq(AuditTypes)]
         /\ \A r \in Requests :
              \/ /\ Swept[r] = status[r] /\ SweptAudit[r] = audit[r]
                 /\ status[r] \in Waiting => r \notin lapsed
              \/ /\ status[r] \in Waiting /\ r \in lapsed
                 /\ Swept[r] = "expired" /\ SweptAudit[r] = Append(audit[r], "expired")
<1>1. Swept \in [Requests -> Statuses]
  BY DEF TypeOK, Swept, Statuses
<1>2. SweptAudit \in [Requests -> Seq(AuditTypes)]
  <2>1. "expired" \in AuditTypes
    BY DEF AuditTypes
  <2>2. \A r \in Requests : Append(audit[r], "expired") \in Seq(AuditTypes)
    BY <2>1, Appending DEF TypeOK
  <2> QED
    BY <2>2 DEF TypeOK, SweptAudit
<1>3. ASSUME NEW r \in Requests
      PROVE  \/ /\ Swept[r] = status[r] /\ SweptAudit[r] = audit[r]
                /\ status[r] \in Waiting => r \notin lapsed
             \/ /\ status[r] \in Waiting /\ r \in lapsed
                /\ Swept[r] = "expired" /\ SweptAudit[r] = Append(audit[r], "expired")
  BY <1>3 DEF Swept, SweptAudit, Due
<1> QED
  BY <1>1, <1>2, <1>3

\* A row that is moved; the others are swept.
LEMMA Moving ==
  ASSUME TypeOK, NEW r \in Requests, NEW s \in Statuses, NEW e \in AuditTypes, MoveTo(r, s, e)
  PROVE  /\ status' \in [Requests -> Statuses] /\ audit' \in [Requests -> Seq(AuditTypes)]
         /\ status'[r] = s /\ audit'[r] = Append(SweptAudit[r], e)
         /\ \A q \in Requests \ {r} : status'[q] = Swept[q] /\ audit'[q] = SweptAudit[q]
<1>1. Swept \in [Requests -> Statuses] /\ SweptAudit \in [Requests -> Seq(AuditTypes)]
  BY Sweeping
<1>2. Append(SweptAudit[r], e) \in Seq(AuditTypes)
  BY <1>1, Appending
<1> HIDE DEF Swept, SweptAudit
<1> QED
  BY <1>1, <1>2 DEF MoveTo

-----------------------------------------------------------------------------
(* The invariant.                                                          *)

\* Where a request's task stands, what its row says and what became of its
\* call, seen together.
Consistent(r) ==
  /\ status[r] # None => subject[r] \in Subjects
  /\ r \in lapsed => status[r] # None
  /\ task[r] # "none" => status[r] # None
  /\ task[r] = "prepared" => /\ holder = r /\ status[r] = "approved" /\ r \notin lapsed
                             /\ subject[r].entity \notin HighRisk
  /\ task[r] \in {"calling", "reading"} => status[r] = "executing"
  /\ task[r] \in {"calling", "reading"} => reads[r] < MaxReads
  /\ task[r] = "reading" => call[r] = "performed"
  /\ call[r] # "none" => status[r] \in {"executing"} \cup Completions
  /\ status[r] = "pending_confirmation" => subject[r].entity \in HighRisk

Tasks == \A r \in Requests : Consistent(r)

IInv == TypeOK /\ Tasks

LEMMA Initially == SubjectsAssumption /\ Init => IInv
<1> SUFFICES ASSUME SubjectsAssumption, Init PROVE IInv
  OBVIOUS
<1>1. TypeOK
  <2>1. status \in [Requests -> Statuses]
    BY DEF Init, Statuses
  <2>2. audit \in [Requests -> Seq(AuditTypes)]
    BY DEF Init
  <2>3. listed \in [Entities -> Listings]
    BY DEF Init, Listings
  <2>4. task \in [Requests -> TaskStates] /\ reads \in [Requests -> 0..MaxReads]
    BY DEF Init, TaskStates, SubjectsAssumption
  <2>5. crashes \in 0..MaxCrashes
    BY DEF Init, SubjectsAssumption
  <2> QED
    BY <2>1, <2>2, <2>3, <2>4, <2>5 DEF Init, TypeOK
<1>2. Tasks
  BY DEF Init, Tasks, Consistent, None
<1> QED
  BY <1>1, <1>2 DEF IInv

\* A request that only the sweep touches stays consistent.
LEMMA OthersStay ==
  ASSUME IInv, NEW q \in Requests, status'[q] = Swept[q], UNCHANGED lapsed,
         subject'[q] = subject[q], task'[q] = task[q], reads'[q] = reads[q],
         call'[q] = call[q], task[q] = "prepared" => holder' = q
  PROVE  Consistent(q)'
<1>1. Consistent(q)
  BY DEF IInv, Tasks
<1>2. \/ Swept[q] = status[q]
      \/ status[q] \in Waiting /\ q \in lapsed /\ Swept[q] = "expired"
  BY Sweeping DEF IInv
<1>3. CASE Swept[q] = status[q]
  BY <1>1, <1>3 DEF Consistent
<1>4. CASE status[q] \in Waiting /\ q \in lapsed /\ Swept[q] = "expired"
  BY <1>1, <1>4 DEF Consistent, Waiting, Completions, None
<1> QED
  BY <1>2, <1>3, <1>4

\* What completing a request makes of its row and its task.
LEMMA Completing ==
  ASSUME IInv, NEW r \in Requests, NEW v \in Completions, Complete(r, v) \/ (CompleteFailed(r) /\ v = "failed"),
         task[r] \in {"calling", "reading"}, holder = NoRequest,
         SubjectsAssumption, UNCHANGED <<subject, lapsed, call>>,
         reads' \in [Requests -> 0..MaxReads], \A q \in Requests \ {r} : reads'[q] = reads[q]
  PROVE  /\ status' \in [Requests -> Statuses] /\ audit' \in [Requests -> Seq(AuditTypes)]
         /\ task' \in [Requests -> TaskStates] /\ holder' \in Requests \cup {NoRequest}
         /\ status'[r] = v /\ audit'[r] = Append(audit[r], v)
         /\ \A q \in Requests \ {r} : status'[q] = Swept[q] /\ audit'[q] = SweptAudit[q]
         /\ Tasks'
<1>1. MoveTo(r, v, v) /\ v \in Statuses /\ v \in AuditTypes
  BY DEF Complete, CompleteFailed, Statuses, AuditTypes
<1>2. /\ status' \in [Requests -> Statuses] /\ audit' \in [Requests -> Seq(AuditTypes)]
      /\ status'[r] = v /\ audit'[r] = Append(SweptAudit[r], v)
      /\ \A q \in Requests \ {r} : status'[q] = Swept[q] /\ audit'[q] = SweptAudit[q]
  BY <1>1, Moving DEF IInv
<1>3. Consistent(r) /\ status[r] = "executing"
  BY DEF IInv, Tasks, Consistent
<1>4. SweptAudit[r] = audit[r]
  BY <1>3, Sweeping DEF IInv, Waiting
<1>5. /\ task' \in [Requests -> TaskStates] /\ holder' \in Requests \cup {NoRequest}
      /\ task'[r] \in {"announcing", "none"}
      /\ \A q \in Requests \ {r} : task'[q] = task[q]
  BY DEF Complete, CompleteFailed, IInv, TypeOK, TaskStates
<1>6. Consistent(r)'
  BY <1>2, <1>3, <1>5 DEF Consistent, Completions, None
<1>7. ASSUME NEW q \in Requests \ {r} PROVE Consistent(q)'
  <2>1. task[q] # "prepared"
    BY DEF IInv, Tasks, Consistent, SubjectsAssumption
  <2> QED
    BY <1>2, <1>5, <2>1, OthersStay
<1> QED
  BY <1>2, <1>4, <1>5, <1>6, <1>7 DEF Tasks

\* What a claim makes of them.
LEMMA Claiming ==
  ASSUME IInv, SubjectsAssumption, NEW r \in Requests, NEW e \in {"approved", "confirmed"},
         Claim(r, e), Swept[r] \in Waiting,
         \A q \in Requests \ {r} : task[q] # "prepared",
         UNCHANGED <<subject, lapsed>>
  PROVE  /\ status' \in [Requests -> Statuses] /\ audit' \in [Requests -> Seq(AuditTypes)]
         /\ task' \in [Requests -> TaskStates] /\ holder' \in Requests \cup {NoRequest}
         /\ before' \in [Requests -> States \cup {None}] /\ reads' \in [Requests -> 0..MaxReads]
         /\ call' \in [Requests -> {"none", "inflight", "performed", "refused"}]
         /\ call[r] = "none"
         /\ status'[r] = "executing" /\ audit'[r] = Append(audit[r], e)
         /\ \A q \in Requests \ {r} : status'[q] = Swept[q] /\ audit'[q] = SweptAudit[q]
         /\ Tasks'
<1>1. MoveTo(r, "executing", e) /\ "executing" \in Statuses /\ e \in AuditTypes
  BY DEF Claim, Statuses, AuditTypes
<1>2. /\ status' \in [Requests -> Statuses] /\ audit' \in [Requests -> Seq(AuditTypes)]
      /\ status'[r] = "executing" /\ audit'[r] = Append(SweptAudit[r], e)
      /\ \A q \in Requests \ {r} : status'[q] = Swept[q] /\ audit'[q] = SweptAudit[q]
  BY <1>1, Moving DEF IInv
<1>3. Consistent(r)
  BY DEF IInv, Tasks
<1>4. Swept[r] = status[r] /\ SweptAudit[r] = audit[r] /\ status[r] \in Waiting
  BY Sweeping DEF IInv, Waiting
<1>5. subject[r] \in Subjects /\ subject[r].entity \in Entities /\ call[r] = "none"
  BY <1>3, <1>4 DEF Consistent, Waiting, Completions, None, SubjectsAssumption, IInv, TypeOK
<1>6. /\ task' \in [Requests -> TaskStates] /\ holder' \in Requests \cup {NoRequest}
      /\ task'[r] = "calling"
      /\ \A q \in Requests \ {r} : task'[q] = task[q] /\ reads'[q] = reads[q] /\ call'[q] = call[q]
  BY DEF Claim, IInv, TypeOK, TaskStates
<1>7. /\ before' \in [Requests -> States \cup {None}] /\ reads' \in [Requests -> 0..MaxReads]
      /\ reads'[r] < MaxReads
      /\ call' \in [Requests -> {"none", "inflight", "performed", "refused"}]
  BY <1>5 DEF Claim, IInv, TypeOK, SubjectsAssumption
<1>8. Consistent(r)'
  BY <1>2, <1>3, <1>4, <1>5, <1>6, <1>7 DEF Consistent, Waiting, Completions, None
<1>9. ASSUME NEW q \in Requests \ {r} PROVE Consistent(q)'
  BY <1>2, <1>6, OthersStay
<1> QED
  BY <1>2, <1>4, <1>5, <1>6, <1>7, <1>8, <1>9 DEF Tasks

-----------------------------------------------------------------------------
(* What a step does to one request.                                        *)

Same(r) == subject'[r] = subject[r] /\ (call'[r] = "none" <=> call[r] = "none")

Unmoved(r) == Same(r) /\ status'[r] = status[r] /\ audit'[r] = audit[r]

Expired(r) ==
  /\ Same(r) /\ status[r] \in Waiting /\ r \in lapsed
  /\ status'[r] = "expired" /\ audit'[r] = Append(audit[r], "expired")

Asked(r) ==
  /\ status[r] = None /\ call'[r] = "none"
  /\ \/ status'[r] = "pending_confirmation" /\ audit'[r] = <<"requested", "confirmation_required">>
     \/ status'[r] = "approved" /\ audit'[r] = <<"requested">>

Claimed(r) ==
  /\ status[r] \in Waiting /\ r \notin lapsed /\ status'[r] = "executing"
  /\ subject'[r] = subject[r] /\ call[r] = "none" /\ call'[r] = "inflight"
  /\ audit'[r] = Append(audit[r], IF subject[r].entity \in HighRisk THEN "confirmed" ELSE "approved")

Completed(r) ==
  /\ Same(r) /\ status[r] = "executing"
  /\ \E v \in Completions : status'[r] = v /\ audit'[r] = Append(audit[r], v)

Moves(r) == Unmoved(r) \/ Expired(r) \/ Asked(r) \/ Claimed(r) \/ Completed(r)

\* A request that only the sweep touches has expired, or has not moved.
LEMMA SweptMoves ==
  ASSUME IInv, NEW q \in Requests, status'[q] = Swept[q], audit'[q] = SweptAudit[q], Same(q)
  PROVE  Unmoved(q) \/ Expired(q)
  BY Sweeping DEF IInv, Unmoved, Expired

LEMMA Preparing ==
  ASSUME SubjectsAssumption, IInv, NEW r \in Requests, NEW s \in Subjects, Prepare(r, s)
  PROVE  IInv' /\ \A q \in Requests : Moves(q)
<1> USE DEF IInv, TypeOK
<1>1. /\ Swept \in [Requests -> Statuses] /\ SweptAudit \in [Requests -> Seq(AuditTypes)]
  BY Sweeping
<1>2. Consistent(r) /\ status[r] = None
  BY DEF Prepare, Tasks
<1>3. call[r] = "none" /\ task[r] = "none" /\ r \notin lapsed
  BY <1>2 DEF Consistent, Completions, None
<1>4. /\ <<"requested">> \in Seq(AuditTypes)
      /\ <<"requested", "confirmation_required">> \in Seq(AuditTypes)
  BY DEF AuditTypes
<1>5. /\ status' \in [Requests -> Statuses] /\ audit' \in [Requests -> Seq(AuditTypes)]
      /\ \A q \in Requests \ {r} : status'[q] = Swept[q] /\ audit'[q] = SweptAudit[q]
      /\ \/ /\ s.entity \in HighRisk /\ status'[r] = "pending_confirmation"
            /\ audit'[r] = <<"requested", "confirmation_required">>
         \/ /\ s.entity \notin HighRisk /\ status'[r] = "approved" /\ audit'[r] = <<"requested">>
  <2>1. PICK v \in {"pending_confirmation", "approved"},
             l \in {<<"requested", "confirmation_required">>, <<"requested">>} :
          /\ status' = [Swept EXCEPT ![r] = v] /\ audit' = [SweptAudit EXCEPT ![r] = l]
          /\ \/ /\ s.entity \in HighRisk /\ v = "pending_confirmation"
                /\ l = <<"requested", "confirmation_required">>
             \/ /\ s.entity \notin HighRisk /\ v = "approved" /\ l = <<"requested">>
    BY Zenon DEF Prepare, NeedsConfirmation
  <2>2. v \in Statuses /\ l \in Seq(AuditTypes)
    BY <1>4, <2>1 DEF Statuses, Waiting
  <2> QED
    BY <1>1, <2>1, <2>2, Setting
<1>6. /\ subject' \in [Requests -> Subjects \cup {NoSubject}] /\ subject'[r] = s
      /\ \A q \in Requests \ {r} : subject'[q] = subject[q]
  BY DEF Prepare
<1>7. /\ task' \in [Requests -> TaskStates] /\ holder' \in Requests \cup {NoRequest}
      /\ \A q \in Requests \ {r} : task'[q] = task[q]
      /\ \/ task'[r] \in {"none", "announcing"}
         \/ task'[r] = "prepared" /\ holder' = r /\ s.entity \notin HighRisk
  <2>1. task \in [Requests -> TaskStates] /\ holder \in Requests \cup {NoRequest} /\ task[r] = "none"
    BY <1>3
  <2>2. \/ UNCHANGED <<task, holder>>
        \/ task' = [task EXCEPT ![r] = "announcing"] /\ holder' = r
        \/ task' = [task EXCEPT ![r] = "prepared"] /\ holder' = r /\ s.entity \notin HighRisk
    BY Zenon DEF Prepare, NeedsConfirmation
  <2> HIDE DEF IInv, TypeOK
  <2>3. {"announcing", "prepared"} \subseteq TaskStates
    BY DEF TaskStates
  <2>4. CASE UNCHANGED <<task, holder>>
    BY <2>1, <2>4
  <2>5. CASE task' = [task EXCEPT ![r] = "announcing"] /\ holder' = r
    BY <2>1, <2>3, <2>5
  <2>6. CASE task' = [task EXCEPT ![r] = "prepared"] /\ holder' = r /\ s.entity \notin HighRisk
    BY <2>1, <2>3, <2>6
  <2> QED
    BY <2>2, <2>4, <2>5, <2>6
<1>8. UNCHANGED <<lapsed, reads, call>>
  BY DEF Prepare, house
<1>9. TypeOK'
  BY <1>5, <1>6, <1>7 DEF Prepare, catalogue, house
<1>10. Consistent(r)'
  BY <1>2, <1>3, <1>5, <1>6, <1>7, <1>8 DEF Consistent, None
<1>11. ASSUME NEW q \in Requests \ {r} PROVE Consistent(q)' /\ Moves(q)
  <2>1. task[q] # "prepared"
    BY DEF Prepare, Tasks, Consistent, SubjectsAssumption
  <2>2. Consistent(q)'
    BY <1>5, <1>6, <1>7, <1>8, <2>1, OthersStay
  <2>3. Unmoved(q) \/ Expired(q)
    BY <1>5, <1>6, <1>8, SweptMoves DEF Same
  <2> QED
    BY <2>2, <2>3 DEF Moves
<1>12. Moves(r)
  BY <1>2, <1>3, <1>5, <1>8 DEF Moves, Asked
<1> QED
  BY <1>9, <1>10, <1>11, <1>12 DEF Tasks

\* A claim, by a confirmation of what needs one and by execute of what does not.
LEMMA ClaimMoves ==
  ASSUME SubjectsAssumption, IInv, NEW r \in Requests, NEW e \in {"approved", "confirmed"},
         Claim(r, e), Swept[r] \in Waiting,
         \A q \in Requests \ {r} : task[q] # "prepared",
         e = IF subject[r].entity \in HighRisk THEN "confirmed" ELSE "approved",
         UNCHANGED <<subject, lapsed, announced, catalogue, actual, goal, observed, crashes>>
  PROVE  IInv' /\ \A q \in Requests : Moves(q)
<1>1. /\ status' \in [Requests -> Statuses] /\ audit' \in [Requests -> Seq(AuditTypes)]
      /\ task' \in [Requests -> TaskStates] /\ holder' \in Requests \cup {NoRequest}
      /\ before' \in [Requests -> States \cup {None}] /\ reads' \in [Requests -> 0..MaxReads]
      /\ call' \in [Requests -> {"none", "inflight", "performed", "refused"}]
      /\ call[r] = "none"
      /\ status'[r] = "executing" /\ audit'[r] = Append(audit[r], e)
      /\ \A q \in Requests \ {r} : status'[q] = Swept[q] /\ audit'[q] = SweptAudit[q]
      /\ Tasks'
  BY Claiming
<1>2. TypeOK'
  BY <1>1 DEF IInv, TypeOK, catalogue
<1>3. Swept[r] = status[r] /\ status[r] \in Waiting /\ r \notin lapsed
  BY Sweeping DEF IInv, Waiting
<1>4. call'[r] = "inflight" /\ \A q \in Requests \ {r} : call'[q] = call[q]
  BY DEF Claim, IInv, TypeOK
<1>5. Claimed(r)
  BY <1>1, <1>3, <1>4 DEF Claimed
<1>6. ASSUME NEW q \in Requests \ {r} PROVE Unmoved(q) \/ Expired(q)
  BY <1>1, <1>4, SweptMoves DEF Same
<1> QED
  BY <1>1, <1>2, <1>5, <1>6 DEF IInv, Moves

\* The end of a call or of its reconciliation.
LEMMA CompletionMoves ==
  ASSUME SubjectsAssumption, IInv, NEW r \in Requests, NEW v \in Completions,
         Complete(r, v) \/ (CompleteFailed(r) /\ v = "failed"),
         task[r] \in {"calling", "reading"}, holder = NoRequest,
         reads' \in [Requests -> 0..MaxReads], \A q \in Requests \ {r} : reads'[q] = reads[q],
         observed' \in [Requests -> States \cup {None}],
         UNCHANGED <<subject, lapsed, announced, catalogue, before, house, crashes>>
  PROVE  IInv' /\ \A q \in Requests : Moves(q)
<1>1. UNCHANGED <<subject, lapsed, call>>
  BY DEF house
<1>2. /\ status' \in [Requests -> Statuses] /\ audit' \in [Requests -> Seq(AuditTypes)]
      /\ task' \in [Requests -> TaskStates] /\ holder' \in Requests \cup {NoRequest}
      /\ status'[r] = v /\ audit'[r] = Append(audit[r], v)
      /\ \A q \in Requests \ {r} : status'[q] = Swept[q] /\ audit'[q] = SweptAudit[q]
      /\ Tasks'
  BY <1>1, Completing
<1>3. TypeOK'
  BY <1>2 DEF IInv, TypeOK, catalogue, house
<1>4. status[r] = "executing"
  BY DEF IInv, Tasks, Consistent
<1>5. Completed(r)
  BY <1>1, <1>2, <1>4 DEF Completed, Same
<1>6. ASSUME NEW q \in Requests \ {r} PROVE Unmoved(q) \/ Expired(q)
  BY <1>1, <1>2, SweptMoves DEF Same
<1> QED
  BY <1>2, <1>3, <1>5, <1>6 DEF IInv, Moves

\* Steps that read the table, and no more.
LEMMA SweepMoves ==
  ASSUME IInv, SubjectsAssumption, Sweep, holder = NoRequest,
         UNCHANGED <<subject, lapsed, announced, catalogue, memory, house, observed, crashes>>
  PROVE  IInv' /\ \A q \in Requests : Moves(q)
<1>1. Swept \in [Requests -> Statuses] /\ SweptAudit \in [Requests -> Seq(AuditTypes)]
  BY Sweeping DEF IInv
<1>2. TypeOK'
  <2> HIDE DEF Swept, SweptAudit
  <2> QED
    BY <1>1 DEF Sweep, IInv, TypeOK, catalogue, memory, house
<1>3. ASSUME NEW q \in Requests PROVE Consistent(q)' /\ Moves(q)
  <2>1. /\ status'[q] = Swept[q] /\ audit'[q] = SweptAudit[q] /\ task[q] # "prepared"
        /\ UNCHANGED <<subject, lapsed, task, reads, call>>
    BY DEF Sweep, memory, house, IInv, Tasks, Consistent, SubjectsAssumption
  <2>2. Consistent(q)'
    BY <2>1, OthersStay
  <2> QED
    BY <2>1, <2>2, SweptMoves DEF Moves, Same
<1> QED
  BY <1>2, <1>3 DEF IInv, Tasks

\* Steps that leave every row as it is.
LEMMA RowsStay ==
  ASSUME IInv, TypeOK', UNCHANGED <<status, subject, audit>>,
         \A q \in Requests : Consistent(q)' /\ (call'[q] = "none" <=> call[q] = "none")
  PROVE  IInv' /\ \A q \in Requests : Moves(q)
  BY DEF IInv, Tasks, Moves, Unmoved, Same

LEMMA Kept ==
  SubjectsAssumption /\ IInv /\ [Next]_vars => IInv' /\ \A q \in Requests : Moves(q)
<1> SUFFICES ASSUME SubjectsAssumption, IInv, [Next]_vars
             PROVE  IInv' /\ \A q \in Requests : Moves(q)
  OBVIOUS
<1> DEFINE Goal == IInv' /\ \A q \in Requests : Moves(q)
<1>a. TypeOK /\ \A q \in Requests : Consistent(q)
  BY DEF IInv, Tasks
<1>b. holder = NoRequest => \A q \in Requests : task[q] # "prepared"
  BY <1>a DEF Consistent, SubjectsAssumption
<1>1. ASSUME NEW r \in Requests, NEW s \in Subjects, Prepare(r, s) PROVE Goal
  BY <1>1, Preparing
<1>2. ASSUME NEW r \in Requests, ExecutePrepared(r) PROVE Goal
  <2>1. /\ Claim(r, "approved") /\ subject[r].entity \notin HighRisk
        /\ status[r] = "approved" /\ r \notin lapsed
    BY <1>a, <1>2 DEF ExecutePrepared, Consistent
  <2>2. Swept[r] \in Waiting
    BY <1>a, <2>1, Sweeping DEF Waiting
  <2>3. \A q \in Requests \ {r} : task[q] # "prepared"
    BY <1>a, <1>2 DEF ExecutePrepared, Consistent
  <2> QED
    BY <1>2, <2>1, <2>2, <2>3, ClaimMoves DEF ExecutePrepared
<1>3. ASSUME NEW r \in Requests, NEW d \in Devices, Confirm(r, d) PROVE Goal
  <2>1. CASE Claim(r, "confirmed") /\ Claimable(r, d, "pending_confirmation")
    <3>1. Swept[r] = "pending_confirmation" /\ subject[r].entity \in HighRisk
      BY <1>a, <2>1, Sweeping DEF Claimable, Consistent
    <3>2. Swept[r] \in Waiting
      BY <3>1 DEF Waiting
    <3> QED
      BY <1>b, <1>3, <2>1, <3>1, <3>2, ClaimMoves DEF Confirm
  <2>2. CASE Sweep /\ UNCHANGED <<memory, call>>
    <3>1. UNCHANGED <<subject, lapsed, announced, catalogue, memory, house, observed, crashes>>
      BY <1>3, <2>2 DEF Confirm, house
    <3> QED
      BY <1>3, <2>2, <3>1, SweepMoves DEF Confirm
  <2> QED
    BY <1>3, <2>1, <2>2 DEF Confirm
<1>4. ASSUME NEW r \in Requests, ServiceReplies(r) PROVE Goal
  <2>1. TypeOK'
    BY <1>a, <1>4 DEF ServiceReplies, TypeOK, rows, catalogue, house, TaskStates
  <2>2. /\ UNCHANGED <<status, subject, lapsed, audit, reads, call>> /\ holder' = holder
        /\ task' = [task EXCEPT ![r] = "reading"] /\ task[r] = "calling"
        /\ call[r] = "performed" /\ task \in [Requests -> TaskStates]
    BY <1>a, <1>4 DEF ServiceReplies, TypeOK, rows, house
  <2>3. reads[r] < MaxReads
    BY <1>a, <2>2 DEF Consistent
  <2>4. ASSUME NEW q \in Requests PROVE Consistent(q)'
    BY <1>a, <2>2, <2>3 DEF Consistent
  <2> QED
    BY <2>1, <2>2, <2>4, RowsStay
<1>5. ASSUME NEW r \in Requests, ServiceFails(r) PROVE Goal
  <2>1. "failed" \in Completions
    BY DEF Completions
  <2> QED
    BY <1>a, <1>5, <2>1, CompletionMoves DEF ServiceFails, TypeOK
<1>6. ASSUME NEW r \in Requests, Read(r) PROVE Goal
  <2> DEFINE x == actual[subject[r].entity]
  <2>1. task[r] = "reading" /\ holder = NoRequest /\ status[r] = "executing"
    BY <1>a, <1>6 DEF Read, Consistent
  <2>2. subject[r] \in Subjects /\ subject[r].entity \in Entities /\ x \in States
    BY <1>a, <2>1 DEF Consistent, SubjectsAssumption, TypeOK, None
  <2>3. reads[r] \in 0..MaxReads /\ reads[r] < MaxReads /\ MaxReads \in Nat
    BY <1>a, <2>1 DEF Consistent, SubjectsAssumption, TypeOK
  <2>4. /\ reads' = [reads EXCEPT ![r] = @ + 1] /\ reads[r] + 1 \in 0..MaxReads
        /\ observed' = [observed EXCEPT ![r] = x]
    BY <1>6, <2>3 DEF Read
  <2>5. /\ reads' \in [Requests -> 0..MaxReads] /\ reads'[r] = reads[r] + 1
        /\ \A q \in Requests \ {r} : reads'[q] = reads[q]
        /\ observed' \in [Requests -> States \cup {None}]
    <3> HIDE DEF x
    <3> QED
      BY <1>a, <2>2, <2>4, Setting DEF TypeOK
  <2>6. ASSUME NEW v \in Completions, Complete(r, v) PROVE Goal
    BY <1>6, <2>1, <2>5, <2>6, CompletionMoves DEF Read
  <2>7. CASE UNCHANGED <<status, audit, task, holder>> /\ reads[r] + 1 # MaxReads
    <3>1. TypeOK'
      BY <1>a, <1>6, <2>5, <2>7 DEF Read, TypeOK, catalogue, house
    <3>2. UNCHANGED <<status, subject, lapsed, audit, task, holder, call>>
      BY <1>6, <2>7 DEF Read, house
    <3>3. Consistent(r)'
      BY <1>a, <2>3, <2>5, <2>7, <3>2 DEF Consistent
    <3>4. ASSUME NEW q \in Requests \ {r} PROVE Consistent(q)'
      BY <1>a, <2>5, <3>2 DEF Consistent
    <3> QED
      BY <3>1, <3>2, <3>3, <3>4, RowsStay
  <2>8. {"unverified", "succeeded", "failed"} \subseteq Completions
    BY DEF Completions
  <2> QED
    BY <1>6, <2>6, <2>7, <2>8 DEF Read
<1>7. ASSUME NEW r \in Requests, ReadFails(r) PROVE Goal
  <2>1. "failed" \in Completions
    BY DEF Completions
  <2> QED
    BY <1>a, <1>7, <2>1, CompletionMoves DEF ReadFails, TypeOK
<1>8. ASSUME NEW r \in Requests, Announce(r) PROVE Goal
  <2>1. TypeOK'
    BY <1>a, <1>8 DEF Announce, TypeOK, rows, catalogue, house, TaskStates
  <2>2. /\ UNCHANGED <<status, subject, lapsed, audit, reads, call>> /\ holder = r
        /\ task' = [task EXCEPT ![r] = "none"] /\ task \in [Requests -> TaskStates]
    BY <1>a, <1>8 DEF Announce, TypeOK, rows, house
  <2>3. ASSUME NEW q \in Requests PROVE Consistent(q)'
    BY <1>a, <2>2 DEF Consistent
  <2> QED
    BY <2>1, <2>2, <2>3, RowsStay
<1>9. CASE ReadRequests
  BY <1>9, SweepMoves DEF ReadRequests
<1>10. ASSUME NEW e \in Entities, Synchronise(e) PROVE Goal
  <2>1. TypeOK'
    BY <1>a, <1>10 DEF Synchronise, TypeOK, rows, memory, house
  <2>2. UNCHANGED <<status, subject, lapsed, audit, task, reads, holder, call>>
    BY <1>10 DEF Synchronise, rows, memory, house
  <2>3. ASSUME NEW q \in Requests PROVE Consistent(q)'
    BY <1>a, <2>2 DEF Consistent
  <2> QED
    BY <2>1, <2>2, <2>3, RowsStay
<1>11. ASSUME NEW r \in Requests, ServicePerformed(r) \/ ServiceRefused(r) PROVE Goal
  <2>1. PICK c \in {"performed", "refused"} : call' = [call EXCEPT ![r] = c] /\ call[r] = "inflight"
    BY <1>11 DEF ServicePerformed, ServiceRefused
  <2>2. /\ call' \in [Requests -> {"none", "inflight", "performed", "refused"}] /\ call'[r] = c
        /\ \A q \in Requests \ {r} : call'[q] = call[q]
    BY <1>a, <2>1 DEF TypeOK
  <2>3. UNCHANGED <<status, subject, lapsed, audit, announced, cached, listed, task, before,
                    reads, holder, observed, crashes>>
    BY <1>11 DEF ServicePerformed, ServiceRefused, rows, catalogue, memory
  <2>4. subject[r].entity \in Entities
    BY <1>a, <2>1 DEF Consistent, SubjectsAssumption, Completions, None
  <2>5. actual' \in [Entities -> States] /\ goal' \in [Requests -> States \cup {None}]
    <3>1. CASE ServicePerformed(r)
      <4> DEFINE x == Effect(subject[r].action, actual[subject[r].entity])
      <4>1. subject[r].action \in Actions /\ actual[subject[r].entity] \in States
        BY <1>a, <2>1, <2>4 DEF Consistent, SubjectsAssumption, TypeOK, Completions, None
      <4>2. x \in States
        BY <4>1 DEF Effect, Opposite, States, Actions
      <4>3. actual' = [actual EXCEPT ![subject[r].entity] = x] /\ goal' = [goal EXCEPT ![r] = x]
        BY <3>1 DEF ServicePerformed
      <4> HIDE DEF x
      <4> QED
        BY <1>a, <2>4, <4>2, <4>3, Setting DEF TypeOK
    <3>2. CASE ServiceRefused(r)
      BY <1>a, <3>2 DEF ServiceRefused, TypeOK
    <3> QED
      BY <1>11, <3>1, <3>2
  <2>6. TypeOK'
    BY <1>a, <2>2, <2>3, <2>5 DEF TypeOK
  <2>7. ASSUME NEW q \in Requests PROVE Consistent(q)' /\ (call'[q] = "none" <=> call[q] = "none")
    <3>1. CASE q = r
      BY <1>a, <2>1, <2>2, <2>3, <3>1 DEF Consistent
    <3>2. CASE q # r
      BY <1>a, <2>2, <2>3, <3>2 DEF Consistent
    <3> QED
      BY <3>1, <3>2
  <2> QED
    BY <2>3, <2>6, <2>7, RowsStay
<1>12. ASSUME NEW e \in Entities, Operated(e) PROVE Goal
  <2>1. Opposite(actual[e]) \in States
    BY DEF Opposite, States
  <2>2. TypeOK'
    BY <1>a, <1>12, <2>1 DEF Operated, TypeOK, rows, catalogue, memory
  <2>3. UNCHANGED <<status, subject, lapsed, audit, task, reads, holder, call>>
    BY <1>12 DEF Operated, rows, memory
  <2>4. ASSUME NEW q \in Requests PROVE Consistent(q)'
    BY <1>a, <2>3 DEF Consistent
  <2> QED
    BY <2>2, <2>3, <2>4, RowsStay
<1>13. ASSUME NEW r \in Requests, Lapse(r) PROVE Goal
  <2>1. TypeOK'
    BY <1>a, <1>13 DEF Lapse, TypeOK, catalogue, memory, house
  <2>2. /\ UNCHANGED <<status, subject, audit, task, reads, holder, call>>
        /\ lapsed' = lapsed \cup {r} /\ status[r] # None
    BY <1>13 DEF Lapse, memory, house, Waiting, None
  <2>3. ASSUME NEW q \in Requests PROVE Consistent(q)'
    BY <1>a, <1>b, <1>13, <2>2 DEF Consistent, Lapse
  <2> QED
    BY <2>1, <2>2, <2>3, RowsStay
<1>14. CASE CoreCrashes
  <2>1. TypeOK'
    BY <1>a, <1>14 DEF CoreCrashes, TypeOK, rows, catalogue, house, TaskStates, SubjectsAssumption
  <2>2. UNCHANGED <<status, subject, lapsed, audit, reads, call>> /\ \A q \in Requests : task'[q] = "none"
    BY <1>14 DEF CoreCrashes, rows, house
  <2>3. ASSUME NEW q \in Requests PROVE Consistent(q)'
    BY <1>a, <2>2 DEF Consistent
  <2> QED
    BY <2>1, <2>2, <2>3, RowsStay
<1>15. CASE UNCHANGED vars
  <2>1. TypeOK'
    BY <1>a, <1>15 DEF vars, TypeOK, rows, catalogue, memory, house
  <2>2. UNCHANGED <<status, subject, lapsed, audit, task, reads, holder, call>>
    BY <1>15 DEF vars, rows, memory, house
  <2>3. ASSUME NEW q \in Requests PROVE Consistent(q)'
    BY <1>a, <2>2 DEF Consistent
  <2> QED
    BY <2>1, <2>2, <2>3, RowsStay
<1> QED
  BY <1>1, <1>2, <1>3, <1>4, <1>5, <1>6, <1>7, <1>8, <1>9, <1>10, <1>11, <1>12, <1>13, <1>14, <1>15
     DEF Next, TaskStep, ClientStep, HouseStep

LEMMA Invariant == SubjectsAssumption => (Spec => []IInv)
<1> SUFFICES ASSUME SubjectsAssumption PROVE Spec => []IInv
  OBVIOUS
<1>1. Init => IInv
  BY Initially
<1>2. IInv /\ [Next]_vars => IInv'
  BY Kept
<1> QED
  BY <1>1, <1>2, PTL DEF Spec

-----------------------------------------------------------------------------
(* What it is for.                                                         *)

\* Rows, tasks, reads and results keep their types: no reconciliation reads
\* more often than it may (home_actions.py, HomeActionService._reconcile).
THEOREM TypeCorrect == SubjectsAssumption => (Spec => []TypeOK)
<1> SUFFICES ASSUME SubjectsAssumption PROVE Spec => []TypeOK
  OBVIOUS
<1>1. IInv => TypeOK
  BY DEF IInv
<1> QED
  BY Invariant, <1>1, PTL

\* One request's part of AuditExplains, and the entries a move leaves.
Explained(r) ==
  /\ status[r] = "pending_confirmation" => LastEntry(r) = "confirmation_required"
  /\ status[r] = "approved" => LastEntry(r) = "requested"
  /\ status[r] = "executing" => LastEntry(r) \in {"confirmed", "approved"}
  /\ status[r] \in Completions \cup {"expired"} => LastEntry(r) = status[r]
  /\ call[r] # "none" =>
       \E i \in DOMAIN audit[r] :
         audit[r][i] = IF subject[r].entity \in HighRisk THEN "confirmed" ELSE "approved"

LEMMA StaysExplained ==
  ASSUME SubjectsAssumption, IInv, TypeOK', NEW r \in Requests, Moves(r), Explained(r)
  PROVE  Explained(r)'
<1> USE DEF LastEntry
<1>1. audit[r] \in Seq(AuditTypes)
  BY DEF IInv, TypeOK
<1>2. status[r] \in Waiting \cup {None} => call[r] = "none"
  BY DEF IInv, Tasks, Consistent, Waiting, Completions, None
<1>3. CASE Unmoved(r)
  BY <1>3 DEF Unmoved, Same, Explained
<1>4. CASE Expired(r)
  <2>1. audit'[r][Len(audit'[r])] = "expired"
    BY <1>1, <1>4, Appending DEF Expired, AuditTypes
  <2>2. status'[r] = "expired" /\ call'[r] = "none"
    BY <1>2, <1>4 DEF Expired, Same
  <2> QED
    BY <2>1, <2>2 DEF Explained, Completions
<1>5. CASE Asked(r)
  <2>1. call'[r] = "none"
    BY <1>5 DEF Asked
  <2>2. \/ status'[r] = "pending_confirmation" /\ audit'[r][Len(audit'[r])] = "confirmation_required"
        \/ status'[r] = "approved" /\ audit'[r][Len(audit'[r])] = "requested"
    <3>1. CASE status'[r] = "pending_confirmation" /\ audit'[r] = <<"requested", "confirmation_required">>
      <4>1. Len(<<"requested", "confirmation_required">>) = 2
        OBVIOUS
      <4>2. <<"requested", "confirmation_required">>[2] = "confirmation_required"
        OBVIOUS
      <4> QED
        BY <3>1, <4>1, <4>2, Zenon
    <3>2. CASE status'[r] = "approved" /\ audit'[r] = <<"requested">>
      <4>1. Len(<<"requested">>) = 1 /\ <<"requested">>[1] = "requested"
        OBVIOUS
      <4> QED
        BY <3>2, <4>1, Zenon
    <3> QED
      BY <1>5, <3>1, <3>2 DEF Asked
  <2> QED
    BY <2>1, <2>2 DEF Explained, Completions
<1>6. CASE Claimed(r)
  <2> DEFINE e == IF subject[r].entity \in HighRisk THEN "confirmed" ELSE "approved"
  <2>1. /\ audit'[r] = Append(audit[r], e) /\ status'[r] = "executing"
        /\ subject'[r] = subject[r]
    BY <1>6 DEF Claimed
  <2>2. e \in AuditTypes /\ e \in {"confirmed", "approved"}
    BY DEF AuditTypes
  <2>3. audit'[r][Len(audit'[r])] = e /\ Len(audit'[r]) \in DOMAIN audit'[r]
    <3> HIDE DEF e
    <3> QED
      BY <1>1, <2>1, <2>2
  <2> QED
    BY <2>1, <2>2, <2>3 DEF Explained, Completions
<1>7. CASE Completed(r)
  <2>1. PICK v \in Completions : status'[r] = v /\ audit'[r] = Append(audit[r], v)
    BY <1>7 DEF Completed
  <2>2. v \in AuditTypes
    BY <2>1 DEF AuditTypes
  <2>3. /\ audit'[r][Len(audit'[r])] = v
        /\ \A i \in DOMAIN audit[r] : i \in DOMAIN audit'[r] /\ audit'[r][i] = audit[r][i]
    BY <1>1, <2>1, <2>2, Appending
  <2>4. Same(r)
    BY <1>7 DEF Completed
  <2>5. ~(status'[r] \in {"pending_confirmation", "approved", "executing"})
    BY <2>1 DEF Completions
  <2>6. LastEntry(r)' = status'[r]
    BY <2>1, <2>3
  <2>7. ASSUME call'[r] # "none"
        PROVE  \E i \in DOMAIN audit'[r] :
                 audit'[r][i] = IF subject'[r].entity \in HighRisk THEN "confirmed" ELSE "approved"
    <3>1. call[r] # "none" /\ subject'[r] = subject[r]
      BY <2>4, <2>7 DEF Same
    <3>2. PICK i \in DOMAIN audit[r] :
             audit[r][i] = IF subject[r].entity \in HighRisk THEN "confirmed" ELSE "approved"
      BY <3>1 DEF Explained
    <3> QED
      BY <2>3, <3>1, <3>2
  <2> QED
    BY <2>5, <2>6, <2>7 DEF Explained
<1> QED
  BY <1>3, <1>4, <1>5, <1>6, <1>7 DEF Moves

\* Through refused claims, sweeps and crashes, the newest audit entry of a row
\* accounts for its status, and no call leaves Core without an entry that allowed
\* it (storage.py, _append_home_action_audit_locked and its callers).
THEOREM AuditIsComplete == SubjectsAssumption => (Spec => []AuditExplains)
<1> SUFFICES ASSUME SubjectsAssumption PROVE Spec => []AuditExplains
  OBVIOUS
<1> DEFINE All == \A r \in Requests : Explained(r)
<1>1. Init => All
  BY DEF Init, Explained, Completions, None
<1>2. IInv /\ IInv' /\ All /\ [Next]_vars => All'
  <2> SUFFICES ASSUME IInv, IInv', All, [Next]_vars, NEW r \in Requests PROVE Explained(r)'
    OBVIOUS
  <2>1. Moves(r)
    BY Kept
  <2> QED
    BY <2>1, StaysExplained DEF IInv
<1>3. All => AuditExplains
  BY DEF Explained, AuditExplains
<1> QED
  BY <1>1, <1>2, <1>3, Invariant, PTL DEF Spec

-----------------------------------------------------------------------------
(* The contract of governed actions.                                       *)

Performed == {<<r, "call">> : r \in {q \in Requests : call[q] = "performed"}}

\* Where a request stands, read off its row and its lifetime.
PhaseOf(s, late) ==
  IF s \in Waiting THEN IF late THEN "expired" ELSE "waiting"
  ELSE IF s = "succeeded" THEN "verified" ELSE s

LEMMA PhaseIs ==
  /\ Phase = [r \in Requests |-> PhaseOf(status[r], r \in lapsed)]
  /\ Phase' = [r \in Requests |-> PhaseOf(status'[r], r \in lapsed')]
<1>1. "expired" \notin Waiting /\ "succeeded" \notin Waiting
  BY DEF Waiting
<1>2. Phase = [r \in Requests |-> PhaseOf(status[r], r \in lapsed)]
  BY <1>1 DEF Phase, PhaseOf, Swept, Due
<1>3. Phase' = [r \in Requests |-> PhaseOf(status'[r], r \in lapsed')]
  BY <1>1 DEF Phase, PhaseOf, Swept, Due
<1> QED
  BY <1>2, <1>3

\* A request that a step at most sweeps.
Quiet(q) == status'[q] \in {status[q], Swept[q]} /\ (call'[q] = "performed" <=> call[q] = "performed")

LEMMA QuietPhase ==
  ASSUME NEW q \in Requests, Quiet(q), q \in lapsed' <=> q \in lapsed
  PROVE  PhaseOf(status'[q], q \in lapsed') = PhaseOf(status[q], q \in lapsed)
<1>1. Swept[q] = IF status[q] \in Waiting /\ q \in lapsed THEN "expired" ELSE status[q]
  BY DEF Swept, Due
<1>2. "expired" \notin Waiting
  BY DEF Waiting
<1> QED
  BY <1>1, <1>2 DEF Quiet, PhaseOf

Stutters == Phase' = Phase /\ Performed' = Performed

LEMMA AllQuiet ==
  ASSUME lapsed' = lapsed, \A q \in Requests : Quiet(q)
  PROVE  Stutters
<1>1. Phase' = Phase
  BY PhaseIs, QuietPhase
<1> QED
  BY <1>1 DEF Stutters, Performed, Quiet

\* A step that moves one request.
LEMMA OneMoves ==
  ASSUME NEW r \in Requests,
         \A q \in Requests \ {r} : Quiet(q) /\ (q \in lapsed' <=> q \in lapsed)
  PROVE  Phase' = [Phase EXCEPT ![r] = PhaseOf(status'[r], r \in lapsed')]
<1>1. \A q \in Requests \ {r} :
        PhaseOf(status'[q], q \in lapsed') = PhaseOf(status[q], q \in lapsed)
  BY QuietPhase
<1> QED
  BY <1>1, PhaseIs

\* A claim of a row that may be claimed, by whoever makes it.
LEMMA ClaimRefines ==
  ASSUME IInv, NEW r \in Requests, NEW e, Claim(r, e), lapsed' = lapsed,
         status[r] \in Waiting, r \notin lapsed
  PROVE  Contract!Claim(r)
<1>1. status' = [Swept EXCEPT ![r] = "executing"] /\ call' = [call EXCEPT ![r] = "inflight"]
  BY DEF Claim, MoveTo
<1>2. Swept \in [Requests -> Statuses] /\ call \in [Requests -> {"none", "inflight", "performed", "refused"}]
  BY Sweeping DEF IInv, TypeOK
<1>3. status'[r] = "executing" /\ \A q \in Requests \ {r} : Quiet(q)
  BY <1>1, <1>2 DEF Quiet
<1>4. Phase' = [Phase EXCEPT ![r] = "executing"]
  <2>1. PhaseOf("executing", r \in lapsed') = "executing"
    BY DEF PhaseOf, Waiting
  <2> QED
    BY <1>3, <2>1, OneMoves
<1>5. call[r] = "none"
  BY DEF IInv, Tasks, Consistent, Waiting, Completions
<1>6. Performed' = Performed
  BY <1>1, <1>2, <1>5 DEF Performed
<1>7. Phase[r] = "waiting"
  BY PhaseIs DEF PhaseOf
<1> QED
  BY <1>4, <1>6, <1>7 DEF Contract!Claim, Performed

\* A verdict; that of success is of a call Home Assistant has performed.
LEMMA VerdictRefines ==
  ASSUME IInv, NEW r \in Requests, NEW v \in Completions, NEW e, MoveTo(r, v, e),
         UNCHANGED <<lapsed, call>>, status[r] = "executing",
         v = "succeeded" => call[r] = "performed"
  PROVE  Contract!Finish(r, PhaseOf(v, FALSE)) /\ PhaseOf(v, FALSE) \in Contract!Verdicts
<1>1. status'[r] = v /\ \A q \in Requests \ {r} : Quiet(q)
  BY Sweeping DEF MoveTo, IInv, Quiet
<1>2. PhaseOf(v, r \in lapsed') = PhaseOf(v, FALSE)
  BY DEF PhaseOf, Completions, Waiting
<1>3. Phase' = [Phase EXCEPT ![r] = PhaseOf(v, FALSE)]
  BY <1>1, <1>2, OneMoves
<1>4. Phase[r] = "executing"
  BY PhaseIs DEF PhaseOf, Waiting
<1>5. PhaseOf(v, FALSE) = "verified" => <<r, "call">> \in Performed
  BY DEF PhaseOf, Completions, Waiting, Performed
<1>6. Performed' = Performed
  BY DEF Performed
<1>7. PhaseOf(v, FALSE) \in Contract!Verdicts
  BY DEF PhaseOf, Completions, Waiting, Contract!Verdicts
<1> QED
  BY <1>3, <1>4, <1>5, <1>6, <1>7 DEF Contract!Finish, Performed

\* Every step asks, expires, claims, acts or finishes one request, or none.
LEMMA StepRefines ==
  ASSUME SubjectsAssumption, IInv, IInv', [Next]_vars
  PROVE  Stutters \/ \E r \in Requests : Contract!Step(r)
<1> DEFINE Goal == Stutters \/ \E r \in Requests : Contract!Step(r)
<1>a. TypeOK /\ \A q \in Requests : Consistent(q)
  BY DEF IInv, Tasks
<1>b. UNCHANGED <<status, call, lapsed>> => Stutters
  BY AllQuiet DEF Quiet
<1>1. ASSUME NEW r \in Requests, NEW s \in Subjects, Prepare(r, s) PROVE Goal
  <2>1. PICK v \in Waiting : status' = [Swept EXCEPT ![r] = v]
    BY <1>1 DEF Prepare, Waiting
  <2>2. status[r] = "none" /\ r \notin lapsed /\ lapsed' = lapsed /\ call' = call
    BY <1>a, <1>1 DEF Prepare, Consistent, None, house
  <2>3. status'[r] = v /\ \A q \in Requests \ {r} : Quiet(q)
    BY <1>a, <2>1, <2>2, Sweeping DEF Quiet
  <2>4. Phase' = [Phase EXCEPT ![r] = "waiting"]
    <3>1. PhaseOf(v, r \in lapsed') = "waiting"
      BY <2>2 DEF PhaseOf
    <3> QED
      BY <2>2, <2>3, <3>1, OneMoves
  <2>5. Phase[r] = "none"
    BY <2>2, PhaseIs DEF PhaseOf, Waiting
  <2>6. Contract!Ask(r)
    BY <2>2, <2>4, <2>5 DEF Contract!Ask
  <2> QED
    BY <2>6 DEF Contract!Step
<1>2. ASSUME NEW r \in Requests, ExecutePrepared(r) PROVE Goal
  <2>1. /\ Claim(r, "approved") /\ lapsed' = lapsed /\ status[r] \in Waiting /\ r \notin lapsed
    BY <1>a, <1>2 DEF ExecutePrepared, Consistent, Waiting
  <2>2. Contract!Claim(r)
    BY <2>1, ClaimRefines
  <2> QED
    BY <2>2 DEF Contract!Step
<1>3. ASSUME NEW r \in Requests, NEW d \in Devices, Confirm(r, d) PROVE Goal
  <2>1. CASE Claim(r, "confirmed") /\ Claimable(r, d, "pending_confirmation")
    <3>1. status[r] \in Waiting /\ r \notin lapsed
      BY <1>a, <2>1, Sweeping DEF Claimable, Waiting
    <3>2. Contract!Claim(r)
      BY <1>3, <2>1, <3>1, ClaimRefines DEF Confirm
    <3> QED
      BY <3>2 DEF Contract!Step
  <2>2. CASE Sweep /\ UNCHANGED <<memory, call>>
    BY <1>3, <2>2, AllQuiet DEF Confirm, Sweep, Quiet
  <2> QED
    BY <1>3, <2>1, <2>2 DEF Confirm
<1>4. ASSUME NEW r \in Requests, ServiceFails(r) \/ ReadFails(r) PROVE Goal
  <2>1. /\ MoveTo(r, "failed", "failed") /\ UNCHANGED <<lapsed, call>> /\ status[r] = "executing"
    BY <1>a, <1>4 DEF ServiceFails, ReadFails, CompleteFailed, Consistent, house
  <2>2. "failed" \in Completions
    BY DEF Completions
  <2>3. PICK v \in Contract!Verdicts : Contract!Finish(r, v)
    BY <2>1, <2>2, VerdictRefines
  <2> QED
    BY <2>3 DEF Contract!Step
<1>5. ASSUME NEW r \in Requests, Read(r) PROVE Goal
  <2>1. UNCHANGED <<lapsed, call>> /\ status[r] = "executing" /\ call[r] = "performed"
    BY <1>a, <1>5 DEF Read, Consistent, house
  <2>2. ASSUME NEW v \in Completions, Complete(r, v) PROVE Goal
    <3>1. MoveTo(r, v, v)
      BY <2>2 DEF Complete
    <3>2. PICK w \in Contract!Verdicts : Contract!Finish(r, w)
      BY <2>1, <3>1, VerdictRefines
    <3> QED
      BY <3>2 DEF Contract!Step
  <2>3. CASE UNCHANGED <<status, audit, task, holder>>
    BY <1>b, <2>1, <2>3
  <2>4. (\E v \in Completions : Complete(r, v)) \/ UNCHANGED <<status, audit, task, holder>>
    <3>1. {"succeeded", "unverified", "failed"} = Completions
      BY DEF Completions
    <3> QED
      BY <1>5, <3>1 DEF Read
  <2> QED
    BY <2>2, <2>3, <2>4
<1>6. ASSUME NEW r \in Requests, ServicePerformed(r) PROVE Goal
  <2>1. /\ call[r] = "inflight" /\ call' = [call EXCEPT ![r] = "performed"]
        /\ UNCHANGED <<status, lapsed>>
    BY <1>6 DEF ServicePerformed, rows
  <2>2. Phase' = Phase
    BY <2>1, PhaseIs
  <2>3. status[r] \in {"executing"} \cup Completions
    BY <1>a, <2>1 DEF Consistent
  <2>4. Phase[r] \in {"executing"} \cup Contract!Verdicts
    BY <2>3, PhaseIs DEF PhaseOf, Completions, Waiting, Contract!Verdicts
  <2>5. <<r, "call">> \notin Performed /\ Performed' = Performed \cup {<<r, "call">>}
    BY <1>a, <2>1 DEF Performed, TypeOK
  <2>6. Contract!Act(r, "call")
    BY <2>2, <2>4, <2>5 DEF Contract!Act, Performed
  <2> QED
    BY <2>6 DEF Contract!Step
<1>7. ASSUME NEW r \in Requests, ServiceRefused(r) PROVE Goal
  <2>1. /\ call[r] = "inflight" /\ call' = [call EXCEPT ![r] = "refused"]
        /\ UNCHANGED <<status, lapsed>>
    BY <1>7 DEF ServiceRefused, rows
  <2>2. \A q \in Requests : Quiet(q)
    BY <1>a, <2>1 DEF Quiet, TypeOK
  <2> QED
    BY <2>1, <2>2, AllQuiet
<1>8. ASSUME NEW r \in Requests, Lapse(r) PROVE Goal
  <2>1. status[r] \in Waiting /\ lapsed' = lapsed \cup {r} /\ UNCHANGED <<status, call>>
    BY <1>8 DEF Lapse, house
  <2>2. CASE r \in lapsed
    BY <1>b, <2>1, <2>2
  <2>3. CASE r \notin lapsed
    <3>1. Phase' = [Phase EXCEPT ![r] = "expired"]
      <4>1. \A q \in Requests \ {r} : Quiet(q) /\ (q \in lapsed' <=> q \in lapsed)
        BY <2>1 DEF Quiet
      <4>2. PhaseOf(status'[r], r \in lapsed') = "expired"
        BY <2>1 DEF PhaseOf
      <4> QED
        BY <4>1, <4>2, OneMoves
    <3>2. Phase[r] = "waiting"
      BY <2>1, <2>3, PhaseIs DEF PhaseOf
    <3>3. Contract!Expire(r)
      BY <2>1, <3>1, <3>2 DEF Contract!Expire
    <3> QED
      BY <3>3 DEF Contract!Step
  <2> QED
    BY <2>2, <2>3
<1>9. CASE ReadRequests
  BY <1>9, AllQuiet DEF ReadRequests, Sweep, Quiet, house
<1>10. CASE \/ CoreCrashes \/ UNCHANGED vars
            \/ \E r \in Requests : ServiceReplies(r) \/ Announce(r)
            \/ \E e \in Entities : Operated(e) \/ Synchronise(e)
  BY <1>b, <1>10 DEF CoreCrashes, vars, ServiceReplies, Announce, Operated, Synchronise, rows, house
<1> QED
  BY <1>1, <1>2, <1>3, <1>4, <1>5, <1>6, <1>7, <1>8, <1>9, <1>10
     DEF Next, TaskStep, ClientStep, HouseStep

\* Retried, repeated and late confirmations execute nothing twice and expired
\* requests nothing at all, and success is reported of calls Home Assistant
\* performed: home control implements the contract (home_actions.py
\* confirm, execute, _reconcile; storage.py claim_home_action).
THEOREM ImplementsContract == SubjectsAssumption => (Spec => ContractSpec)
<1> SUFFICES ASSUME SubjectsAssumption PROVE Spec => ContractSpec
  OBVIOUS
<1>1. Init => Contract!Init
  <2> SUFFICES ASSUME Init PROVE Contract!Init
    OBVIOUS
  <2>1. \A r \in Requests : status[r] = "none" /\ call[r] = "none"
    BY DEF Init, None
  <2>2. Phase = [r \in Requests |-> "none"]
    BY <2>1, PhaseIs DEF PhaseOf, Waiting
  <2> QED
    BY <2>1, <2>2 DEF Contract!Init
<1>2. IInv /\ IInv' /\ [Next]_vars => [Contract!Next]_(Contract!vars)
  <2> SUFFICES ASSUME IInv, IInv', [Next]_vars PROVE [Contract!Next]_(Contract!vars)
    OBVIOUS
  <2>1. Stutters => UNCHANGED Contract!vars
    BY DEF Stutters, Performed, Contract!vars
  <2> QED
    BY <2>1, StepRefines DEF Contract!Next
<1> QED
  BY <1>1, <1>2, Invariant, PTL DEF Spec, ContractSpec, Contract!Spec

-----------------------------------------------------------------------------
(* Verdicts.                                                               *)

\* What a reconciliation expects is what the call set, whatever the state was
\* before, if no action is relative to it.
NoToggles == \A s \in Subjects : s.action # "toggle"

Wanted(r) == IF subject[r].action = "turn_on" THEN "on" ELSE "off"

\* What is known of a reconciliation before and after its verdict.
Judged(r) ==
  /\ observed[r] # None => call[r] = "performed"
  /\ call[r] = "performed" /\ subject[r].action # "activate" => goal[r] = Wanted(r)
  /\ task[r] = "calling" => observed[r] = None
  /\ task[r] = "reading" /\ observed[r] # None => observed[r] # goal[r]
  /\ observed[r] # None /\ subject[r].action = "activate" => status[r] = "unverified"
  /\ observed[r] # None /\ status[r] \in {"succeeded", "failed"}
       => (status[r] = "succeeded" <=> observed[r] = goal[r])

\* A request that a step at most sweeps, or whose task it ends.
LEMMA StaysJudged ==
  ASSUME TypeOK, NEW q \in Requests, Judged(q),
         status'[q] \in {status[q], Swept[q]}, task'[q] \in {task[q], "none", "announcing"},
         subject'[q] = subject[q], call'[q] = call[q], goal'[q] = goal[q],
         observed'[q] = observed[q]
  PROVE  Judged(q)'
<1>1. \/ status'[q] = status[q]
      \/ status'[q] = "expired" /\ status[q] # "unverified"
  BY Sweeping DEF Waiting
<1>2. Wanted(q)' = Wanted(q)
  BY DEF Wanted
<1> QED
  BY <1>1, <1>2 DEF Judged

\* A verdict is that of the last read, or of no read at all.
LEMMA VerdictJudged ==
  ASSUME SubjectsAssumption, IInv, NEW r \in Requests, NEW v \in Completions,
         Complete(r, v) \/ (CompleteFailed(r) /\ v = "failed"),
         \A q \in Requests : Judged(q), UNCHANGED <<subject, call, goal>>,
         \A q \in Requests \ {r} : observed'[q] = observed[q],
         observed'[r] # None =>
           /\ call[r] = "performed"
           /\ subject[r].action = "activate" => v = "unverified"
           /\ v \in {"succeeded", "failed"} => (v = "succeeded" <=> observed'[r] = goal[r])
  PROVE  \A q \in Requests : Judged(q)'
<1>1. MoveTo(r, v, v)
  BY DEF Complete, CompleteFailed
<1>2. /\ status'[r] = v /\ \A q \in Requests \ {r} : status'[q] = Swept[q]
  BY <1>1, Sweeping DEF MoveTo, IInv
<1>3. /\ task'[r] \in {"none", "announcing"} /\ \A q \in Requests \ {r} : task'[q] = task[q]
  BY DEF Complete, CompleteFailed, IInv, TypeOK
<1>4. Judged(r)'
  <2>1. Wanted(r)' = Wanted(r)
    BY DEF Wanted
  <2> QED
    BY <1>2, <1>3, <2>1 DEF Judged
<1>5. ASSUME NEW q \in Requests \ {r} PROVE Judged(q)'
  BY <1>2, <1>3, StaysJudged DEF IInv
<1> QED
  BY <1>4, <1>5

LEMMA JudgedStep ==
  ASSUME SubjectsAssumption, NoToggles, IInv, [Next]_vars, \A q \in Requests : Judged(q)
  PROVE  \A q \in Requests : Judged(q)'
<1> DEFINE Goal == \A q \in Requests : Judged(q)'
<1>a. TypeOK /\ \A q \in Requests : Consistent(q)
  BY DEF IInv, Tasks
<1>1. ASSUME NEW r \in Requests, NEW s \in Subjects, Prepare(r, s) PROVE Goal
  <2>1. /\ status[r] = None /\ UNCHANGED <<call, goal, observed>>
        /\ \A q \in Requests \ {r} : subject'[q] = subject[q]
    BY <1>a, <1>1 DEF Prepare, TypeOK, house
  <2>2. call[r] = "none" /\ observed[r] = None /\ task[r] = "none"
    BY <1>a, <2>1 DEF Consistent, Judged, Completions, None
  <2>3. \A q \in Requests \ {r} : status'[q] = Swept[q] /\ task'[q] = task[q]
    BY <1>a, <1>1, Sweeping DEF Prepare, TypeOK
  <2>4. task'[r] \notin {"calling", "reading"}
    BY <1>a, <1>1, <2>2 DEF Prepare, TypeOK
  <2>5. Judged(r)'
    BY <2>1, <2>2, <2>4 DEF Judged
  <2>6. ASSUME NEW q \in Requests \ {r} PROVE Judged(q)'
    BY <1>a, <2>1, <2>3, StaysJudged
  <2> QED
    BY <2>5, <2>6
<1>2. ASSUME NEW r \in Requests, NEW e, Claim(r, e), status[r] \in Waiting,
             UNCHANGED <<subject, goal, observed>>
      PROVE  Goal
  <2>1. call[r] = "none" /\ observed[r] = None
    BY <1>a, <1>2 DEF Consistent, Judged, Completions, Waiting
  <2>2. call'[r] = "inflight" /\ \A q \in Requests \ {r} : call'[q] = call[q]
    BY <1>a, <1>2 DEF Claim, TypeOK
  <2>3. \A q \in Requests \ {r} : status'[q] = Swept[q] /\ task'[q] = task[q]
    BY <1>a, <1>2, Sweeping DEF Claim, MoveTo, TypeOK
  <2>4. Judged(r)'
    BY <1>2, <2>1, <2>2 DEF Judged
  <2>5. ASSUME NEW q \in Requests \ {r} PROVE Judged(q)'
    BY <1>a, <1>2, <2>2, <2>3, StaysJudged
  <2> QED
    BY <2>4, <2>5
<1>3. ASSUME NEW r \in Requests, ExecutePrepared(r) PROVE Goal
  BY <1>a, <1>2, <1>3 DEF ExecutePrepared, Consistent, Waiting
<1>4. ASSUME NEW r \in Requests, NEW d \in Devices, Confirm(r, d) PROVE Goal
  <2>1. CASE Claim(r, "confirmed") /\ Claimable(r, d, "pending_confirmation")
    <3>1. status[r] \in Waiting
      BY <1>a, <2>1, Sweeping DEF Claimable, Waiting
    <3> QED
      BY <1>2, <1>4, <2>1, <3>1 DEF Confirm
  <2>2. CASE Sweep /\ UNCHANGED <<memory, call>>
    BY <1>a, <1>4, <2>2, StaysJudged DEF Confirm, Sweep, memory
  <2> QED
    BY <1>4, <2>1, <2>2 DEF Confirm
<1>5. ASSUME NEW r \in Requests, ServiceReplies(r) PROVE Goal
  <2>1. /\ UNCHANGED <<status, subject, call, goal, observed>> /\ task[r] = "calling"
        /\ \A q \in Requests \ {r} : task'[q] = task[q]
    BY <1>a, <1>5 DEF ServiceReplies, TypeOK, rows, house
  <2>2. Wanted(r)' = Wanted(r)
    BY <2>1 DEF Wanted
  <2>3. Judged(r)'
    BY <2>1, <2>2 DEF Judged
  <2>4. ASSUME NEW q \in Requests \ {r} PROVE Judged(q)'
    BY <1>a, <2>1, StaysJudged
  <2> QED
    BY <2>3, <2>4
<1>6. ASSUME NEW r \in Requests, ServiceFails(r) \/ ReadFails(r) PROVE Goal
  <2>1. /\ CompleteFailed(r) /\ task[r] \in {"calling", "reading"}
        /\ UNCHANGED <<subject, call, goal, observed>>
    BY <1>6 DEF ServiceFails, ReadFails, house
  <2>2. status[r] = "executing"
    BY <1>a, <2>1 DEF Consistent
  <2>3. observed[r] # None => /\ call[r] = "performed" /\ subject[r].action # "activate"
                             /\ observed[r] # goal[r]
    BY <2>1, <2>2 DEF Judged
  <2>4. "failed" \in Completions
    BY DEF Completions
  <2> QED
    BY <2>1, <2>3, <2>4, VerdictJudged
<1>7. ASSUME NEW r \in Requests, Read(r) PROVE Goal
  <2> DEFINE x == actual[subject[r].entity]
  <2>1. /\ task[r] = "reading" /\ status[r] = "executing" /\ call[r] = "performed"
        /\ subject[r] \in Subjects
    BY <1>a, <1>7 DEF Read, Consistent, None
  <2>2. x \in States /\ x # None
    BY <1>a, <2>1 DEF SubjectsAssumption, TypeOK, States, None
  <2>3. /\ UNCHANGED <<subject, call, goal>> /\ observed' = [observed EXCEPT ![r] = x]
    BY <1>7 DEF Read, house
  <2> HIDE DEF x
  <2>4. observed'[r] = x /\ \A q \in Requests \ {r} : observed'[q] = observed[q]
    BY <1>a, <2>3 DEF TypeOK
  <2>5. subject[r].action # "activate" => (Matches(r, x) <=> x = goal[r])
    <3>1. subject[r].action \in Actions /\ subject[r].action # "toggle"
      BY <2>1 DEF SubjectsAssumption, NoToggles
    <3>2. subject[r].action # "activate" => goal[r] = Wanted(r)
      BY <2>1 DEF Judged
    <3> QED
      BY <3>1, <3>2 DEF Matches, Effect, Wanted, Actions
  <2>6. \/ subject[r].action = "activate" /\ Complete(r, "unverified")
        \/ subject[r].action # "activate" /\ Matches(r, x) /\ Complete(r, "succeeded")
        \/ subject[r].action # "activate" /\ ~Matches(r, x) /\ Complete(r, "failed")
        \/ subject[r].action # "activate" /\ ~Matches(r, x) /\ UNCHANGED <<status, task>>
    BY <1>7 DEF Read, x
  <2>7. ASSUME NEW v \in Completions, Complete(r, v),
               subject[r].action = "activate" => v = "unverified",
               v \in {"succeeded", "failed"} => (v = "succeeded" <=> x = goal[r])
        PROVE  Goal
    BY <2>1, <2>3, <2>4, <2>7, VerdictJudged
  <2>8. CASE subject[r].action # "activate" /\ ~Matches(r, x) /\ UNCHANGED <<status, task>>
    <3>1. Wanted(r)' = Wanted(r)
      BY <2>3 DEF Wanted
    <3>2. Judged(r)'
      BY <2>1, <2>3, <2>4, <2>5, <2>8, <3>1 DEF Judged
    <3>3. ASSUME NEW q \in Requests \ {r} PROVE Judged(q)'
      BY <1>a, <2>3, <2>4, <2>8, StaysJudged
    <3> QED
      BY <3>2, <3>3
  <2>9. "unverified" \in Completions /\ "succeeded" \in Completions /\ "failed" \in Completions
    BY DEF Completions
  <2> QED
    BY <2>5, <2>6, <2>7, <2>8, <2>9
<1>8. ASSUME NEW r \in Requests, ServicePerformed(r) PROVE Goal
  <2>1. /\ call[r] = "inflight" /\ UNCHANGED <<status, subject, task, observed>>
        /\ \A q \in Requests \ {r} : call'[q] = call[q] /\ goal'[q] = goal[q]
    BY <1>a, <1>8 DEF ServicePerformed, TypeOK, rows, memory
  <2>2. observed[r] = None
    BY <2>1 DEF Judged
  <2>3. subject[r] \in Subjects
    BY <1>a, <2>1 DEF Consistent, Completions, None
  <2>4. subject[r].action # "activate" => goal'[r] = Wanted(r)
    <3>1. subject[r].action \in Actions /\ subject[r].action # "toggle"
      BY <2>3 DEF SubjectsAssumption, NoToggles
    <3>2. goal'[r] = Effect(subject[r].action, actual[subject[r].entity])
      BY <1>a, <1>8 DEF ServicePerformed, TypeOK
    <3> QED
      BY <3>1, <3>2 DEF Effect, Wanted, Actions
  <2>5. Wanted(r)' = Wanted(r)
    BY <2>1 DEF Wanted
  <2>6. Judged(r)'
    BY <2>1, <2>2, <2>4, <2>5 DEF Judged
  <2>7. ASSUME NEW q \in Requests \ {r} PROVE Judged(q)'
    BY <1>a, <2>1, StaysJudged
  <2> QED
    BY <2>6, <2>7
<1>9. ASSUME NEW r \in Requests, ServiceRefused(r) PROVE Goal
  <2>1. /\ call[r] = "inflight" /\ call'[r] = "refused"
        /\ UNCHANGED <<status, subject, task, goal, observed>>
        /\ \A q \in Requests \ {r} : call'[q] = call[q]
    BY <1>a, <1>9 DEF ServiceRefused, TypeOK, rows, memory
  <2>2. Judged(r)'
    BY <2>1 DEF Judged
  <2>3. ASSUME NEW q \in Requests \ {r} PROVE Judged(q)'
    BY <1>a, <2>1, StaysJudged
  <2> QED
    BY <2>2, <2>3
<1>10. ASSUME NEW r \in Requests, Announce(r) PROVE Goal
  <2>1. /\ UNCHANGED <<status, subject, call, goal, observed>>
        /\ \A q \in Requests : task'[q] \in {task[q], "none"}
    BY <1>a, <1>10 DEF Announce, TypeOK, rows, house
  <2> QED
    BY <1>a, <2>1, StaysJudged
<1>11. CASE ReadRequests
  BY <1>a, <1>11, StaysJudged DEF ReadRequests, Sweep, memory, house
<1>12. CASE CoreCrashes
  BY <1>a, <1>12, StaysJudged DEF CoreCrashes, rows, house
<1>13. CASE \/ UNCHANGED vars \/ \E r \in Requests : Lapse(r)
            \/ \E e \in Entities : Operated(e) \/ Synchronise(e)
  <2>1. UNCHANGED <<status, subject, task, call, goal, observed>>
    BY <1>13 DEF vars, Lapse, Operated, Synchronise, rows, memory, house
  <2> QED
    BY <1>a, <2>1, StaysJudged
<1> QED
  BY <1>1, <1>3, <1>4, <1>5, <1>6, <1>7, <1>8, <1>9, <1>10, <1>11, <1>12, <1>13
     DEF Next, TaskStep, ClientStep, HouseStep

\* Whoever operates an entity meanwhile, success means that the last read
\* returned what the call had set, failure after a read that it did not, if
\* requests name the state they want (home_actions.py, _reconcile, _matches).
THEOREM VerdictsAreAuthoritative ==
  SubjectsAssumption /\ NoToggles => (Spec => []VerdictIsAuthoritative)
<1> SUFFICES ASSUME SubjectsAssumption, NoToggles PROVE Spec => []VerdictIsAuthoritative
  OBVIOUS
<1> DEFINE All == \A r \in Requests : Judged(r)
<1>1. Init => All
  BY DEF Init, Judged, None
<1>2. IInv /\ All /\ [Next]_vars => All'
  BY JudgedStep
<1>3. All => VerdictIsAuthoritative
  BY DEF Judged, VerdictIsAuthoritative
<1> QED
  BY <1>1, <1>2, <1>3, Invariant, PTL DEF Spec
=============================================================================
