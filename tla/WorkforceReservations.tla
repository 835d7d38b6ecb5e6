------------------------ MODULE WorkforceReservations ------------------------
(***************************************************************************)
(* The workforce service (tools/workforce-service): specialists with a     *)
(* capacity and a workload, and reservations that are TENTATIVE until they *)
(* are confirmed, cancelled, or pass their expiry.                         *)
(*                                                                         *)
(* Every HTTP request runs in a database session of its own, and requests  *)
(* interleave at every await.  The service's SQLite connection opens a     *)
(* transaction at the first write, and a transaction that has written      *)
(* excludes every other writer.  Therefore                                 *)
(*   - create and confirm, whose first statement is the UPDATE that        *)
(*     expires late reservations, run as one atomic step, but against the  *)
(*     clock they read before they waited for the write lock;              *)
(*   - every other handler SELECTs rows first and writes what it computed  *)
(*     from them at commit: its reads and its writes are separate steps.   *)
(*                                                                         *)
(* A reservation identifier has one payload: a create that reuses it with  *)
(* another one is refused (409) and changes nothing.                       *)
(***************************************************************************)
EXTENDS Integers, FiniteSets

CONSTANTS
  Specialists,        \* specialist identifiers
  Incidents,          \* incident identifiers
  Reservations,       \* reservation identifiers the clients use
  SpecialistOf,       \* the specialist each reservation names
  IncidentOf,         \* the incident each reservation names
  InitialCapacity,    \* seeded capacity of each specialist
  InitialWorkload,    \* seeded workload of each specialist
  MaxCapacity,        \* the schema's largest capacity (Field(le=100))
  Requests,           \* HTTP requests that can be in flight together
  Handlers            \* the handlers this deployment's clients call

HandlerNames == {"create", "confirm", "cancel", "read", "release", "override"}

ASSUME ReservationAssumption ==
  /\ IsFiniteSet(Reservations)
  /\ SpecialistOf \in [Reservations -> Specialists]
  /\ IncidentOf \in [Reservations -> Incidents]
ASSUME CapacityAssumption ==
  /\ MaxCapacity \in Nat \ {0}
  /\ InitialCapacity \in [Specialists -> 1..MaxCapacity]
  /\ InitialWorkload \in [Specialists -> 0..MaxCapacity]
  /\ \A s \in Specialists : InitialWorkload[s] <= InitialCapacity[s]
ASSUME HandlerAssumption == Handlers \subseteq HandlerNames

\* "ABSENT": no row.  "LATE": the row says TENTATIVE and its expires_at has passed.
Statuses == {"ABSENT", "TENTATIVE", "LATE", "CONFIRMED", "CANCELLED", "EXPIRED"}
Tentative == {"TENTATIVE", "LATE"}
Closed == {"CANCELLED", "EXPIRED"}
Active == Tentative \cup {"CONFIRMED"}       \* ACTIVE_RESERVATION_STATUSES

\* What a request does next.
Steps == {"idle", "create", "confirm", "cancel", "count", "write", "expire",
          "override"}

\* "The session has not loaded this value" / "leaves this column as it is".
Unset == -1
Loads == 0..MaxCapacity \cup {Unset}
Changes == [capacity: 1..MaxCapacity \cup {Unset}, workload: Loads]

VARIABLES
  status,     \* reservations.status and expires_at against the clock
  workload,   \* specialists.current_workload
  capacity,   \* specialists.capacity
  available,  \* specialists.active and specialists.availability
  step,       \* per request: the step it takes next
  target,     \* per request: the reservations it writes
  late,       \* per request: the reservations already due when it read now_utc
  held,       \* per request: the targets it read as CONFIRMED
  seen,       \* per request: the current_workload it loaded before its write
  change      \* per request: the columns an override writes

rows == <<status, workload, capacity, available>>
session == <<step, target, late, held, seen, change>>
vars == <<rows, session>>

NothingSeen == [s \in Specialists |-> Unset]
NoChange == [s \in Specialists |-> [capacity |-> Unset, workload |-> Unset]]

-----------------------------------------------------------------------------
Init ==
  /\ status = [r \in Reservations |-> "ABSENT"]
  /\ workload = InitialWorkload
  /\ capacity = InitialCapacity
  /\ available \in [Specialists -> BOOLEAN]
  /\ step = [q \in Requests |-> "idle"]
  /\ target = [q \in Requests |-> {}]
  /\ late = [q \in Requests |-> {}]
  /\ held = [q \in Requests |-> {}]
  /\ seen = [q \in Requests |-> NothingSeen]
  /\ change = [q \in Requests |-> NoChange]

Of(s, rs) == {r \in rs : SpecialistOf[r] = s}
WithStatus(st) == {r \in Reservations : status[r] \in st}

\* is_expired(reservation, now) for the clock a request read at its start.
ExpiredAt(q, r) == status[r] = "LATE" /\ r \in late[q]

\* expire_pending_reservations: TENTATIVE rows whose expires_at <= now.
AfterExpiry(q, r) == IF ExpiredAt(q, r) THEN "EXPIRED" ELSE status[r]

\* _active_pending_count
ActivePending(q, s) == {r \in Of(s, WithStatus(Tentative)) : r \notin late[q]}

\* The active_duplicate query of create_reservation.
ActiveDuplicate(q, r) ==
  \E o \in Reservations :
    /\ SpecialistOf[o] = SpecialistOf[r] /\ IncidentOf[o] = IncidentOf[r]
    /\ \/ status[o] = "CONFIRMED"
       \/ status[o] \in Tentative /\ o \notin late[q]

\* The request ends, and its session with it.
Finish(q) ==
  /\ step' = [step EXCEPT ![q] = "idle"]
  /\ target' = [target EXCEPT ![q] = {}]
  /\ late' = [late EXCEPT ![q] = {}]
  /\ held' = [held EXCEPT ![q] = {}]
  /\ seen' = [seen EXCEPT ![q] = NothingSeen]
  /\ change' = [change EXCEPT ![q] = NoChange]

-----------------------------------------------------------------------------
\* create, confirm and cancel read the clock first: now_utc.
Begin(q, handler, r) ==
  /\ step[q] = "idle"
  /\ handler \in Handlers \cap {"create", "confirm", "cancel"}
  /\ step' = [step EXCEPT ![q] = handler]
  /\ target' = [target EXCEPT ![q] = {r}]
  /\ late' = [late EXCEPT ![q] = WithStatus({"LATE"})]
  /\ UNCHANGED <<rows, held, seen, change>>

\* Mutants: the duplicate check is dropped; pending reservations do not count.
CanCreateDuplicate(q, r) ==
  /\ status[r] = "ABSENT"
  /\ available[SpecialistOf[r]]
  /\ workload[SpecialistOf[r]] + Cardinality(ActivePending(q, SpecialistOf[r]))
       < capacity[SpecialistOf[r]]
CanCreateIgnoringPending(q, r) ==
  /\ status[r] = "ABSENT"
  /\ available[SpecialistOf[r]]
  /\ ~ActiveDuplicate(q, r)
  /\ workload[SpecialistOf[r]] < capacity[SpecialistOf[r]]

CanCreate(q, r) ==
  /\ status[r] = "ABSENT"
  /\ available[SpecialistOf[r]]
  /\ ~ActiveDuplicate(q, r)
  /\ workload[SpecialistOf[r]] + Cardinality(ActivePending(q, SpecialistOf[r]))
       < capacity[SpecialistOf[r]]

\* create_reservation; a replay of the idempotency key returns the old row and
\* every refusal rolls back, so that neither keeps the expiry UPDATE.
Create(q) ==
  /\ step[q] = "create"
  /\ \E r \in target[q] :
       \/ /\ CanCreate(q, r)
          /\ status' = [o \in Reservations |->
                          IF o = r THEN "TENTATIVE" ELSE AfterExpiry(q, o)]
       \/ ~CanCreate(q, r) /\ UNCHANGED status
  /\ Finish(q)
  /\ UNCHANGED <<workload, capacity, available>>

\* Mutant: a closed reservation is confirmed.
CanConfirmClosed(q, r) ==
  /\ AfterExpiry(q, r) \in Tentative \cup Closed
  /\ available[SpecialistOf[r]]
  /\ workload[SpecialistOf[r]] < capacity[SpecialistOf[r]]

CanConfirm(q, r) ==
  /\ AfterExpiry(q, r) \in Tentative
  /\ available[SpecialistOf[r]]
  /\ workload[SpecialistOf[r]] < capacity[SpecialistOf[r]]

\* confirm_reservation; a CONFIRMED reservation is returned as it is.
Confirm(q) ==
  /\ step[q] = "confirm"
  /\ \E r \in target[q] :
       \/ /\ CanConfirm(q, r)
          /\ status' = [o \in Reservations |->
                          IF o = r THEN "CONFIRMED" ELSE AfterExpiry(q, o)]
          /\ workload' = [workload EXCEPT ![SpecialistOf[r]] = @ + 1]
       \/ ~CanConfirm(q, r) /\ UNCHANGED <<status, workload>>
  /\ Finish(q)
  /\ UNCHANGED <<capacity, available>>

-----------------------------------------------------------------------------
\* cancel_reservation reads the row and decides; nothing is locked yet.
CancelRead(q) ==
  /\ step[q] = "cancel"
  /\ \E r \in target[q] :
       \/ /\ status[r] \in {"ABSENT"} \cup Closed
          /\ Finish(q)
       \/ /\ status[r] \in Active
          /\ step' = [step EXCEPT ![q] =
                        CASE ExpiredAt(q, r) -> "expire"
                          [] status[r] = "CONFIRMED" -> "count"
                          [] OTHER -> "write"]
          /\ held' = [held EXCEPT ![q] = {r} \cap WithStatus({"CONFIRMED"})]
          /\ UNCHANGED <<target, late, seen, change>>
  /\ UNCHANGED rows

\* Mutant: is_expired does not look at the status.
ReadPastDeadline(q, r) ==
  /\ step[q] = "idle" /\ "read" \in Handlers
  /\ status[r] \in {"LATE", "CONFIRMED"}
  /\ step' = [step EXCEPT ![q] = "expire"]
  /\ target' = [target EXCEPT ![q] = {r}]
  /\ UNCHANGED <<rows, late, held, seen, change>>

\* get_reservation and verify_reservation normalise a late TENTATIVE row to
\* EXPIRED: the row is read here and written by WriteExpired.
ReadLate(q, r) ==
  /\ step[q] = "idle" /\ "read" \in Handlers
  /\ status[r] = "LATE"
  /\ step' = [step EXCEPT ![q] = "expire"]
  /\ target' = [target EXCEPT ![q] = {r}]
  /\ UNCHANGED <<rows, late, held, seen, change>>

WriteExpired(q) ==
  /\ step[q] = "expire"
  /\ status' = [r \in Reservations |->
                  IF r \in target[q] THEN "EXPIRED" ELSE status[r]]
  /\ Finish(q)
  /\ UNCHANGED <<workload, capacity, available>>

\* release_incident_workload_for_simulation selects the incident's active rows.
ReleaseRead(q, i) ==
  /\ step[q] = "idle" /\ "release" \in Handlers
  /\ LET active == {r \in Reservations : IncidentOf[r] = i /\ status[r] \in Active}
     IN /\ active # {}
        /\ target' = [target EXCEPT ![q] = active]
        /\ held' = [held EXCEPT ![q] = active \cap WithStatus({"CONFIRMED"})]
        /\ step' = [step EXCEPT ![q] =
                      IF active \cap WithStatus({"CONFIRMED"}) = {} THEN "write" ELSE "count"]
  /\ UNCHANGED <<rows, late, seen, change>>

\* _get_specialist_for_update is a plain SELECT.  The first one a session makes
\* is unlocked; a later one first flushes the session's pending writes and so
\* reads under the write lock, together with WriteCancelled.
CountWorkload(q) ==
  /\ step[q] = "count"
  /\ \/ \E r \in held[q] :
          seen' = [seen EXCEPT ![q][SpecialistOf[r]] = workload[SpecialistOf[r]]]
     \/ held[q] # target[q] /\ UNCHANGED seen
  /\ step' = [step EXCEPT ![q] = "write"]
  /\ UNCHANGED <<rows, target, late, held, change>>

\* max(current_workload - 1, 0) once for every CONFIRMED row, from the workload
\* the session holds; an unchanged value is not written.
Loaded(q, s) == IF seen[q][s] = Unset THEN workload[s] ELSE seen[q][s]
\* Mutant: the workload is not given back.
ReleasedNothing(q, s) == Loaded(q, s)
Released(q, s) ==
  LET n == Cardinality(Of(s, held[q])) IN
  IF n >= Loaded(q, s) THEN 0 ELSE Loaded(q, s) - n
NewWorkload(q, s) ==
  IF Released(q, s) = Loaded(q, s) THEN workload[s] ELSE Released(q, s)

\* The commit of cancel and release.  The table's CHECK constraint refuses a
\* workload above the capacity: then nothing is written (503).
WriteCancelled(q) ==
  /\ step[q] = "write"
  /\ IF \A s \in Specialists : NewWorkload(q, s) <= capacity[s]
     THEN /\ status' = [r \in Reservations |->
                          IF r \in target[q] THEN "CANCELLED" ELSE status[r]]
          /\ workload' = [s \in Specialists |-> NewWorkload(q, s)]
     ELSE UNCHANGED <<status, workload>>
  /\ Finish(q)
  /\ UNCHANGED <<capacity, available>>

-----------------------------------------------------------------------------
\* set_specialist_capacity_for_simulation, admin_set_capacity and
\* admin_set_workload: a view is read and checked ...
Overrides(s) ==
  LET pending == Cardinality(Of(s, WithStatus({"TENTATIVE"})))
      changes == [capacity: 1..MaxCapacity, workload: 0..MaxCapacity]
  IN {c \in changes :
        \/ c.workload + pending <= c.capacity
        \/ c.workload = workload[s] /\ c.workload <= c.capacity
        \/ c.capacity = capacity[s] /\ c.workload <= c.capacity}

OverrideRead(q, s) ==
  /\ step[q] = "idle" /\ "override" \in Handlers
  /\ \E c \in Overrides(s) :
       change' = [change EXCEPT ![q][s] =
         [capacity |-> IF c.capacity = capacity[s] THEN Unset ELSE c.capacity,
          workload |-> IF c.workload = workload[s] THEN Unset ELSE c.workload]]
  /\ step' = [step EXCEPT ![q] = "override"]
  /\ UNCHANGED <<rows, target, late, held, seen>>

\* ... and the columns that differ from it are written, subject to the CHECK.
OverrideWrite(q) ==
  LET cap(s) == IF change[q][s].capacity = Unset THEN capacity[s] ELSE change[q][s].capacity
      load(s) == IF change[q][s].workload = Unset THEN workload[s] ELSE change[q][s].workload
  IN /\ step[q] = "override"
     /\ IF \A s \in Specialists : load(s) <= cap(s)
        THEN /\ capacity' = [s \in Specialists |-> cap(s)]
             /\ workload' = [s \in Specialists |-> load(s)]
        ELSE UNCHANGED <<capacity, workload>>
     /\ Finish(q)
     /\ UNCHANGED <<status, available>>

\* set_specialist_availability_for_simulation, admin_set_unavailable: one
\* column, written with a value that does not depend on what was read.
SetAvailability(s) ==
  /\ "override" \in Handlers
  /\ available' = [available EXCEPT ![s] = ~@]
  /\ UNCHANGED <<status, workload, capacity, session>>

-----------------------------------------------------------------------------
\* A reservation's expires_at passes.
Elapse(r) ==
  /\ status[r] = "TENTATIVE"
  /\ status' = [status EXCEPT ![r] = "LATE"]
  /\ UNCHANGED <<workload, capacity, available, session>>

\* The write lock is not granted in time, or the client goes away: rollback.
Abort(q) ==
  /\ step[q] # "idle"
  /\ Finish(q)
  /\ UNCHANGED rows

Next ==
  \/ \E q \in Requests :
       \/ \E r \in Reservations, h \in HandlerNames : Begin(q, h, r)
       \/ Create(q)
       \/ Confirm(q)
       \/ CancelRead(q)
       \/ CountWorkload(q)
       \/ WriteCancelled(q)
       \/ WriteExpired(q)
       \/ OverrideWrite(q)
       \/ Abort(q)
       \/ \E r \in Reservations : ReadLate(q, r)
       \/ \E i \in Incidents : ReleaseRead(q, i)
       \/ \E s \in Specialists : OverrideRead(q, s)
  \/ \E s \in Specialists : SetAvailability(s)
  \/ \E r \in Reservations : Elapse(r)

Spec == Init /\ [][Next]_vars

-----------------------------------------------------------------------------
\* Every row and every session holds values the service can hold.
TypeOK ==
  /\ status \in [Reservations -> Statuses]
  /\ workload \in [Specialists -> 0..MaxCapacity]
  /\ capacity \in [Specialists -> 1..MaxCapacity]
  /\ available \in [Specialists -> BOOLEAN]
  /\ step \in [Requests -> Steps]
  /\ target \in [Requests -> SUBSET Reservations]
  /\ late \in [Requests -> SUBSET Reservations]
  /\ held \in [Requests -> SUBSET Reservations]
  /\ seen \in [Requests -> [Specialists -> Loads]]
  /\ change \in [Requests -> [Specialists -> Changes]]

SamePair(r, o) == SpecialistOf[r] = SpecialistOf[o] /\ IncidentOf[r] = IncidentOf[o]

\* However requests interleave, at most one reservation is active for a
\* specialist and an incident (the duplicate check of create_reservation is made
\* against a clock that may be stale by the time the row is inserted).
OneActivePerPair ==
  \A r, o \in Reservations :
    SamePair(r, o) /\ status[r] \in Active /\ status[o] \in Active => r = o

\* A cancelled or expired reservation is never brought back, not even by a
\* confirm that read its clock before the reservation was closed.
ClosedStaysClosed ==
  [][\A r \in Reservations : status[r] \in Closed => status'[r] \in Closed]_vars

ConfirmedOf(s) == Of(s, WithStatus({"CONFIRMED"}))

\* current_workload counts what was seeded and the CONFIRMED reservations.
WorkloadCountsConfirmed ==
  \A s \in Specialists :
    workload[s] = InitialWorkload[s] + Cardinality(ConfirmedOf(s))

\* effective_workload never exceeds the capacity: a reservation that was
\* admitted can always be confirmed.
PendingFitsCapacity ==
  \A s \in Specialists :
    workload[s] + Cardinality(Of(s, WithStatus(Tentative))) <= capacity[s]

\* The accounting of a specialist is exact between requests: the workload is what
\* is confirmed, and what is tentative still fits beside it.
AccountingExact == WorkloadCountsConfirmed /\ PendingFitsCapacity

\* The specialist is never given more confirmed work than the capacity.
NeverOverbooked ==
  \A s \in Specialists :
    InitialWorkload[s] + Cardinality(ConfirmedOf(s)) <= capacity[s]

\* Only a TENTATIVE reservation expires.
OnlyTentativeExpires ==
  [][\A r \in Reservations :
       status[r] = "CONFIRMED" => status'[r] # "EXPIRED"]_vars
=============================================================================
