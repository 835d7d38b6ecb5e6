--------------------- MODULE WorkforceReservationsProofs ---------------------
(***************************************************************************)
(* Theorems about WorkforceReservations, for every set of specialists,     *)
(* incidents, reservations and concurrent requests.  The exact accounting  *)
(* and the fate of confirmed reservations hold when the handlers that read *)
(* before they write are serialised: ReadsHold says that what such a       *)
(* request has read still holds when it writes.                            *)
(***************************************************************************)
EXTENDS WorkforceReservations, FiniteSetTheorems, TLAPS

\* How many CONFIRMED rows a request holds for a specialist is a number.
LEMMA HeldCount ==
  ASSUME TypeOK, NEW q \in Requests, NEW s \in Specialists
  PROVE  Cardinality(Of(s, held[q])) \in Nat
<1>1. Of(s, held[q]) \subseteq Reservations
  BY DEF Of, TypeOK
<1>2. IsFiniteSet(Of(s, held[q]))
  BY <1>1, FS_Subset, ReservationAssumption
<1> QED
  BY <1>2, FS_CardinalityType

\* What a commit writes as current_workload is never negative.
LEMMA NewWorkloadNat ==
  ASSUME TypeOK, NEW q \in Requests, NEW s \in Specialists
  PROVE  NewWorkload(q, s) \in Nat
<1> DEFINE n == Cardinality(Of(s, held[q]))
<1>1. n \in Nat
  BY HeldCount
<1>2. Loaded(q, s) \in Nat
  BY CapacityAssumption DEF Loaded, TypeOK, Loads, Unset
<1>3. Released(q, s) \in Nat
  BY <1>1, <1>2 DEF Released
<1>4. workload[s] \in Nat
  BY CapacityAssumption DEF TypeOK
<1> QED
  BY <1>3, <1>4 DEF NewWorkload

\* A finished session is well typed.
LEMMA FinishType ==
  ASSUME TypeOK, NEW q \in Requests, Finish(q)
  PROVE  /\ step' \in [Requests -> Steps]
         /\ target' \in [Requests -> SUBSET Reservations]
         /\ late' \in [Requests -> SUBSET Reservations]
         /\ held' \in [Requests -> SUBSET Reservations]
         /\ seen' \in [Requests -> [Specialists -> Loads]]
         /\ change' \in [Requests -> [Specialists -> Changes]]
<1>1. NothingSeen \in [Specialists -> Loads]
  BY DEF NothingSeen, Loads
<1>2. NoChange \in [Specialists -> Changes]
  BY DEF NoChange, Changes, Loads
<1> QED
  BY <1>1, <1>2 DEF Finish, TypeOK, Steps

\* Every reachable state is well typed: the range of current_workload rests on
\* the guard of confirm_reservation and on the CHECK constraint.
THEOREM TypeCorrect == Spec => []TypeOK
<1>1. Init => TypeOK
  BY CapacityAssumption
  DEF Init, TypeOK, Statuses, Steps, NothingSeen, NoChange, Changes, Loads
<1>2. TypeOK /\ [Next]_vars => TypeOK'
  <2> SUFFICES ASSUME TypeOK, [Next]_vars PROVE TypeOK'
    OBVIOUS
  <2> USE CapacityAssumption, ReservationAssumption
  <2>1. ASSUME NEW q \in Requests, NEW h \in HandlerNames, NEW r \in Reservations,
               Begin(q, h, r)
        PROVE  TypeOK'
    BY <2>1 DEF Begin, TypeOK, Steps, rows, WithStatus
  <2>2. ASSUME NEW q \in Requests, Create(q) PROVE TypeOK'
    <3>1. status' \in [Reservations -> Statuses]
      BY <2>2 DEF Create, TypeOK, AfterExpiry, Statuses
    <3>2. Finish(q) /\ UNCHANGED <<workload, capacity, available>>
      BY <2>2 DEF Create
    <3> QED
      BY <3>1, <3>2, FinishType DEF TypeOK
  <2>3. ASSUME NEW q \in Requests, Confirm(q) PROVE TypeOK'
    <3>1. status' \in [Reservations -> Statuses]
      BY <2>3 DEF Confirm, TypeOK, AfterExpiry, Statuses
    <3>2. workload' \in [Specialists -> 0..MaxCapacity]
      <4>1. PICK r \in target[q] :
               \/ CanConfirm(q, r) /\ workload' = [workload EXCEPT ![SpecialistOf[r]] = @ + 1]
               \/ UNCHANGED workload
        BY <2>3 DEF Confirm
      <4>2. r \in Reservations /\ SpecialistOf[r] \in Specialists
        BY DEF TypeOK
      <4>3. CanConfirm(q, r) => workload[SpecialistOf[r]] + 1 \in 0..MaxCapacity
        BY <4>2 DEF CanConfirm, TypeOK
      <4> QED
        BY <4>1, <4>2, <4>3 DEF TypeOK
    <3>3. Finish(q) /\ UNCHANGED <<capacity, available>>
      BY <2>3 DEF Confirm
    <3> QED
      BY <3>1, <3>2, <3>3, FinishType DEF TypeOK
  <2>4. ASSUME NEW q \in Requests, CancelRead(q) PROVE TypeOK'
    <3>1. PICK r \in target[q] :
             \/ Finish(q)
             \/ /\ step' = [step EXCEPT ![q] =
                              CASE ExpiredAt(q, r) -> "expire"
                                [] status[r] = "CONFIRMED" -> "count"
                                [] OTHER -> "write"]
                /\ held' = [held EXCEPT ![q] = {r} \cap WithStatus({"CONFIRMED"})]
                /\ UNCHANGED <<target, late, seen, change>>
      BY <2>4 DEF CancelRead
    <3>2. UNCHANGED rows
      BY <2>4 DEF CancelRead
    <3>3. CASE Finish(q)
      BY <3>2, <3>3, FinishType DEF TypeOK, rows
    <3>4. CASE ~Finish(q)
      <4>1. step' \in [Requests -> Steps]
        BY <3>1, <3>4 DEF TypeOK, Steps
      <4>2. held' \in [Requests -> SUBSET Reservations]
        <5>1. PICK h \in SUBSET Reservations : held' = [held EXCEPT ![q] = h]
          <6>1. {r} \cap WithStatus({"CONFIRMED"}) \in SUBSET Reservations
            BY DEF WithStatus
          <6> QED
            BY <3>1, <3>4, <6>1
        <5> QED
          BY <5>1 DEF TypeOK
      <4> QED
        BY <3>1, <3>2, <3>4, <4>1, <4>2 DEF TypeOK, rows
    <3> QED
      BY <3>3, <3>4
  <2>5. ASSUME NEW q \in Requests, CountWorkload(q) PROVE TypeOK'
    <3>1. seen' \in [Requests -> [Specialists -> Loads]]
      <4>1. ASSUME NEW r \in held[q],
                   seen' = [seen EXCEPT ![q][SpecialistOf[r]] = workload[SpecialistOf[r]]]
            PROVE  seen' \in [Requests -> [Specialists -> Loads]]
        <5>1. SpecialistOf[r] \in Specialists
          BY DEF TypeOK
        <5>2. workload[SpecialistOf[r]] \in Loads
          BY <5>1 DEF TypeOK, Loads
        <5> QED
          BY <4>1, <5>1, <5>2 DEF TypeOK
      <4> QED
        BY <2>5, <4>1 DEF CountWorkload, TypeOK
    <3> QED
      BY <2>5, <3>1 DEF CountWorkload, TypeOK, Steps, rows
  <2>6. ASSUME NEW q \in Requests, WriteCancelled(q) PROVE TypeOK'
    <3>1. status' \in [Reservations -> Statuses]
      BY <2>6 DEF WriteCancelled, TypeOK, Statuses
    <3>2. workload' \in [Specialists -> 0..MaxCapacity]
      BY <2>6, NewWorkloadNat DEF WriteCancelled, TypeOK
    <3>3. Finish(q) /\ UNCHANGED <<capacity, available>>
      BY <2>6 DEF WriteCancelled
    <3> QED
      BY <3>1, <3>2, <3>3, FinishType DEF TypeOK
  <2>7. ASSUME NEW q \in Requests, WriteExpired(q) PROVE TypeOK'
    <3>1. status' \in [Reservations -> Statuses]
      BY <2>7 DEF WriteExpired, TypeOK, Statuses
    <3>2. Finish(q) /\ UNCHANGED <<workload, capacity, available>>
      BY <2>7 DEF WriteExpired
    <3> QED
      BY <3>1, <3>2, FinishType DEF TypeOK
  <2>8. ASSUME NEW q \in Requests, OverrideWrite(q) PROVE TypeOK'
    <3>1. /\ capacity' \in [Specialists -> 1..MaxCapacity]
          /\ workload' \in [Specialists -> 0..MaxCapacity]
      <4> DEFINE cap(s) == IF change[q][s].capacity = Unset THEN capacity[s]
                           ELSE change[q][s].capacity
                 load(s) == IF change[q][s].workload = Unset THEN workload[s]
                            ELSE change[q][s].workload
      <4>1. \/ UNCHANGED <<capacity, workload>>
            \/ /\ \A s \in Specialists : load(s) <= cap(s)
               /\ capacity' = [s \in Specialists |-> cap(s)]
               /\ workload' = [s \in Specialists |-> load(s)]
        BY <2>8 DEF OverrideWrite
      <4>2. ASSUME NEW s \in Specialists
            PROVE  cap(s) \in 1..MaxCapacity /\ load(s) \in 0..MaxCapacity
        <5>1. change[q][s] \in Changes
          BY DEF TypeOK
        <5> QED
          BY <5>1 DEF TypeOK, Changes, Loads, Unset
      <4> QED
        BY <4>1, <4>2 DEF TypeOK
    <3>2. Finish(q) /\ UNCHANGED <<status, available>>
      BY <2>8 DEF OverrideWrite
    <3> QED
      BY <3>1, <3>2, FinishType DEF TypeOK
  <2>9. ASSUME NEW q \in Requests, Abort(q) PROVE TypeOK'
    BY <2>9, FinishType DEF Abort, TypeOK, rows
  <2>10. ASSUME NEW q \in Requests, NEW r \in Reservations, ReadLate(q, r) PROVE TypeOK'
    BY <2>10 DEF ReadLate, TypeOK, Steps, rows
  <2>11. ASSUME NEW q \in Requests, NEW i \in Incidents, ReleaseRead(q, i) PROVE TypeOK'
    <3>1. step' \in [Requests -> Steps]
      BY <2>11 DEF ReleaseRead, TypeOK, Steps
    <3>2. target' \in [Requests -> SUBSET Reservations] /\ held' \in [Requests -> SUBSET Reservations]
      BY <2>11 DEF ReleaseRead, TypeOK
    <3> QED
      BY <2>11, <3>1, <3>2 DEF ReleaseRead, TypeOK, rows
  <2>12. ASSUME NEW q \in Requests, NEW s \in Specialists, OverrideRead(q, s) PROVE TypeOK'
    <3>1. PICK c \in Overrides(s) :
             change' = [change EXCEPT ![q][s] =
               [capacity |-> IF c.capacity = capacity[s] THEN Unset ELSE c.capacity,
                workload |-> IF c.workload = workload[s] THEN Unset ELSE c.workload]]
      BY <2>12 DEF OverrideRead
    <3>2. c \in [capacity: 1..MaxCapacity, workload: 0..MaxCapacity]
      BY <3>1 DEF Overrides
    <3>3. change' \in [Requests -> [Specialists -> Changes]]
      BY <3>1, <3>2 DEF TypeOK, Changes, Loads
    <3> QED
      BY <2>12, <3>3 DEF OverrideRead, TypeOK, Steps, rows
  <2>13. ASSUME NEW s \in Specialists, SetAvailability(s) PROVE TypeOK'
    BY <2>13 DEF SetAvailability, TypeOK, session
  <2>14. ASSUME NEW r \in Reservations, Elapse(r) PROVE TypeOK'
    BY <2>14 DEF Elapse, TypeOK, Statuses, session
  <2>15. CASE UNCHANGED vars
    BY <2>15 DEF TypeOK, vars, rows, session
  <2> QED
    BY <2>1, <2>2, <2>3, <2>4, <2>5, <2>6, <2>7, <2>8, <2>9, <2>10, <2>11,
       <2>12, <2>13, <2>14, <2>15 DEF Next
<1> QED
  BY <1>1, <1>2, PTL DEF Spec

-----------------------------------------------------------------------------
\* What one step can do to the reservations: a create inserts one and expires
\* the rows its clock says are late; any other step only confirms a row it
\* sees TENTATIVE, closes rows, or lets one become late.
Inserts(q, r) ==
  /\ CanCreate(q, r)
  /\ status' = [o \in Reservations |-> IF o = r THEN "TENTATIVE" ELSE AfterExpiry(q, o)]

NothingOpens ==
  \A r \in Reservations : status'[r] \in Active => status[r] \in Active

\* Only an insertion makes a reservation active.
LEMMA StatusStep ==
  ASSUME TypeOK, [Next]_vars
  PROVE  \/ \E q \in Requests, r \in Reservations : Inserts(q, r)
         \/ NothingOpens
<1> USE DEF NothingOpens, Active, Tentative
<1>1. ASSUME NEW q \in Requests, NEW h \in HandlerNames, NEW r \in Reservations,
             Begin(q, h, r)
      PROVE  NothingOpens
  BY <1>1 DEF Begin, rows
<1>2. ASSUME NEW q \in Requests, Create(q)
      PROVE  NothingOpens \/ \E r \in Reservations : Inserts(q, r)
  BY <1>2 DEF Create, Inserts, TypeOK
<1>3. ASSUME NEW q \in Requests, Confirm(q) PROVE NothingOpens
  BY <1>3 DEF Confirm, CanConfirm, AfterExpiry, TypeOK
<1>4. ASSUME NEW q \in Requests, CancelRead(q) PROVE NothingOpens
  BY <1>4 DEF CancelRead, rows
<1>5. ASSUME NEW q \in Requests, CountWorkload(q) PROVE NothingOpens
  BY <1>5 DEF CountWorkload, rows
<1>6. ASSUME NEW q \in Requests, WriteCancelled(q) PROVE NothingOpens
  BY <1>6 DEF WriteCancelled, TypeOK
<1>7. ASSUME NEW q \in Requests, WriteExpired(q) PROVE NothingOpens
  BY <1>7 DEF WriteExpired, TypeOK
<1>8. ASSUME NEW q \in Requests, OverrideWrite(q) PROVE NothingOpens
  BY <1>8 DEF OverrideWrite
<1>9. ASSUME NEW q \in Requests, Abort(q) PROVE NothingOpens
  BY <1>9 DEF Abort, rows
<1>10. ASSUME NEW q \in Requests, NEW r \in Reservations, ReadLate(q, r) PROVE NothingOpens
  BY <1>10 DEF ReadLate, rows
<1>11. ASSUME NEW q \in Requests, NEW i \in Incidents, ReleaseRead(q, i) PROVE NothingOpens
  BY <1>11 DEF ReleaseRead, rows
<1>12. ASSUME NEW q \in Requests, NEW s \in Specialists, OverrideRead(q, s) PROVE NothingOpens
  BY <1>12 DEF OverrideRead, rows
<1>13. ASSUME NEW s \in Specialists, SetAvailability(s) PROVE NothingOpens
  BY <1>13 DEF SetAvailability
<1>14. ASSUME NEW r \in Reservations, Elapse(r) PROVE NothingOpens
  BY <1>14 DEF Elapse, TypeOK
<1>15. CASE UNCHANGED vars
  BY <1>15 DEF vars, rows
<1> QED
  BY <1>1, <1>2, <1>3, <1>4, <1>5, <1>6, <1>7, <1>8, <1>9, <1>10, <1>11,
     <1>12, <1>13, <1>14, <1>15 DEF Next

\* A row that was late when a request read its clock has left TENTATIVE for
\* good: only LATE, CONFIRMED and the closed states remain for it.
LateSound ==
  \A q \in Requests : \A r \in late[q] : status[r] \notin {"ABSENT", "TENTATIVE"}

\* No step leads back to ABSENT or TENTATIVE, except the insert of an ABSENT row.
LEMMA StatusNeverFresh ==
  ASSUME TypeOK, [Next]_vars, NEW r \in Reservations,
         status[r] \notin {"ABSENT", "TENTATIVE"}
  PROVE  status'[r] \notin {"ABSENT", "TENTATIVE"}
<1>1. ASSUME NEW q \in Requests, Create(q) PROVE status'[r] \notin {"ABSENT", "TENTATIVE"}
  BY <1>1 DEF Create, CanCreate, AfterExpiry, TypeOK
<1>2. ASSUME NEW q \in Requests, Confirm(q) PROVE status'[r] \notin {"ABSENT", "TENTATIVE"}
  BY <1>2 DEF Confirm, AfterExpiry, TypeOK
<1>3. ASSUME NEW q \in Requests, WriteCancelled(q) PROVE status'[r] \notin {"ABSENT", "TENTATIVE"}
  BY <1>3 DEF WriteCancelled, TypeOK
<1>4. ASSUME NEW q \in Requests, WriteExpired(q) PROVE status'[r] \notin {"ABSENT", "TENTATIVE"}
  BY <1>4 DEF WriteExpired, TypeOK
<1>5. ASSUME NEW x \in Reservations, Elapse(x) PROVE status'[r] \notin {"ABSENT", "TENTATIVE"}
  BY <1>5 DEF Elapse, TypeOK
<1>6. ASSUME NEW q \in Requests,
             \/ \E x \in Reservations, h \in HandlerNames : Begin(q, h, x)
             \/ CancelRead(q) \/ CountWorkload(q) \/ OverrideWrite(q) \/ Abort(q)
             \/ \E x \in Reservations : ReadLate(q, x)
             \/ \E i \in Incidents : ReleaseRead(q, i)
             \/ \E s \in Specialists : OverrideRead(q, s)
      PROVE  UNCHANGED status
  BY <1>6 DEF Begin, CancelRead, CountWorkload, OverrideWrite, Abort, ReadLate,
              ReleaseRead, OverrideRead, rows
<1>7. ASSUME NEW s \in Specialists, SetAvailability(s) PROVE UNCHANGED status
  BY <1>7 DEF SetAvailability
<1>8. CASE UNCHANGED vars
  BY <1>8 DEF vars, rows
<1> QED
  BY <1>1, <1>2, <1>3, <1>4, <1>5, <1>6, <1>7, <1>8 DEF Next

\* A request's clock reading changes only when the request begins or ends.
LEMMA LateStep ==
  ASSUME TypeOK, [Next]_vars, NEW q \in Requests
  PROVE  late'[q] \in {late[q], {}, WithStatus({"LATE"})}
<1> DEFINE Kept == late'[q] \in {late[q], {}, WithStatus({"LATE"})}
<1>1. ASSUME NEW p \in Requests, Finish(p) PROVE Kept
  BY <1>1 DEF Finish, TypeOK
<1>2. ASSUME NEW p \in Requests, NEW x \in Reservations, NEW h \in HandlerNames,
             Begin(p, h, x)
      PROVE  Kept
  BY <1>2 DEF Begin, TypeOK
<1>3. ASSUME NEW p \in Requests,
             \/ Create(p) \/ Confirm(p) \/ WriteCancelled(p) \/ WriteExpired(p)
             \/ OverrideWrite(p) \/ Abort(p)
      PROVE  Kept
  BY <1>1, <1>3 DEF Create, Confirm, WriteCancelled, WriteExpired, OverrideWrite, Abort
<1>4. ASSUME NEW p \in Requests, CancelRead(p) PROVE Kept
  BY <1>1, <1>4 DEF CancelRead
<1>5. ASSUME NEW p \in Requests,
             \/ CountWorkload(p)
             \/ \E x \in Reservations : ReadLate(p, x)
             \/ \E i \in Incidents : ReleaseRead(p, i)
             \/ \E s \in Specialists : OverrideRead(p, s)
      PROVE  Kept
  BY <1>5 DEF CountWorkload, ReadLate, ReleaseRead, OverrideRead
<1>6. ASSUME NEW s \in Specialists, SetAvailability(s) PROVE Kept
  BY <1>6 DEF SetAvailability, session
<1>7. ASSUME NEW x \in Reservations, Elapse(x) PROVE Kept
  BY <1>7 DEF Elapse, session
<1>8. CASE UNCHANGED vars
  BY <1>8 DEF vars, session
<1> QED
  BY <1>2, <1>3, <1>4, <1>5, <1>6, <1>7, <1>8 DEF Next

\* What a request read as late stays late.
LEMMA LateInvariant == Spec => []LateSound
<1>1. Init => LateSound
  BY DEF Init, LateSound
<1>2. TypeOK /\ LateSound /\ [Next]_vars => LateSound'
  <2> SUFFICES ASSUME TypeOK, LateSound, [Next]_vars,
                      NEW q \in Requests, NEW r \in late'[q]
               PROVE  status'[r] \notin {"ABSENT", "TENTATIVE"}
    BY DEF LateSound
  <2>1. r \in Reservations /\ status[r] \notin {"ABSENT", "TENTATIVE"}
    BY LateStep DEF LateSound, TypeOK, WithStatus
  <2> QED
    BY <2>1, StatusNeverFresh
<1> QED
  BY <1>1, <1>2, TypeCorrect, PTL DEF Spec

\* One step and the closed reservations.
LEMMA ClosedStep ==
  ASSUME TypeOK, [Next]_vars, NEW r \in Reservations, status[r] \in Closed
  PROVE  status'[r] \in Closed
<1> USE DEF Closed, Tentative
<1>1. ASSUME NEW q \in Requests, Create(q) PROVE status'[r] \in Closed
  BY <1>1 DEF Create, CanCreate, AfterExpiry, ExpiredAt, TypeOK
<1>2. ASSUME NEW q \in Requests, Confirm(q) PROVE status'[r] \in Closed
  BY <1>2 DEF Confirm, CanConfirm, AfterExpiry, ExpiredAt, TypeOK
<1>3. ASSUME NEW q \in Requests, WriteCancelled(q) PROVE status'[r] \in Closed
  BY <1>3 DEF WriteCancelled, TypeOK
<1>4. ASSUME NEW q \in Requests, WriteExpired(q) PROVE status'[r] \in Closed
  BY <1>4 DEF WriteExpired, TypeOK
<1>5. ASSUME NEW x \in Reservations, Elapse(x) PROVE status'[r] \in Closed
  BY <1>5 DEF Elapse, TypeOK
<1>6. ASSUME NEW q \in Requests,
             \/ \E x \in Reservations, h \in HandlerNames : Begin(q, h, x)
             \/ CancelRead(q) \/ CountWorkload(q) \/ OverrideWrite(q) \/ Abort(q)
             \/ \E x \in Reservations : ReadLate(q, x)
             \/ \E i \in Incidents : ReleaseRead(q, i)
             \/ \E s \in Specialists : OverrideRead(q, s)
      PROVE  UNCHANGED status
  BY <1>6 DEF Begin, CancelRead, CountWorkload, OverrideWrite, Abort, ReadLate,
              ReleaseRead, OverrideRead, rows
<1>7. ASSUME NEW s \in Specialists, SetAvailability(s) PROVE UNCHANGED status
  BY <1>7 DEF SetAvailability
<1>8. CASE UNCHANGED vars
  BY <1>8 DEF vars, rows
<1> QED
  BY <1>1, <1>2, <1>3, <1>4, <1>5, <1>6, <1>7, <1>8 DEF Next

\* The duplicate check is sound under every interleaving: the expiry UPDATE and
\* the check use one clock, so a row the check overlooks as late has been
\* expired by the same transaction that inserts its replacement.
THEOREM OneActive == Spec => []OneActivePerPair
<1>1. Init => OneActivePerPair
  BY DEF Init, OneActivePerPair, Active, Tentative
<1>2. TypeOK /\ LateSound /\ OneActivePerPair /\ [Next]_vars => OneActivePerPair'
  <2> SUFFICES ASSUME TypeOK, LateSound, OneActivePerPair, [Next]_vars,
                      NEW r \in Reservations, NEW o \in Reservations,
                      SamePair(r, o), status'[r] \in Active, status'[o] \in Active
               PROVE  r = o
    BY DEF OneActivePerPair, SamePair
  <2>1. CASE NothingOpens
    BY <2>1 DEF NothingOpens, OneActivePerPair
  <2>2. CASE \E q \in Requests, n \in Reservations : Inserts(q, n)
    <3>1. PICK q \in Requests, n \in Reservations : Inserts(q, n)
      BY <2>2
    <3>2. ASSUME NEW x \in Reservations, x # n, SamePair(x, n)
          PROVE  status'[x] \notin Active
      <4>1. status'[x] = AfterExpiry(q, x)
        BY <3>1, <3>2 DEF Inserts
      <4>2. \/ status[x] \notin Active
            \/ status[x] = "LATE" /\ x \in late[q]
        BY <3>1, <3>2 DEF Inserts, CanCreate, ActiveDuplicate, SamePair, Active, Tentative, LateSound
      <4>3. CASE status[x] = "LATE" /\ x \in late[q]
        BY <4>1, <4>3 DEF AfterExpiry, ExpiredAt, Active, Tentative
      <4>4. CASE status[x] \notin Active
        BY <4>1, <4>4 DEF AfterExpiry, ExpiredAt, Active, Tentative
      <4> QED
        BY <4>2, <4>3, <4>4
    <3>3. CASE r = n \/ o = n
      BY <3>2, <3>3 DEF SamePair
    <3>4. CASE r # n /\ o # n
      <4>1. status'[r] = AfterExpiry(q, r) /\ status'[o] = AfterExpiry(q, o)
        BY <3>1, <3>4 DEF Inserts
      <4>2. status[r] \in Active /\ status[o] \in Active
        BY <4>1 DEF AfterExpiry, Active, Tentative
      <4> QED
        BY <4>2 DEF OneActivePerPair
    <3> QED
      BY <3>3, <3>4
  <2> QED
    BY <2>1, <2>2, StatusStep
<1> QED
  BY <1>1, <1>2, TypeCorrect, LateInvariant, PTL DEF Spec

\* A closed reservation stays closed, whatever the requests in flight had read
\* before it was closed.
THEOREM ClosedForGood == Spec => ClosedStaysClosed
<1>1. TypeOK /\ [Next]_vars =>
        [\A r \in Reservations : status[r] \in Closed => status'[r] \in Closed]_vars
  <2> SUFFICES ASSUME TypeOK, [Next]_vars, NEW r \in Reservations, status[r] \in Closed
               PROVE  status'[r] \in Closed
    OBVIOUS
  <2> QED
    BY ClosedStep
<1> QED
  BY <1>1, TypeCorrect, PTL DEF Spec, ClosedStaysClosed

-----------------------------------------------------------------------------
\* The accounting of a specialist when no handler reads the rows in one
\* transaction and writes them in a later one beside another request: either
\* the clients only create and confirm, whose reads are made under the write
\* lock, however many of them are in flight, or one request runs at a time.
\* Nobody overrides a workload or a capacity by hand.
Undivided == {"create", "confirm"}
Alone(q) == \A p \in Requests : p = q
Serialised ==
  /\ "override" \notin Handlers
  /\ \/ Handlers \subseteq Undivided
     \/ \A q \in Requests : Alone(q)

Pending(s) == Of(s, WithStatus(Tentative))

\* What a request has read still holds when it writes: its targets are active,
\* it knows which of them are CONFIRMED, and its workloads are the recorded ones.
ReadsHold(q) ==
  /\ step[q] # "override"
  /\ step[q] \notin {"idle"} \cup Undivided => Alone(q)
  /\ step[q] = "cancel" => \A r, o \in target[q] : r = o
  /\ step[q] \in {"count", "write"} =>
       /\ held[q] = target[q] \cap WithStatus({"CONFIRMED"})
       /\ target[q] \subseteq WithStatus(Active)
  /\ step[q] = "expire" => target[q] \subseteq WithStatus({"LATE"})
  /\ step[q] # "write" => seen[q] = NothingSeen
  /\ step[q] = "write" =>
       \A s \in Specialists : seen[q][s] \in {Unset, workload[s]}

AccountingInv == AccountingExact /\ \A q \in Requests : ReadsHold(q)

\* A specialist's reservations are counted by a number.
LEMMA RowsCounted ==
  ASSUME NEW S, S \subseteq Reservations
  PROVE  IsFiniteSet(S) /\ Cardinality(S) \in Nat
BY FS_Subset, FS_CardinalityType, ReservationAssumption

\* Fewer rows, a smaller count.
LEMMA FewerRows ==
  ASSUME NEW S, NEW T, S \subseteq T, T \subseteq Reservations
  PROVE  Cardinality(S) <= Cardinality(T)
BY RowsCounted, FS_Subset

\* One row taken away, or none.
LEMMA RowTaken ==
  ASSUME NEW S, NEW T, NEW r, S \subseteq Reservations, r \in S, T \subseteq S \ {r}
  PROVE  Cardinality(T) + 1 <= Cardinality(S)
<1>1. Cardinality(S \ {r}) = Cardinality(S) - 1
  BY RowsCounted, FS_RemoveElement
<1>2. Cardinality(T) <= Cardinality(S \ {r})
  BY FewerRows
<1>3. Cardinality(S) \in Nat /\ Cardinality(T) \in Nat
  BY RowsCounted
<1> QED
  BY <1>1, <1>2, <1>3

\* One row more.
LEMMA RowAdded ==
  ASSUME NEW S, NEW T, NEW r, S \subseteq Reservations, r \notin S, T = S \cup {r}
  PROVE  Cardinality(T) = Cardinality(S) + 1
BY RowsCounted, FS_AddElement

\* Some of the rows taken away.
LEMMA RowsTaken ==
  ASSUME NEW S, NEW T, S \subseteq Reservations, T \subseteq S
  PROVE  Cardinality(S \ T) = Cardinality(S) - Cardinality(T)
<1>1. IsFiniteSet(S) /\ IsFiniteSet(T)
  BY RowsCounted
<1>2. S \cap T = T
  OBVIOUS
<1> QED
  BY <1>1, <1>2, FS_Difference

\* A create inserts a row where the rows still pending leave room for it.
LEMMA CreateCounts ==
  ASSUME TypeOK, LateSound, AccountingExact, NEW q \in Requests, Create(q)
  PROVE  AccountingExact'
<1> USE DEF Of, WithStatus, Tentative
<1>1. PICK r \in target[q] :
         \/ /\ CanCreate(q, r)
            /\ status' = [o \in Reservations |->
                            IF o = r THEN "TENTATIVE" ELSE AfterExpiry(q, o)]
         \/ UNCHANGED status
  BY DEF Create
<1>2. r \in Reservations /\ UNCHANGED <<workload, capacity>>
  BY DEF Create, TypeOK
<1>3. CASE UNCHANGED status
  BY <1>2, <1>3
  DEF AccountingExact, WorkloadCountsConfirmed, PendingFitsCapacity, ConfirmedOf
<1>4. CASE /\ CanCreate(q, r)
           /\ status' = [o \in Reservations |->
                           IF o = r THEN "TENTATIVE" ELSE AfterExpiry(q, o)]
  <2>1. \A s \in Specialists : ConfirmedOf(s)' = ConfirmedOf(s)
    BY <1>2, <1>4 DEF ConfirmedOf, CanCreate, AfterExpiry, ExpiredAt
  <2>2. WorkloadCountsConfirmed'
    BY <1>2, <2>1 DEF WorkloadCountsConfirmed, AccountingExact
  <2>3. ASSUME NEW s \in Specialists
        PROVE  workload[s] + Cardinality(Pending(s)') <= capacity[s]
    <3>1. /\ workload[s] \in Nat /\ capacity[s] \in Nat
          /\ workload[s] + Cardinality(Pending(s)) <= capacity[s]
      BY CapacityAssumption DEF TypeOK, AccountingExact, PendingFitsCapacity, Pending
    <3>2. Pending(s) \subseteq Reservations /\ Pending(s)' \subseteq Reservations
      BY DEF Pending
    <3>3. Cardinality(Pending(s)) \in Nat /\ Cardinality(Pending(s)') \in Nat
      BY <3>2, RowsCounted
    <3>4. CASE SpecialistOf[r] = s
      <4>1. Pending(s)' = ActivePending(q, s) \cup {r}
        BY <1>2, <1>4, <3>4 DEF Pending, ActivePending, AfterExpiry, ExpiredAt, LateSound
      <4>2. r \notin ActivePending(q, s) /\ ActivePending(q, s) \subseteq Reservations
        BY <1>4 DEF ActivePending, CanCreate
      <4>3. Cardinality(Pending(s)') = Cardinality(ActivePending(q, s)) + 1
        BY <4>1, <4>2, RowAdded
      <4>4. Cardinality(ActivePending(q, s)) \in Nat
        BY <4>2, RowsCounted
      <4>5. workload[s] + Cardinality(ActivePending(q, s)) < capacity[s]
        BY <1>4, <3>4 DEF CanCreate
      <4> QED
        BY <3>1, <4>3, <4>4, <4>5
    <3>5. CASE SpecialistOf[r] # s
      <4>1. Pending(s)' \subseteq Pending(s)
        BY <1>2, <1>4, <3>5 DEF Pending, AfterExpiry
      <4>2. Cardinality(Pending(s)') <= Cardinality(Pending(s))
        BY <3>2, <4>1, FewerRows
      <4> QED
        BY <3>1, <3>3, <4>2
    <3> QED
      BY <3>4, <3>5
  <2> QED
    BY <1>2, <2>2, <2>3 DEF AccountingExact, PendingFitsCapacity, Pending
<1> QED
  BY <1>1, <1>3, <1>4

\* A confirmation moves one row, and one unit of work, from pending to confirmed.
LEMMA ConfirmCounts ==
  ASSUME TypeOK, AccountingExact, NEW q \in Requests, Confirm(q)
  PROVE  AccountingExact'
<1> USE DEF Of, WithStatus, Tentative
<1>1. PICK r \in target[q] :
         \/ /\ CanConfirm(q, r)
            /\ status' = [o \in Reservations |->
                            IF o = r THEN "CONFIRMED" ELSE AfterExpiry(q, o)]
            /\ workload' = [workload EXCEPT ![SpecialistOf[r]] = @ + 1]
         \/ UNCHANGED <<status, workload>>
  BY DEF Confirm
<1>2. r \in Reservations /\ SpecialistOf[r] \in Specialists /\ UNCHANGED capacity
  BY ReservationAssumption DEF Confirm, TypeOK
<1>3. CASE UNCHANGED <<status, workload>>
  BY <1>2, <1>3
  DEF AccountingExact, WorkloadCountsConfirmed, PendingFitsCapacity, ConfirmedOf
<1>4. CASE /\ CanConfirm(q, r)
           /\ status' = [o \in Reservations |->
                           IF o = r THEN "CONFIRMED" ELSE AfterExpiry(q, o)]
           /\ workload' = [workload EXCEPT ![SpecialistOf[r]] = @ + 1]
  <2>1. status[r] \in Tentative
    BY <1>4 DEF CanConfirm, AfterExpiry
  <2>2. ASSUME NEW s \in Specialists
        PROVE  /\ workload'[s] = InitialWorkload[s] + Cardinality(ConfirmedOf(s)')
               /\ workload'[s] + Cardinality(Pending(s)') <= capacity[s]
    <3>1. /\ workload[s] \in Nat /\ capacity[s] \in Nat /\ InitialWorkload[s] \in Nat
          /\ workload[s] = InitialWorkload[s] + Cardinality(ConfirmedOf(s))
          /\ workload[s] + Cardinality(Pending(s)) <= capacity[s]
      BY CapacityAssumption
      DEF TypeOK, AccountingExact, PendingFitsCapacity, WorkloadCountsConfirmed, Pending
    <3>2. /\ Pending(s) \subseteq Reservations /\ Pending(s)' \subseteq Reservations
          /\ ConfirmedOf(s) \subseteq Reservations
      BY DEF Pending, ConfirmedOf
    <3>3. /\ Cardinality(Pending(s)) \in Nat /\ Cardinality(Pending(s)') \in Nat
          /\ Cardinality(ConfirmedOf(s)) \in Nat
      BY <3>2, RowsCounted
    <3>4. CASE SpecialistOf[r] = s
      <4>1. ConfirmedOf(s)' = ConfirmedOf(s) \cup {r} /\ r \notin ConfirmedOf(s)
        BY <1>2, <1>4, <2>1, <3>4 DEF ConfirmedOf, AfterExpiry, ExpiredAt
      <4>2. Pending(s)' \subseteq Pending(s) \ {r} /\ r \in Pending(s)
        BY <1>2, <1>4, <2>1, <3>4 DEF Pending, AfterExpiry
      <4>3. Cardinality(ConfirmedOf(s)') = Cardinality(ConfirmedOf(s)) + 1
        BY <3>2, <4>1, RowAdded
      <4>4. Cardinality(Pending(s)') + 1 <= Cardinality(Pending(s))
        BY <3>2, <4>2, RowTaken
      <4>5. workload'[s] = workload[s] + 1
        BY <1>4, <3>4 DEF TypeOK
      <4> QED
        BY <3>1, <3>3, <4>3, <4>4, <4>5
    <3>5. CASE SpecialistOf[r] # s
      <4>1. ConfirmedOf(s)' = ConfirmedOf(s)
        BY <1>2, <1>4, <3>5 DEF ConfirmedOf, AfterExpiry, ExpiredAt
      <4>2. Pending(s)' \subseteq Pending(s)
        BY <1>2, <1>4, <3>5 DEF Pending, AfterExpiry
      <4>3. Cardinality(Pending(s)') <= Cardinality(Pending(s))
        BY <3>2, <4>2, FewerRows
      <4>4. workload'[s] = workload[s]
        BY <1>4, <3>5 DEF TypeOK
      <4> QED
        BY <3>1, <3>3, <4>1, <4>3, <4>4
    <3> QED
      BY <3>4, <3>5
  <2> QED
    BY <1>2, <2>2
    DEF AccountingExact, PendingFitsCapacity, WorkloadCountsConfirmed, Pending
<1> QED
  BY <1>1, <1>3, <1>4

\* The commit of a cancel or release gives back exactly the work it closes:
\* max(current_workload - 1, 0) never meets its lower limit.
LEMMA GivenBack ==
  ASSUME TypeOK, AccountingExact, NEW q \in Requests, ReadsHold(q),
         step[q] = "write", NEW s \in Specialists
  PROVE  /\ Of(s, held[q]) \subseteq ConfirmedOf(s)
         /\ NewWorkload(q, s) = workload[s] - Cardinality(Of(s, held[q]))
<1> DEFINE n == Cardinality(Of(s, held[q]))
<1>1. Of(s, held[q]) \subseteq ConfirmedOf(s) /\ ConfirmedOf(s) \subseteq Reservations
  BY DEF ReadsHold, Of, ConfirmedOf, WithStatus
<1>2. n \in Nat /\ Cardinality(ConfirmedOf(s)) \in Nat /\ n <= Cardinality(ConfirmedOf(s))
  BY <1>1, RowsCounted, FewerRows
<1>3. /\ workload[s] \in Nat /\ InitialWorkload[s] \in Nat
      /\ workload[s] = InitialWorkload[s] + Cardinality(ConfirmedOf(s))
  BY CapacityAssumption DEF TypeOK, AccountingExact, WorkloadCountsConfirmed
<1>4. Loaded(q, s) = workload[s]
  BY DEF ReadsHold, Loaded
<1>5. Released(q, s) = workload[s] - n
  BY <1>2, <1>3, <1>4 DEF Released
<1> QED
  BY <1>1, <1>3, <1>4, <1>5 DEF NewWorkload

\* A cancellation takes off the workload what it takes off the rows.
LEMMA CancelCounts ==
  ASSUME TypeOK, AccountingExact, NEW q \in Requests, ReadsHold(q), WriteCancelled(q)
  PROVE  AccountingExact'
<1>1. step[q] = "write" /\ UNCHANGED capacity
  BY DEF WriteCancelled
<1>2. CASE UNCHANGED <<status, workload>>
  BY <1>1, <1>2
  DEF AccountingExact, WorkloadCountsConfirmed, PendingFitsCapacity, ConfirmedOf, Of,
      WithStatus
<1>3. CASE /\ status' = [r \in Reservations |->
                           IF r \in target[q] THEN "CANCELLED" ELSE status[r]]
           /\ workload' = [s \in Specialists |-> NewWorkload(q, s)]
  <2>1. ASSUME NEW s \in Specialists
        PROVE  /\ workload'[s] = InitialWorkload[s] + Cardinality(ConfirmedOf(s)')
               /\ workload'[s] + Cardinality(Pending(s)') <= capacity[s]
    <3> DEFINE gone == Of(s, held[q])
    <3>1. gone \subseteq ConfirmedOf(s) /\ workload'[s] = workload[s] - Cardinality(gone)
      BY <1>1, <1>3, GivenBack
    <3>2. /\ workload[s] \in Nat /\ capacity[s] \in Nat /\ InitialWorkload[s] \in Nat
          /\ workload[s] = InitialWorkload[s] + Cardinality(ConfirmedOf(s))
          /\ workload[s] + Cardinality(Pending(s)) <= capacity[s]
      BY CapacityAssumption
      DEF TypeOK, AccountingExact, PendingFitsCapacity, WorkloadCountsConfirmed, Pending
    <3>3. Pending(s) \subseteq Reservations /\ ConfirmedOf(s) \subseteq Reservations
      BY DEF Pending, ConfirmedOf, Of, WithStatus
    <3>4. ConfirmedOf(s)' = ConfirmedOf(s) \ gone
      BY <1>1, <1>3 DEF ReadsHold, ConfirmedOf, Of, WithStatus, TypeOK
    <3>5. Pending(s)' \subseteq Pending(s)
      BY <1>3 DEF Pending, Of, WithStatus, Tentative
    <3>6. /\ Cardinality(gone) \in Nat /\ Cardinality(ConfirmedOf(s)) \in Nat
          /\ Cardinality(Pending(s)) \in Nat /\ Cardinality(Pending(s)') \in Nat
      BY <3>1, <3>3, <3>5, RowsCounted
    <3>7. Cardinality(ConfirmedOf(s)') = Cardinality(ConfirmedOf(s)) - Cardinality(gone)
      BY <3>1, <3>3, <3>4, RowsTaken
    <3>8. Cardinality(Pending(s)') <= Cardinality(Pending(s))
      BY <3>3, <3>5, FewerRows
    <3> QED
      BY <3>1, <3>2, <3>6, <3>7, <3>8
  <2> QED
    BY <1>1, <2>1
    DEF AccountingExact, PendingFitsCapacity, WorkloadCountsConfirmed, Pending
<1> QED
  BY <1>2, <1>3 DEF WriteCancelled

\* Every other step leaves the confirmed rows and the workload alone, and adds
\* nothing to what is pending.
LEMMA OthersCount ==
  ASSUME TypeOK, AccountingExact, UNCHANGED <<workload, capacity>>,
         NEW s \in Specialists,
         ConfirmedOf(s)' = ConfirmedOf(s), Pending(s)' \subseteq Pending(s)
  PROVE  /\ workload'[s] = InitialWorkload[s] + Cardinality(ConfirmedOf(s)')
         /\ workload'[s] + Cardinality(Pending(s)') <= capacity'[s]
<1>1. /\ workload[s] \in Nat /\ capacity[s] \in Nat
      /\ workload[s] = InitialWorkload[s] + Cardinality(ConfirmedOf(s))
      /\ workload[s] + Cardinality(Pending(s)) <= capacity[s]
  BY CapacityAssumption
  DEF TypeOK, AccountingExact, PendingFitsCapacity, WorkloadCountsConfirmed, Pending
<1>2. Pending(s) \subseteq Reservations
  BY DEF Pending, Of, WithStatus
<1>3. /\ Cardinality(Pending(s)) \in Nat /\ Cardinality(Pending(s)') \in Nat
      /\ Cardinality(Pending(s)') <= Cardinality(Pending(s))
  BY <1>2, RowsCounted, FewerRows
<1> QED
  BY <1>1, <1>3


\* A step that confirms nothing, closes nothing confirmed and adds nothing pending.
CountsKept ==
  /\ UNCHANGED <<workload, capacity>>
  /\ \A s \in Specialists : /\ ConfirmedOf(s)' = ConfirmedOf(s)
                            /\ Pending(s)' \subseteq Pending(s)

\* Every other step counts what it confirms.
LEMMA AccountingStep ==
  ASSUME "override" \notin Handlers, TypeOK, LateSound, AccountingInv, [Next]_vars
  PROVE  AccountingExact'
<1>1. AccountingExact /\ \A q \in Requests : ReadsHold(q)
  BY DEF AccountingInv
<1>2. CountsKept => AccountingExact'
  BY <1>1, OthersCount
  DEF CountsKept, AccountingExact, PendingFitsCapacity, WorkloadCountsConfirmed, Pending
<1>3. UNCHANGED rows => CountsKept
  BY DEF CountsKept, rows, ConfirmedOf, Pending, Of, WithStatus
<1>4. ASSUME NEW q \in Requests, Create(q) PROVE AccountingExact'
  BY <1>1, <1>4, CreateCounts
<1>5. ASSUME NEW q \in Requests, Confirm(q) PROVE AccountingExact'
  BY <1>1, <1>5, ConfirmCounts
<1>6. ASSUME NEW q \in Requests, WriteCancelled(q) PROVE AccountingExact'
  BY <1>1, <1>6, CancelCounts
<1>7. ASSUME NEW q \in Requests, WriteExpired(q) PROVE CountsKept
  <2>1. target[q] \subseteq WithStatus({"LATE"})
    BY <1>1, <1>7 DEF ReadsHold, WriteExpired
  <2> QED
    BY <1>7, <2>1
    DEF WriteExpired, CountsKept, ConfirmedOf, Pending, Of, WithStatus, Tentative
<1>8. ASSUME NEW q \in Requests, OverrideWrite(q) PROVE FALSE
  BY <1>1, <1>8 DEF ReadsHold, OverrideWrite
<1>9. ASSUME NEW q \in Requests,
             \/ \E r \in Reservations, h \in HandlerNames : Begin(q, h, r)
             \/ CancelRead(q) \/ CountWorkload(q) \/ Abort(q)
             \/ \E r \in Reservations : ReadLate(q, r)
             \/ \E i \in Incidents : ReleaseRead(q, i)
             \/ \E s \in Specialists : OverrideRead(q, s)
      PROVE  UNCHANGED rows
  BY <1>9 DEF Begin, CancelRead, CountWorkload, Abort, ReadLate, ReleaseRead, OverrideRead
<1>10. ASSUME NEW s \in Specialists, SetAvailability(s) PROVE CountsKept
  BY <1>10 DEF SetAvailability, CountsKept, ConfirmedOf, Pending, Of, WithStatus
<1>11. ASSUME NEW r \in Reservations, Elapse(r) PROVE CountsKept
  BY <1>11
  DEF Elapse, TypeOK, CountsKept, ConfirmedOf, Pending, Of, WithStatus, Tentative
<1>12. CASE UNCHANGED vars
  BY <1>2, <1>3, <1>12 DEF vars
<1> QED
  BY <1>2, <1>3, <1>4, <1>5, <1>6, <1>7, <1>8, <1>9, <1>10, <1>11, <1>12 DEF Next

\* A request beside another one is a create or a confirm: it has read nothing.
LEMMA OtherRequest ==
  ASSUME NEW q \in Requests, NEW p \in Requests, p # q, ReadsHold(p),
         step'[p] = step[p], seen'[p] = seen[p]
  PROVE  ReadsHold(p)'
<1>1. step[p] \in {"idle"} \cup Undivided
  BY DEF ReadsHold, Alone
<1> QED
  BY <1>1 DEF ReadsHold, Undivided

\* A request that has ended has read nothing.
LEMMA EndedRequest ==
  ASSUME TypeOK, \A p \in Requests : ReadsHold(p), NEW q \in Requests, Finish(q)
  PROVE  \A p \in Requests : ReadsHold(p)'
<1>1. step'[q] = "idle" /\ seen'[q] = NothingSeen
  BY DEF Finish, TypeOK
<1>2. ReadsHold(q)'
  BY <1>1 DEF ReadsHold, Undivided, NothingSeen
<1>3. ASSUME NEW p \in Requests, p # q PROVE ReadsHold(p)'
  <2>1. step'[p] = step[p] /\ seen'[p] = seen[p]
    BY <1>3 DEF Finish, TypeOK
  <2> QED
    BY <1>3, <2>1, OtherRequest
<1> QED
  BY <1>2, <1>3

\* A request that goes on leaves the others as they are.
LEMMA ReadingRequest ==
  ASSUME TypeOK, \A p \in Requests : ReadsHold(p), NEW q \in Requests, ReadsHold(q)',
         \A p \in Requests \ {q} : step'[p] = step[p] /\ seen'[p] = seen[p]
  PROVE  \A p \in Requests : ReadsHold(p)'
BY OtherRequest

\* What a serialised request has read still holds when it writes.
LEMMA ReadsStep ==
  ASSUME Serialised, TypeOK, \A p \in Requests : ReadsHold(p), [Next]_vars
  PROVE  \A p \in Requests : ReadsHold(p)'
<1> DEFINE Goal == \A p \in Requests : ReadsHold(p)'
<1>1. \A q \in Requests : Finish(q) => Goal
  BY EndedRequest
<1>2. ASSUME NEW q \in Requests,
             \/ Create(q) \/ Confirm(q) \/ WriteCancelled(q) \/ WriteExpired(q)
             \/ OverrideWrite(q) \/ Abort(q)
      PROVE  Goal
  BY <1>1, <1>2 DEF Create, Confirm, WriteCancelled, WriteExpired, OverrideWrite, Abort
<1>3. ASSUME NEW q \in Requests, NEW h \in HandlerNames, NEW r \in Reservations,
             Begin(q, h, r)
      PROVE  Goal
  <2>1. /\ step'[q] = h /\ target'[q] = {r} /\ seen'[q] = seen[q]
        /\ h \in {"create", "confirm", "cancel"} /\ h \in Handlers /\ step[q] = "idle"
    BY <1>3 DEF Begin, TypeOK
  <2>2. h \notin Undivided => Alone(q)
    BY <2>1 DEF Serialised, Alone
  <2>3. ReadsHold(q)'
    BY <2>1, <2>2 DEF ReadsHold, Undivided, Alone
  <2> QED
    BY <1>3, <2>3, ReadingRequest DEF Begin, TypeOK
<1>4. ASSUME NEW q \in Requests, CancelRead(q) PROVE Goal
  <2>1. PICK r \in target[q] :
           \/ Finish(q)
           \/ /\ status[r] \in Active
              /\ step' = [step EXCEPT ![q] =
                            CASE ExpiredAt(q, r) -> "expire"
                              [] status[r] = "CONFIRMED" -> "count"
                              [] OTHER -> "write"]
              /\ held' = [held EXCEPT ![q] = {r} \cap WithStatus({"CONFIRMED"})]
              /\ UNCHANGED <<target, late, seen, change>>
    BY <1>4 DEF CancelRead
  <2>2. step[q] = "cancel" /\ UNCHANGED rows
    BY <1>4 DEF CancelRead
  <2>3. CASE ~Finish(q)
    <3>1. target[q] = {r} /\ Alone(q) /\ seen[q] = NothingSeen /\ r \in Reservations
      BY <2>2 DEF ReadsHold, Undivided, TypeOK
    <3>2. /\ held'[q] = {r} \cap WithStatus({"CONFIRMED"})
          /\ target'[q] = {r} /\ seen'[q] = NothingSeen /\ UNCHANGED <<status, workload>>
      BY <2>1, <2>2, <2>3, <3>1 DEF TypeOK, rows
    <3>3. \/ step'[q] = "expire" /\ status[r] = "LATE"
          \/ step'[q] \in {"count", "write"}
      BY <2>1, <2>3 DEF ExpiredAt, TypeOK
    <3>4. status[r] \in Active
      BY <2>1, <2>3
    <3>5. ReadsHold(q)'
      BY <3>1, <3>2, <3>3, <3>4 DEF ReadsHold, Undivided, WithStatus, NothingSeen, Alone
    <3> QED
      BY <3>1, <3>5 DEF Alone
  <2> QED
    BY <1>1, <2>3
<1>5. ASSUME NEW q \in Requests, CountWorkload(q) PROVE Goal
  <2>1. /\ step'[q] = "write" /\ step[q] = "count"
        /\ UNCHANGED <<rows, target, late, held, change>>
    BY <1>5 DEF CountWorkload, TypeOK
  <2>2. seen[q] = NothingSeen /\ Alone(q)
    BY <2>1 DEF ReadsHold, Undivided
  <2>3. \A s \in Specialists : seen'[q][s] \in {Unset, workload[s]}
    <3>1. CASE UNCHANGED seen
      BY <2>2, <3>1 DEF NothingSeen
    <3>2. CASE \E r \in held[q] :
                 seen' = [seen EXCEPT ![q][SpecialistOf[r]] = workload[SpecialistOf[r]]]
      <4>1. PICK r \in held[q] :
               seen' = [seen EXCEPT ![q][SpecialistOf[r]] = workload[SpecialistOf[r]]]
        BY <3>2
      <4>2. seen'[q] = [seen[q] EXCEPT ![SpecialistOf[r]] = workload[SpecialistOf[r]]]
        BY <4>1 DEF TypeOK
      <4> QED
        BY <2>2, <4>2 DEF NothingSeen
    <3> QED
      BY <1>5, <3>1, <3>2 DEF CountWorkload
  <2>4. ReadsHold(q)'
    BY <2>1, <2>2, <2>3 DEF ReadsHold, Undivided, rows, WithStatus, Alone
  <2> QED
    BY <2>2, <2>4 DEF Alone
<1>6. ASSUME NEW q \in Requests, NEW r \in Reservations, ReadLate(q, r) PROVE Goal
  <2>1. /\ step'[q] = "expire" /\ target'[q] = {r} /\ seen'[q] = seen[q]
        /\ step[q] = "idle" /\ status[r] = "LATE" /\ UNCHANGED status
    BY <1>6 DEF ReadLate, TypeOK, rows
  <2>2. Alone(q)
    BY <1>6 DEF Serialised, ReadLate, Undivided
  <2>3. ReadsHold(q)'
    BY <2>1, <2>2 DEF ReadsHold, Undivided, WithStatus, Alone
  <2> QED
    BY <2>2, <2>3 DEF Alone
<1>7. ASSUME NEW q \in Requests, NEW i \in Incidents, ReleaseRead(q, i) PROVE Goal
  <2>1. /\ step'[q] \in {"count", "write"} /\ step[q] = "idle"
        /\ held'[q] = target'[q] \cap WithStatus({"CONFIRMED"})
        /\ target'[q] \subseteq WithStatus(Active)
        /\ seen'[q] = seen[q] /\ UNCHANGED status
    BY <1>7 DEF ReleaseRead, TypeOK, rows, WithStatus
  <2>2. Alone(q)
    BY <1>7 DEF Serialised, ReleaseRead, Undivided
  <2>3. ReadsHold(q)'
    BY <2>1, <2>2 DEF ReadsHold, Undivided, WithStatus, NothingSeen, Alone
  <2> QED
    BY <2>2, <2>3 DEF Alone
<1>8. ASSUME NEW q \in Requests, NEW s \in Specialists, OverrideRead(q, s) PROVE FALSE
  BY <1>8 DEF Serialised, OverrideRead
<1>9. ASSUME NEW s \in Specialists, SetAvailability(s) PROVE Goal
  BY <1>9 DEF SetAvailability, session, ReadsHold, WithStatus
<1>10. ASSUME NEW r \in Reservations, Elapse(r) PROVE Goal
  <2> SUFFICES ASSUME NEW q \in Requests PROVE ReadsHold(q)'
    OBVIOUS
  <2>1. UNCHANGED <<workload, step, target, late, held, seen>>
    BY <1>10 DEF Elapse, session
  <2>2. /\ WithStatus({"CONFIRMED"})' = WithStatus({"CONFIRMED"})
        /\ WithStatus(Active)' = WithStatus(Active)
        /\ WithStatus({"LATE"}) \subseteq WithStatus({"LATE"})'
    BY <1>10 DEF Elapse, TypeOK, WithStatus, Active, Tentative
  <2> QED
    BY <2>1, <2>2 DEF ReadsHold
<1>11. CASE UNCHANGED vars
  BY <1>11 DEF vars, rows, session, ReadsHold, WithStatus
<1> QED
  BY <1>2, <1>3, <1>4, <1>5, <1>6, <1>7, <1>8, <1>9, <1>10, <1>11 DEF Next

\* Before the first request the seeded workload fits and nothing is reserved.
LEMMA AccountingInit == Init => AccountingInv
<1> SUFFICES ASSUME Init PROVE AccountingInv
  OBVIOUS
<1>1. \A s \in Specialists : ConfirmedOf(s) = {} /\ Pending(s) = {}
  BY DEF Init, ConfirmedOf, Pending, Of, WithStatus, Tentative
<1>2. AccountingExact
  <2>1. \A s \in Specialists : /\ Cardinality(ConfirmedOf(s)) = 0
                               /\ Cardinality(Pending(s)) = 0
    BY <1>1, FS_EmptySet
  <2>2. /\ workload = InitialWorkload /\ capacity = InitialCapacity
        /\ \A s \in Specialists : /\ InitialWorkload[s] \in Nat
                                  /\ InitialWorkload[s] <= InitialCapacity[s]
    BY CapacityAssumption DEF Init
  <2> QED
    BY <2>1, <2>2
    DEF AccountingExact, WorkloadCountsConfirmed, PendingFitsCapacity, Pending
<1>3. ASSUME NEW q \in Requests PROVE ReadsHold(q)
  BY DEF Init, ReadsHold, Undivided
<1> QED
  BY <1>2, <1>3 DEF AccountingInv

\* The workload is exact in every reachable state.
LEMMA AccountingInvariant ==
  ASSUME Serialised PROVE Spec => []AccountingInv
<1>1. TypeOK /\ LateSound /\ AccountingInv /\ [Next]_vars => AccountingInv'
  BY AccountingStep, ReadsStep DEF AccountingInv, Serialised
<1> QED
  BY <1>1, AccountingInit, TypeCorrect, LateInvariant, PTL DEF Spec

\* Creates and confirmations may overlap as they like, and any handlers may
\* follow one another: the workload stays what was seeded plus what is confirmed,
\* and every reservation admitted still fits beside it.
THEOREM AccountingStaysExact ==
  ASSUME Serialised PROVE Spec => []AccountingExact
<1>1. AccountingInv => AccountingExact
  BY DEF AccountingInv
<1> QED
  BY <1>1, AccountingInvariant, PTL

\* Under the same condition a CONFIRMED reservation never becomes EXPIRED.
THEOREM ConfirmedNeverExpires ==
  ASSUME Serialised PROVE Spec => OnlyTentativeExpires
<1>1. TypeOK /\ AccountingInv /\ [Next]_vars =>
        [\A r \in Reservations : status[r] = "CONFIRMED" => status'[r] # "EXPIRED"]_vars
  <2> SUFFICES ASSUME TypeOK, AccountingInv, [Next]_vars,
                      NEW r \in Reservations, status[r] = "CONFIRMED"
               PROVE  status'[r] # "EXPIRED"
    OBVIOUS
  <2>1. ASSUME NEW q \in Requests, Create(q) PROVE status'[r] # "EXPIRED"
    BY <2>1 DEF Create, AfterExpiry, ExpiredAt
  <2>2. ASSUME NEW q \in Requests, Confirm(q) PROVE status'[r] # "EXPIRED"
    BY <2>2 DEF Confirm, AfterExpiry, ExpiredAt
  <2>3. ASSUME NEW q \in Requests, WriteCancelled(q) PROVE status'[r] # "EXPIRED"
    BY <2>3 DEF WriteCancelled
  <2>4. ASSUME NEW q \in Requests, WriteExpired(q) PROVE status'[r] # "EXPIRED"
    <3>1. target[q] \subseteq WithStatus({"LATE"})
      BY <2>4 DEF AccountingInv, ReadsHold, WriteExpired
    <3> QED
      BY <2>4, <3>1 DEF WriteExpired, WithStatus
  <2>5. ASSUME NEW x \in Reservations, Elapse(x) PROVE status'[r] # "EXPIRED"
    BY <2>5 DEF Elapse, TypeOK
  <2>6. ASSUME NEW q \in Requests,
               \/ \E x \in Reservations, h \in HandlerNames : Begin(q, h, x)
               \/ CancelRead(q) \/ CountWorkload(q) \/ OverrideWrite(q) \/ Abort(q)
               \/ \E x \in Reservations : ReadLate(q, x)
               \/ \E i \in Incidents : ReleaseRead(q, i)
               \/ \E s \in Specialists : OverrideRead(q, s)
        PROVE  UNCHANGED status
    BY <2>6 DEF Begin, CancelRead, CountWorkload, OverrideWrite, Abort, ReadLate,
                ReleaseRead, OverrideRead, rows
  <2>7. ASSUME NEW s \in Specialists, SetAvailability(s) PROVE UNCHANGED status
    BY <2>7 DEF SetAvailability
  <2>8. CASE UNCHANGED vars
    BY <2>8 DEF vars, rows
  <2> QED
    BY <2>1, <2>2, <2>3, <2>4, <2>5, <2>6, <2>7, <2>8 DEF Next
<1> QED
  BY <1>1, TypeCorrect, AccountingInvariant, PTL DEF Spec, OnlyTentativeExpires
=============================================================================
