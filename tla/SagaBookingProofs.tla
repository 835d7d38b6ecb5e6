-------------------------- MODULE SagaBookingProofs --------------------------
(***************************************************************************)
(* The saga implements the booking promise and the verdict, for any number *)
(* of runs, incidents, specialists, rounds and polls, for ids that collide *)
(* and for any faults: every step of the saga and of the services is a     *)
(* step of each of the two or leaves it unchanged.  Of the verdict it      *)
(* follows that every round of a run has cost it one pair.                 *)
(***************************************************************************)
EXTENDS SagaBooking, SagaExecutionProofs, FiniteSetTheorems

\* What the mapping needs beyond ConsentInv and BookedInv: a record without a
\* status is no record, and who is about to assign has a confirmed reservation
\* unless the simulation has released it.
NoHalfRecords ==
  \A k \in Keys : /\ reservation[k].status = "absent" => reservation[k].run = NoRun
                  /\ request[k].status = "absent" => request[k].run = NoRun

AssignsBooked ==
  \A r \in Runs : saga[r].step = "assign" /\ resolution[saga[r].inc] # "over" =>
    reservation[Key(r)].status = "CONFIRMED"

RefinementInv == NoHalfRecords /\ AssignsBooked

Inv == TypeInv /\ ConsentInv /\ BookedInv /\ RefinementInv

\* At the start no record exists.
LEMMA RefinementInit == Init => RefinementInv
BY DEF Init, RefinementInv, NoHalfRecords, AssignsBooked, Absent, Idle

\* How the tables of reservations and requests change in one step.
ReservationChange ==
  \/ UNCHANGED reservation
  \/ \E k \in Keys, r \in Runs : reservation' = [reservation EXCEPT ![k] = Wanted(r, "TENTATIVE")]
  \/ \E k \in Keys, s \in {"CONFIRMED", "CANCELLED", "EXPIRED"} :
       reservation' = [reservation EXCEPT ![k].status = s]
  \/ \E i \in Incidents : ReleaseWorkload(i)

RequestChange ==
  \/ UNCHANGED request
  \/ \E k \in Keys, r \in Runs : request' = [request EXCEPT ![k] = Wanted(r, "PENDING")]
  \/ \E k \in Keys, s \in {"ACCEPTED", "REJECTED", "EXPIRED"} :
       request' = [request EXCEPT ![k].status = s]

\* The cancellation of a reservation is such a change.
LEMMA CancelChange ==
  ASSUME NEW k \in Keys, reservation' = Cancelled(k)
  PROVE  ReservationChange
BY DEF Cancelled, ReservationChange

\* Every step changes the two tables in one of these ways.
LEMMA TableChanges ==
  ASSUME TypeInv, Next
  PROVE  ReservationChange /\ RequestChange
<1>1. ASSUME NEW r \in Runs, Call(r)
      PROVE  ReservationChange /\ RequestChange
  <2>1. Key(r) \in Keys /\ reservation' = ReservationAfter(r) /\ request' = RequestAfter(r)
    BY <1>1, KeyIsKey DEF Call, Handling
  <2> QED
    BY <2>1 DEF ReservationAfter, RequestAfter, ReservationChange, RequestChange
<1>2. ASSUME NEW r \in Runs, Compensate(r)
      PROVE  ReservationChange /\ RequestChange
  <2>1. Key(r) \in Keys /\ UNCHANGED request
    BY <1>2, KeyIsKey DEF Compensate, Handling
  <2>2. reservation' = reservation \/ reservation' = Cancelled(Key(r))
    BY <1>2 DEF Compensate
  <2> QED
    BY <2>1, <2>2, CancelChange DEF ReservationChange, RequestChange
<1>3. ASSUME NEW r \in Runs, CancelCreated(r)
      PROVE  ReservationChange /\ RequestChange
  <2>1. UNCHANGED request
    BY <1>3 DEF CancelCreated
  <2>2. PICK k \in saga[r].created : reservation' = reservation \/ reservation' = Cancelled(k)
    BY <1>3 DEF CancelCreated
  <2>3. k \in Keys
    BY <2>2 DEF TypeInv, TypeOK
  <2> QED
    BY <2>1, <2>2, <2>3, CancelChange DEF ReservationChange, RequestChange
<1>4. ASSUME NEW i \in Incidents, ReleaseWorkload(i)
      PROVE  ReservationChange /\ RequestChange
  BY <1>4 DEF ReservationChange, RequestChange, ReleaseWorkload
<1>5. ASSUME NEW k \in Keys, NEW answer \in {"ACCEPTED", "REJECTED"}, Respond(k, answer)
      PROVE  ReservationChange /\ RequestChange
  BY <1>5 DEF Respond, ReservationChange, RequestChange
<1>6. ASSUME NEW k \in Keys, ExpireRequest(k) \/ ExpireReservation(k)
      PROVE  ReservationChange /\ RequestChange
  BY <1>6 DEF ExpireRequest, ExpireReservation, ReservationChange, RequestChange
<1> QED
  BY <1>1, <1>2, <1>3, <1>4, <1>5, <1>6
  DEF Next, services, SagaStep, ServiceStep, StartSaga, NextAllocation, Refused, Poll,
      RecordAccepted, EventWriteFails, ResetUpdated, EndRollback, Settle, Complete, Crash,
      AskManager, Reapprove, Resumed, ResolveIncident, ReservationChange, RequestChange

\* One step leaves no record without the work it is for.
LEMMA NoHalfRecordsStep ==
  ASSUME TypeInv, NoHalfRecords, Next
  PROVE  NoHalfRecords'
<1>1. ReservationChange /\ RequestChange
  BY TableChanges
<1>2. reservation \in [Keys -> Records(Statuses)] /\ request \in [Keys -> Records(Answers)]
  BY DEF TypeInv, TypeOK
<1>3. ASSUME NEW k \in Keys, reservation'[k].status = "absent"
      PROVE  reservation'[k].run = NoRun
  <2>1. ASSUME NEW i \in Incidents, ReleaseWorkload(i)
        PROVE  reservation'[k].run = NoRun
    <3>1. reservation'[k] = reservation[k] \/ reservation'[k] = [reservation[k] EXCEPT !.status = "CANCELLED"]
      BY <2>1 DEF ReleaseWorkload
    <3>2. [reservation[k] EXCEPT !.status = "CANCELLED"].status = "CANCELLED"
      BY <1>2 DEF Records
    <3> QED
      BY <1>3, <3>1, <3>2 DEF NoHalfRecords
  <2>2. ASSUME NEW j \in Keys, NEW s \in {"CONFIRMED", "CANCELLED", "EXPIRED"},
               reservation' = [reservation EXCEPT ![j].status = s]
        PROVE  reservation'[k].run = NoRun
    <3>1. CASE k = j
      BY <1>2, <1>3, <2>2, <3>1 DEF Records
    <3>2. CASE k # j
      BY <1>2, <1>3, <2>2, <3>2 DEF NoHalfRecords
    <3> QED
      BY <3>1, <3>2
  <2>3. ASSUME NEW j \in Keys, NEW r \in Runs,
               reservation' = [reservation EXCEPT ![j] = Wanted(r, "TENTATIVE")]
        PROVE  reservation'[k].run = NoRun
    BY <1>2, <1>3, <2>3 DEF NoHalfRecords, Wanted
  <2> QED
    BY <1>1, <1>3, <2>1, <2>2, <2>3 DEF ReservationChange, NoHalfRecords
<1>4. ASSUME NEW k \in Keys, request'[k].status = "absent"
      PROVE  request'[k].run = NoRun
  <2>1. ASSUME NEW j \in Keys, NEW s \in {"ACCEPTED", "REJECTED", "EXPIRED"},
               request' = [request EXCEPT ![j].status = s]
        PROVE  request'[k].run = NoRun
    <3>1. CASE k = j
      BY <1>2, <1>4, <2>1, <3>1 DEF Records
    <3>2. CASE k # j
      BY <1>2, <1>4, <2>1, <3>2 DEF NoHalfRecords
    <3> QED
      BY <3>1, <3>2
  <2>2. ASSUME NEW j \in Keys, NEW r \in Runs,
               request' = [request EXCEPT ![j] = Wanted(r, "PENDING")]
        PROVE  request'[k].run = NoRun
    BY <1>2, <1>4, <2>2 DEF NoHalfRecords, Wanted
  <2> QED
    BY <1>1, <1>4, <2>1, <2>2 DEF RequestChange, NoHalfRecords
<1> QED
  BY <1>3, <1>4 DEF NoHalfRecords

\* A saga comes to the assignment from a confirmation, or was there already.
LEMMA ComesToAssign ==
  ASSUME TypeInv, Next, NEW r \in Runs, saga'[r].step = "assign"
  PROVE  \/ saga'[r] = saga[r] /\ round'[r] = round[r]
         \/ /\ Call(r) /\ saga[r].step = "confirm" /\ round'[r] = round[r]
            /\ saga'[r].inc = saga[r].inc /\ saga'[r].plan = saga[r].plan
<1>0. saga \in [Runs -> Locals] /\ saga[r] \in Locals
  BY DEF TypeInv, TypeOK, Locals, Steps
<1>1. CASE Call(r)
  <2>1. saga[r].step \in CallSteps /\ Noted(r) \in Locals /\ round'[r] = round[r]
    BY <1>1, CallType DEF Call, results
  <2>2. /\ Noted(r).step = saga[r].step /\ Noted(r).inc = saga[r].inc
        /\ Noted(r).plan = saga[r].plan
    BY <1>0 DEF Noted, Locals
  <2>3. CASE saga' = [saga EXCEPT ![r] = [Noted(r) EXCEPT !.step = AfterCall(@)]]
    <3>1. /\ saga'[r].step = AfterCall(saga[r].step)
          /\ saga'[r].inc = saga[r].inc /\ saga'[r].plan = saga[r].plan
      BY <1>0, <2>1, <2>2, <2>3 DEF Locals
    <3>2. saga[r].step = "confirm"
      BY <2>1, <3>1 DEF AfterCall, CallSteps
    <3> QED
      BY <1>1, <2>1, <3>1, <3>2
  <2>4. ASSUME NEW local \in Locals, saga' = [saga EXCEPT ![r] = Raised(local)]
        PROVE  FALSE
    <3>1. Raised(local).step = "rollback"
      BY DEF Raised, Locals
    <3> QED
      BY <1>0, <2>4, <3>1
  <2> QED
    BY <1>0, <1>1, <2>1, <2>3, <2>4 DEF Call
<1>2. CASE StartSaga(r)
  <2>1. \A plan, todo : [Idle EXCEPT !.step = "next", !.plan = plan, !.todo = todo].step = "next"
    BY DEF Idle
  <2> QED
    BY <1>0, <1>2, <2>1 DEF StartSaga
<1>3. CASE NextAllocation(r)
  <2>1. CASE saga' = [saga EXCEPT ![r].step = "settle"]
    BY <1>0, <2>1 DEF Locals
  <2>2. ASSUME NEW i \in saga[r].todo,
               saga' = [saga EXCEPT ![r].step = "reserve", ![r].inc = i,
                                    ![r].todo = @ \ {i}, ![r].polls = 0]
        PROVE  FALSE
    <3>1. saga'[r].step = "reserve"
      BY <1>0, <2>2 DEF Locals
    <3> QED
      BY <3>1
  <2> QED
    BY <1>3, <2>1, <2>2 DEF NextAllocation
<1>4. CASE Refused(r) \/ EventWriteFails(r)
  BY <1>0, <1>4 DEF Refused, EventWriteFails, Raised, Locals
<1>5. CASE Poll(r)
  <2>1. PICK local \in {[saga[r] EXCEPT !.step = "confirm"], [saga[r] EXCEPT !.step = "compensate"],
                        Unanswered(saga[r])} : saga' = [saga EXCEPT ![r] = local]
    BY <1>0, <1>5 DEF Poll
  <2>2. local.step \in {"confirm", "compensate", "poll"}
    BY <1>0, <2>1 DEF Unanswered, Locals
  <2> QED
    BY <1>0, <2>1, <2>2
<1>6. CASE RecordAccepted(r) \/ CancelCreated(r) \/ ResetUpdated(r) \/ EndRollback(r)
  BY <1>0, <1>6 DEF RecordAccepted, CancelCreated, ResetUpdated, EndRollback, Locals
<1>7. CASE Compensate(r)
  <2> DEFINE left == [saga[r] EXCEPT !.rejected = @ \cup {<<Chosen(r), saga[r].inc>>},
                                     !.replan = TRUE, !.step = "settle"]
             removed == [left EXCEPT !.created = @ \ {Key(r)}]
  <2>1. left.step = "settle" /\ removed.step = "settle" /\ Raised(left).step = "rollback"
        /\ Raised(removed).step = "rollback"
    BY <1>0 DEF Locals, Raised
  <2>2. \E local \in {left, removed} :
          saga' = [saga EXCEPT ![r] = local] \/ saga' = [saga EXCEPT ![r] = Raised(local)]
    BY <1>7 DEF Compensate
  <2> QED
    BY <1>0, <2>1, <2>2
<1>8. CASE Settle(r) \/ Complete(r)
  BY <1>0, <1>8 DEF Settle, Complete, Idle, Locals
<1>9. CASE OtherTask(r)
  BY <1>0, <1>9, OtherTaskStep DEF Idle
<1>10. ASSUME NEW q \in Runs \ {r}, StartSaga(q) \/ SagaStep(q) \/ OtherTask(q)
       PROVE  saga'[r] = saga[r] /\ round'[r] = round[r]
  BY <1>10, OthersStay DEF TypeInv
<1>11. ASSUME ServiceStep
       PROVE  saga'[r] = saga[r] /\ round'[r] = round[r]
  BY <1>11
  DEF ServiceStep, results, Respond, ExpireRequest, ExpireReservation, ResolveIncident, ReleaseWorkload
<1>12. CASE StartSaga(r) \/ SagaStep(r) \/ OtherTask(r)
  BY <1>1, <1>2, <1>3, <1>4, <1>5, <1>6, <1>7, <1>8, <1>9, <1>12 DEF SagaStep
<1> QED
  BY <1>10, <1>11, <1>12 DEF Next, OtherTask

\* A saga that is about to assign still has its reservation confirmed.
LEMMA AssignsBookedStep ==
  ASSUME Inv, Next
  PROVE  AssignsBooked'
<1> USE DEF Inv
<1> SUFFICES ASSUME NEW r \in Runs, saga'[r].step = "assign", resolution'[saga'[r].inc] # "over"
             PROVE  reservation'[Key(r)'].status = "CONFIRMED"
  BY DEF AssignsBooked
<1>0. saga \in [Runs -> Locals] /\ saga[r] \in Locals /\ reservation \in [Keys -> Records(Statuses)]
  BY DEF TypeInv, TypeOK, Locals, Steps
<1>1. CASE /\ Call(r) /\ saga[r].step = "confirm" /\ round'[r] = round[r]
           /\ saga'[r].inc = saga[r].inc /\ saga'[r].plan = saga[r].plan
  <2>1. Key(r)' = Key(r) /\ Key(r) \in Keys
    BY <1>1, KeyIsKey DEF Key, KeyOf, Handling, CallSteps
  <2>2. reservation' = [reservation EXCEPT ![Key(r)].status = "CONFIRMED"]
    BY <1>1 DEF Call, ReservationAfter
  <2> QED
    BY <1>0, <2>1, <2>2 DEF Records
<1>2. CASE saga'[r] = saga[r] /\ round'[r] = round[r]
  <2>1. Key(r)' = Key(r) /\ Key(r) \in Keys /\ saga[r].step = "assign" /\ saga[r].inc \in Incidents
    BY <1>2, KeyIsKey DEF Key, KeyOf, Handling, CallSteps
  <2>2. resolution[saga[r].inc] # "over"
    BY <1>2, <2>1, OverStays
  <2>3. reservation[Key(r)].status = "CONFIRMED"
    BY <2>1, <2>2 DEF RefinementInv, AssignsBooked
  <2>4. SamePayload(reservation[Key(r)], Wanted(r, "met"))
    BY <2>1 DEF ConsentInv, ConsentOf, AfterReserve
  <2>5. reservation[Key(r)].run = r /\ reservation[Key(r)].incident = saga[r].inc
    BY <2>4 DEF SamePayload, Wanted
  <2>6. ReservationStep(Key(r))
    BY <2>1, ReservationSteps DEF ConsentInv
  <2>7. ASSUME NEW q \in Runs, saga[q].step = "rollback", Key(r) \in saga[q].created PROVE FALSE
    BY <2>1, <2>5, <2>7 DEF BookedInv, BookingOf
  <2>8. ASSUME NEW q \in Runs, saga[q].step = "compensate", Key(r) = Key(q) PROVE FALSE
    BY <2>1, <2>5, <2>8 DEF ConsentInv, ConsentOf, AfterReserve, SamePayload, Wanted
  <2> QED
    BY <1>2, <2>1, <2>3, <2>5, <2>6, <2>7, <2>8 DEF ReservationStep
<1> QED
  BY <1>1, <1>2, ComesToAssign

\* The saga's invariants and those of the mapping are kept together.
LEMMA InvStep == Inv /\ [Next]_vars => Inv'
<1>1. ASSUME Inv, Next PROVE Inv'
  <2>1. TypeInv' /\ ConsentInv' /\ BookedInv'
    BY <1>1, TypeInvStep, ConsentStep, BookedStep DEF Inv
  <2>2. RefinementInv'
    BY <1>1, NoHalfRecordsStep, AssignsBookedStep DEF Inv, RefinementInv
  <2> QED
    BY <2>1, <2>2 DEF Inv
<1>2. ASSUME Inv, UNCHANGED vars PROVE Inv'
  <2>1. TypeInv' /\ ConsentInv' /\ BookedInv'
    BY <1>2, TypeInvStep, ConsentStep, BookedStep DEF Inv
  <2>2. RefinementInv'
    BY <1>2 DEF Inv, vars, services, results, RefinementInv, NoHalfRecords, AssignsBooked, Key, KeyOf
  <2> QED
    BY <2>1, <2>2 DEF Inv
<1> QED
  BY <1>1, <1>2

-----------------------------------------------------------------------------
\* The mapping, field by field.
LEMMA MapSame ==
  /\ UNCHANGED reservation => Holds' = Holds
  /\ UNCHANGED request => Offered' = Offered
  /\ UNCHANGED incident => Assignments' = Assignments
  /\ UNCHANGED resolution => Withdrawn' = Withdrawn
BY DEF Holds, Offered, Assignments, Withdrawn

\* A new status of a reservation is a new stage of its hold.
LEMMA HoldsStatus ==
  ASSUME TypeInv, NEW k \in Keys, NEW s \in Statuses,
         reservation' = [reservation EXCEPT ![k].status = s]
  PROVE  Holds' = [Holds EXCEPT ![k].stage = StageOf(s)]
<1>1. reservation \in [Keys -> Records(Statuses)]
  BY DEF TypeInv, TypeOK
<1>2. \A j \in Keys : reservation'[j] = IF j = k THEN [reservation[k] EXCEPT !.status = s] ELSE reservation[j]
  BY <1>1
<1>3. WorkOf([reservation[k] EXCEPT !.status = s]) = WorkOf(reservation[k])
      /\ [reservation[k] EXCEPT !.status = s].status = s
  BY <1>1 DEF WorkOf, Records
<1>4. \A j \in Keys : Holds'[j] = IF j = k THEN [Holds[k] EXCEPT !.stage = StageOf(s)] ELSE Holds[j]
  BY <1>2, <1>3 DEF Holds
<1> QED
  BY <1>4 DEF Holds

\* A new reservation is a new hold.
LEMMA HoldsNew ==
  ASSUME TypeInv, NEW k \in Keys, NEW r \in Runs,
         reservation' = [reservation EXCEPT ![k] = Wanted(r, "TENTATIVE")]
  PROVE  Holds' = [Holds EXCEPT ![k] = [stage |-> "held", work |-> WorkOf(Wanted(r, "TENTATIVE"))]]
<1>1. \A j \in Keys : reservation'[j] = IF j = k THEN Wanted(r, "TENTATIVE") ELSE reservation[j]
  BY DEF TypeInv, TypeOK
<1>2. StageOf(Wanted(r, "TENTATIVE").status) = "held"
  BY DEF StageOf, Wanted
<1> QED
  BY <1>1, <1>2 DEF Holds

\* A new status of a request is a new answer.
LEMMA OfferedStatus ==
  ASSUME TypeInv, NEW k \in Keys, NEW s \in Answers,
         request' = [request EXCEPT ![k].status = s]
  PROVE  Offered' = [Offered EXCEPT ![k].answer = AnswerOf(s)]
<1>1. request \in [Keys -> Records(Answers)]
  BY DEF TypeInv, TypeOK
<1>2. \A j \in Keys : request'[j] = IF j = k THEN [request[k] EXCEPT !.status = s] ELSE request[j]
  BY <1>1
<1>3. WorkOf([request[k] EXCEPT !.status = s]) = WorkOf(request[k])
      /\ [request[k] EXCEPT !.status = s].status = s
  BY <1>1 DEF WorkOf, Records
<1>4. \A j \in Keys : Offered'[j] = IF j = k THEN [Offered[k] EXCEPT !.answer = AnswerOf(s)] ELSE Offered[j]
  BY <1>2, <1>3 DEF Offered
<1> QED
  BY <1>4 DEF Offered

\* A new request asks for the work of its reservation.
LEMMA OfferedNew ==
  ASSUME TypeInv, NEW k \in Keys, NEW r \in Runs,
         request' = [request EXCEPT ![k] = Wanted(r, "PENDING")]
  PROVE  Offered' = [Offered EXCEPT ![k] = [answer |-> "asked", work |-> WorkOf(Wanted(r, "PENDING"))]]
<1>1. \A j \in Keys : request'[j] = IF j = k THEN Wanted(r, "PENDING") ELSE request[j]
  BY DEF TypeInv, TypeOK
<1>2. AnswerOf(Wanted(r, "PENDING").status) = "asked"
  BY DEF AnswerOf, Wanted
<1> QED
  BY <1>1, <1>2 DEF Offered

\* A hold is live when its reservation is active.
LEMMA LiveIsActive ==
  ASSUME TypeInv, NEW k \in Keys
  PROVE  /\ Booking!Live(k) <=> reservation[k].status \in Active
         /\ Holds[k].stage = "none" <=> reservation[k].status = "absent"
<1>1. reservation[k].status \in Statuses
  BY DEF TypeInv, TypeOK, Records
<1> QED
  BY <1>1 DEF Booking!Live, Holds, StageOf, Statuses, Active

\* Giving a hold up.
LEMMA GivenUp ==
  ASSUME TypeInv, NEW k \in Keys, NEW s \in {"CANCELLED", "EXPIRED"},
         reservation' = IF reservation[k].status \in Active
                        THEN [reservation EXCEPT ![k].status = s] ELSE reservation
  PROVE  Holds' = Booking!Released({k})
<1>1. CASE reservation[k].status \in Active
  <2>1. Holds' = [Holds EXCEPT ![k].stage = "released"]
    BY <1>1, HoldsStatus DEF Statuses, StageOf
  <2>2. Booking!Live(k)
    BY <1>1, LiveIsActive
  <2>3. \A j \in Keys : Booking!Released({k})[j] = IF j = k THEN [Holds[k] EXCEPT !.stage = "released"] ELSE Holds[j]
    BY <2>2 DEF Booking!Released
  <2> QED
    BY <2>1, <2>3 DEF Booking!Released, Holds
<1>2. CASE reservation[k].status \notin Active
  <2>1. Holds' = Holds /\ ~Booking!Live(k)
    BY <1>2, MapSame, LiveIsActive
  <2> QED
    BY <2>1 DEF Booking!Released, Holds
<1> QED
  BY <1>1, <1>2

\* A step that gives one hold up and changes nothing else the mapping reads.
LEMMA ReleaseStep ==
  ASSUME TypeInv, NEW k \in Keys, NEW s \in {"CANCELLED", "EXPIRED"},
         reservation' = IF reservation[k].status \in Active
                        THEN [reservation EXCEPT ![k].status = s] ELSE reservation,
         UNCHANGED <<request, incident, resolution>>
  PROVE  Booking!BookingNext
<1>1. Booking!Release(k)
  BY GivenUp, MapSame DEF Booking!Release
<1> QED
  BY <1>1 DEF Booking!BookingNext

\* The steps of the services.
LEMMA ServiceStepRefines ==
  ASSUME Inv, ServiceStep
  PROVE  [Booking!BookingNext]_(Booking!promise)
<1> USE DEF Inv
<1>1. ASSUME NEW k \in Keys, NEW s \in {"ACCEPTED", "REJECTED", "EXPIRED"}, request[k].status = "PENDING",
             request' = [request EXCEPT ![k].status = s],
             UNCHANGED <<reservation, incident, resolution>>
      PROVE  Booking!BookingNext
  <2>1. Offered' = [Offered EXCEPT ![k].answer = AnswerOf(s)]
    BY <1>1, OfferedStatus DEF Answers
  <2>2. Offered[k].answer = "asked" /\ AnswerOf(s) \in {"yes", "no"}
    BY <1>1 DEF Offered, AnswerOf
  <2>3. Booking!AnswerOffer(k, AnswerOf(s))
    BY <1>1, <2>1, <2>2, MapSame DEF Booking!AnswerOffer
  <2> QED
    BY <2>2, <2>3 DEF Booking!BookingNext
<1>2. ASSUME NEW k \in Keys, ExpireReservation(k)
      PROVE  Booking!BookingNext
  BY <1>2, ReleaseStep DEF ExpireReservation, Active
<1>3. ASSUME NEW i \in Incidents, ResolveIncident(i)
      PROVE  Booking!BookingNext
  <2>1. Assignments' = [Assignments EXCEPT ![i] = NoWork]
    BY <1>3 DEF ResolveIncident, Assignments, TypeInv, TypeOK
  <2>2. Withdrawn' = Withdrawn
    <3>1. \A j \in Incidents : resolution'[j] = "over" <=> resolution[j] = "over"
      BY <1>3 DEF ResolveIncident, TypeInv, TypeOK
    <3> QED
      BY <3>1 DEF Withdrawn
  <2>3. Booking!Unassign(i)
    BY <1>3, <2>1, <2>2, MapSame DEF Booking!Unassign, ResolveIncident
  <2> QED
    BY <2>3 DEF Booking!BookingNext
<1>4. ASSUME NEW i \in Incidents, ReleaseWorkload(i)
      PROVE  Booking!BookingNext
  <2> DEFINE S == {k \in Keys : Booking!Live(k) /\ Holds[k].work.incident = i}
  <2>1. Withdrawn' = Withdrawn \cup {i}
    BY <1>4 DEF ReleaseWorkload, Withdrawn, TypeInv, TypeOK
  <2>2. CASE UNCHANGED reservation
    BY <1>4, <2>1, <2>2, MapSame DEF Booking!BookingNext, Booking!Withdraw, ReleaseWorkload
  <2>3. CASE reservation' = [k \in Keys |->
                 IF reservation[k].incident = i /\ reservation[k].status \in Active
                 THEN [reservation[k] EXCEPT !.status = "CANCELLED"] ELSE reservation[k]]
    <3>1. ASSUME NEW k \in Keys
          PROVE  Holds'[k] = Booking!Released(S)[k]
      <4>1. k \in S <=> reservation[k].incident = i /\ reservation[k].status \in Active
        BY LiveIsActive DEF Holds, WorkOf
      <4>2. CASE k \in S
        <5>1. reservation'[k] = [reservation[k] EXCEPT !.status = "CANCELLED"]
          BY <2>3, <4>1, <4>2
        <5>2. reservation'[k].status = "CANCELLED" /\ WorkOf(reservation'[k]) = WorkOf(reservation[k])
          BY <5>1 DEF TypeInv, TypeOK, Records, WorkOf
        <5>3. Holds'[k] = [stage |-> "released", work |-> WorkOf(reservation[k])]
          BY <5>2 DEF Holds, StageOf
        <5> QED
          BY <4>2, <5>3 DEF Booking!Released, Holds
      <4>3. CASE k \notin S
        BY <2>3, <4>1, <4>3 DEF Booking!Released, Holds
      <4> QED
        BY <4>2, <4>3
    <3>2. Holds' = Booking!Released(S)
      BY <3>1 DEF Booking!Released, Holds
    <3> QED
      BY <1>4, <2>1, <3>2, MapSame DEF Booking!BookingNext, Booking!Withdraw, ReleaseWorkload
  <2> QED
    BY <1>4, <2>2, <2>3 DEF ReleaseWorkload
<1> QED
  BY <1>1, <1>2, <1>3, <1>4 DEF ServiceStep, Respond, ExpireRequest

\* A call the saga makes and that takes effect.
LEMMA CallRefines ==
  ASSUME Inv, NEW r \in Runs, Call(r)
  PROVE  [Booking!BookingNext]_(Booking!promise)
<1> USE DEF Inv
<1> DEFINE w == [run |-> r, incident |-> saga[r].inc, specialist |-> Chosen(r)]
<1>0. /\ saga[r].step \in CallSteps /\ Accepts(r)
      /\ Key(r) \in Keys /\ saga[r].inc \in Incidents /\ Chosen(r) \in Specialists /\ r # NoRun
      /\ \A s : WorkOf(Wanted(r, s)) = w /\ Wanted(r, s).status = s
      /\ reservation' = ReservationAfter(r) /\ request' = RequestAfter(r)
      /\ incident' = IncidentAfter(r) /\ UNCHANGED resolution
      /\ saga[r].step \in Handling
  BY KeyIsKey, NamesAssumption DEF Call, Handling, WorkOf, Wanted
<1>w. w \in [run : Runs, incident : Incidents, specialist : Specialists]
  BY <1>0
<1>t. /\ reservation \in [Keys -> Records(Statuses)] /\ request \in [Keys -> Records(Answers)]
      /\ incident \in [Incidents -> [status : {"OPEN", "IN_PROGRESS", "RESOLVED"},
                            specialist : Specialists \cup {Nobody}, run : Runs \cup {NoRun}]]
  BY DEF TypeInv, TypeOK
<1>m. saga[r].step \in AfterReserve => WorkOf(reservation[Key(r)]) = w
  BY DEF ConsentInv, ConsentOf, SamePayload, WorkOf, Wanted
<1>1. CASE saga[r].step = "reserve"
  <2>1. UNCHANGED <<request, incident>>
    BY <1>0, <1>1 DEF RequestAfter, IncidentAfter
  <2>2. CASE NewReservation(r)
    <3>1. Holds' = [Holds EXCEPT ![Key(r)] = [stage |-> "held", work |-> w]]
      <4>1. reservation' = [reservation EXCEPT ![Key(r)] = Wanted(r, "TENTATIVE")]
        BY <1>0, <1>1, <2>2 DEF ReservationAfter
      <4>2. WorkOf(Wanted(r, "TENTATIVE")) = w
        BY <1>0
      <4>3. Holds' = [Holds EXCEPT ![Key(r)] =
                        [stage |-> "held", work |-> WorkOf(Wanted(r, "TENTATIVE"))]]
        BY <1>0, <4>1, HoldsNew
      <4> QED
        BY <4>2, <4>3
    <3>2. Holds[Key(r)].stage = "none"
      BY <1>0, <2>2, LiveIsActive DEF NewReservation, Absent
    <3>3. \A j \in Keys : Booking!Live(j) => ~Booking!SamePair(Holds[j].work, w)
      BY <1>0, <2>2, LiveIsActive DEF NewReservation, Booking!SamePair, Holds, WorkOf
    <3>4. Booking!Hold(Key(r), w)
      BY <1>0, <2>1, <3>1, <3>2, <3>3, MapSame DEF Booking!Hold
    <3> QED
      BY <1>0, <1>w, <3>4 DEF Booking!BookingNext
  <2>3. CASE ~NewReservation(r)
    BY <1>0, <1>1, <2>1, <2>3, MapSame DEF ReservationAfter, Booking!promise
  <2> QED
    BY <2>2, <2>3
<1>2. CASE saga[r].step = "request"
  <2>1. UNCHANGED <<reservation, incident>>
    BY <1>0, <1>2 DEF ReservationAfter, IncidentAfter
  <2>2. CASE request[Key(r)] = Absent
    <3>1. Offered' = [Offered EXCEPT ![Key(r)] = [answer |-> "asked", work |-> w]]
      <4>1. request' = [request EXCEPT ![Key(r)] = Wanted(r, "PENDING")]
        BY <1>0, <1>2, <2>2 DEF RequestAfter
      <4>2. WorkOf(Wanted(r, "PENDING")) = w
        BY <1>0
      <4>3. Offered' = [Offered EXCEPT ![Key(r)] =
                          [answer |-> "asked", work |-> WorkOf(Wanted(r, "PENDING"))]]
        BY <1>0, <4>1, OfferedNew
      <4> QED
        BY <4>2, <4>3
    <3>2. Offered[Key(r)].answer = "none"
      BY <1>0, <2>2 DEF Offered, AnswerOf, Absent
    <3>3. Holds[Key(r)].work = w
      BY <1>0, <1>2, <1>m DEF Holds, AfterReserve
    <3>4. Holds[Key(r)].stage # "none"
      <4>1. reservation[Key(r)].run = r
        BY <1>0, <1>2, <1>m DEF AfterReserve, WorkOf
      <4>2. reservation[Key(r)].status # "absent"
        BY <1>0, <4>1 DEF RefinementInv, NoHalfRecords
      <4> QED
        BY <1>0, <4>2, LiveIsActive
    <3>5. Booking!Ask(Key(r))
      BY <1>0, <2>1, <3>1, <3>2, <3>3, <3>4, MapSame DEF Booking!Ask
    <3> QED
      BY <1>0, <3>5 DEF Booking!BookingNext
  <2>3. CASE request[Key(r)] # Absent
    BY <1>0, <1>2, <2>1, <2>3, MapSame DEF RequestAfter, Booking!promise
  <2> QED
    BY <2>2, <2>3
<1>3. CASE saga[r].step = "confirm"
  <2>1. UNCHANGED <<request, incident>>
    BY <1>0, <1>3 DEF RequestAfter, IncidentAfter
  <2>2. reservation' = [reservation EXCEPT ![Key(r)].status = "CONFIRMED"]
        /\ reservation[Key(r)].status \in Active
    BY <1>0, <1>3 DEF ReservationAfter, Accepts
  <2>3. CASE reservation[Key(r)].status = "CONFIRMED"
    <3>1. reservation' = reservation
      BY <1>0, <1>t, <2>2, <2>3 DEF Records
    <3> QED
      BY <1>0, <2>1, <3>1, MapSame DEF Booking!promise
  <2>4. CASE reservation[Key(r)].status = "TENTATIVE"
    <3>1. Holds' = [Holds EXCEPT ![Key(r)].stage = "booked"]
      BY <1>0, <2>2, HoldsStatus DEF Statuses, StageOf
    <3>2. Holds[Key(r)].stage = "held" /\ Holds[Key(r)].work = w
      BY <1>0, <1>3, <1>m, <2>4 DEF Holds, StageOf, AfterReserve
    <3>3. Offered[Key(r)] = [answer |-> "yes", work |-> w]
      <4>1. request[Key(r)].status = "ACCEPTED" /\ WorkOf(request[Key(r)]) = w
        BY <1>3 DEF ConsentInv, ConsentOf, AfterRequest, AfterReserve, SamePayload, Wanted, WorkOf
      <4> QED
        BY <1>0, <4>1 DEF Offered, AnswerOf
    <3>4. Booking!Book(Key(r))
      BY <1>0, <2>1, <3>1, <3>2, <3>3, MapSame DEF Booking!Book
    <3> QED
      BY <1>0, <3>4 DEF Booking!BookingNext
  <2> QED
    BY <2>2, <2>3, <2>4 DEF Active
<1>4. CASE saga[r].step = "assign"
  <2>1. UNCHANGED <<reservation, request>>
        /\ incident' = [incident EXCEPT ![saga[r].inc].specialist = Chosen(r), ![saga[r].inc].run = r]
    BY <1>0, <1>4 DEF ReservationAfter, RequestAfter, IncidentAfter
  <2>2. Assignments' = [Assignments EXCEPT ![saga[r].inc] = w]
    <3>1. ASSUME NEW i \in Incidents
          PROVE  Assignments'[i] = IF i = saga[r].inc THEN w ELSE Assignments[i]
      BY <1>0, <1>t, <2>1 DEF Assignments
    <3> QED
      BY <3>1 DEF Assignments
  <2>3. Booking!Booked(w) \/ saga[r].inc \in Withdrawn
    <3>1. CASE resolution[saga[r].inc] = "over"
      BY <1>0, <3>1 DEF Withdrawn
    <3>2. CASE resolution[saga[r].inc] # "over"
      <4>1. reservation[Key(r)].status = "CONFIRMED" /\ WorkOf(reservation[Key(r)]) = w
        BY <1>4, <1>m, <3>2 DEF RefinementInv, AssignsBooked, AfterReserve
      <4>2. Holds[Key(r)] = [stage |-> "booked", work |-> w]
        BY <1>0, <4>1 DEF Holds, StageOf
      <4> QED
        BY <1>0, <4>2 DEF Booking!Booked
    <3> QED
      BY <3>1, <3>2
  <2>4. Booking!Assign(w)
    BY <1>0, <2>1, <2>2, <2>3, MapSame DEF Booking!Assign
  <2> QED
    BY <1>w, <2>4 DEF Booking!BookingNext
<1>5. CASE saga[r].step = "patch"
  <2>1. UNCHANGED <<reservation, request>>
        /\ incident' = [incident EXCEPT ![saga[r].inc].status = "IN_PROGRESS"]
    BY <1>0, <1>5 DEF ReservationAfter, RequestAfter, IncidentAfter
  <2>2. \A i \in Incidents : incident'[i].run = incident[i].run /\ incident'[i].specialist = incident[i].specialist
    BY <1>0, <1>t, <2>1
  <2>3. Assignments' = Assignments
    BY <2>2 DEF Assignments
  <2> QED
    BY <1>0, <2>1, <2>3, MapSame DEF Booking!promise
<1> QED
  BY <1>0, <1>1, <1>2, <1>3, <1>4, <1>5 DEF CallSteps

\* Every step.
LEMMA StepRefines ==
  ASSUME Inv, [Next]_vars
  PROVE  [Booking!BookingNext]_(Booking!promise)
<1>1. ASSUME UNCHANGED <<reservation, request, incident, resolution>>
      PROVE  UNCHANGED Booking!promise
  BY <1>1, MapSame DEF Booking!promise
<1>2. ASSUME NEW r \in Runs, Compensate(r)
      PROVE  [Booking!BookingNext]_(Booking!promise)
  <2>1. Key(r) \in Keys /\ UNCHANGED <<request, incident, resolution>>
    BY <1>2, KeyIsKey DEF Inv, Compensate, Handling
  <2>2. reservation' = reservation \/ reservation' = Cancelled(Key(r))
    BY <1>2 DEF Compensate
  <2> QED
    BY <1>1, <2>1, <2>2, ReleaseStep DEF Inv, Cancelled
<1>3. ASSUME NEW r \in Runs, CancelCreated(r)
      PROVE  [Booking!BookingNext]_(Booking!promise)
  <2>1. PICK k \in saga[r].created : reservation' = reservation \/ reservation' = Cancelled(k)
    BY <1>3 DEF CancelCreated
  <2>2. k \in Keys /\ UNCHANGED <<request, incident, resolution>>
    BY <1>3, <2>1 DEF Inv, TypeInv, TypeOK, CancelCreated
  <2> QED
    BY <1>1, <2>1, <2>2, ReleaseStep DEF Inv, Cancelled
<1>4. ASSUME NEW r \in Runs,
             \/ StartSaga(r) \/ NextAllocation(r) \/ Refused(r) \/ Poll(r) \/ RecordAccepted(r)
             \/ EventWriteFails(r) \/ ResetUpdated(r) \/ EndRollback(r) \/ Settle(r) \/ Complete(r)
             \/ OtherTask(r)
      PROVE  UNCHANGED <<reservation, request, incident, resolution>>
  BY <1>4, OtherTaskStep, NamesAssumption
  DEF StartSaga, NextAllocation, Refused, Poll, RecordAccepted, EventWriteFails, ResetUpdated,
      EndRollback, Settle, Complete, services, ValidSpecialist
<1>5. UNCHANGED vars => UNCHANGED <<reservation, request, incident, resolution>>
  BY DEF vars, services
<1> QED
  BY <1>1, <1>2, <1>3, <1>4, <1>5, CallRefines, ServiceStepRefines DEF Next, SagaStep, OtherTask

\* The initial tables are those of the promise.
LEMMA InitRefines == Init => Booking!BookingInit
BY DEF Init, Booking!BookingInit, Holds, Offered, Assignments, Withdrawn, NoWork, StageOf,
       AnswerOf, Absent

\* The saga with its services implements the booking promise, whatever is
\* refused, lost, repeated after a crash or resolved by the simulation.
THEOREM PromiseKept == Spec => KeepsBookingPromise
<1>1. Init => Inv
  BY TypeInvInit, ConsentInit, BookedInit, RefinementInit DEF Inv
<1>2. Inv /\ [Next]_vars => Inv'
  BY InvStep
<1>3. Inv /\ [Next]_vars => [Booking!BookingNext]_(Booking!promise)
  BY StepRefines
<1> QED
  BY <1>1, <1>2, <1>3, InitRefines, PTL DEF Spec, KeepsBookingPromise, Booking!BookingSpec
-----------------------------------------------------------------------------
(* The verdict                                                             *)

\* What a saga under way knows of its verdict: it has refused one pair of its
\* plan or none, it fails only with a plan, and while an allocation is handled
\* nothing has been decided.  Its plan avoids what was excluded before.
VerdictOf(r) ==
  saga[r].step \notin {"idle", "complete", "done"} =>
    /\ PlanOf(r) \cap excluded[r] = {}
    /\ IF saga[r].replan THEN \E pair \in PlanOf(r) : saga[r].rejected = {pair}
       ELSE saga[r].rejected = {}
    /\ saga[r].failed => PlanOf(r) # {}
    /\ saga[r].step \in Handling \cup {"next"} => ~saga[r].replan /\ ~saga[r].failed

VerdictInv == \A r \in Runs : VerdictOf(r)

\* A run leaves its plan and its results as they are, and goes on.
GoesOn(r) ==
  /\ saga[r].step \notin {"idle", "complete", "done"}
  /\ saga'[r].step \notin {"idle", "complete", "done"}
  /\ saga'[r].plan = saga[r].plan
  /\ round'[r] = round[r] /\ excluded'[r] = excluded[r] /\ outcome'[r] = outcome[r]
  /\ checkpoint'[r] = checkpoint[r]

\* A pair whose allocation is handled is in the plan.
LEMMA HandledIsPlanned ==
  ASSUME TypeInv, NEW r \in Runs, saga[r].step \in Handling
  PROVE  <<Chosen(r), saga[r].inc>> \in PlanOf(r)
<1>1. saga[r].inc \in Incidents /\ Chosen(r) \in Specialists
  BY KeyIsKey
<1> QED
  BY <1>1, NamesAssumption DEF PlanOf, Chosen

\* Nothing of a run moves that another run, or a service, is the one to move.
LEMMA OthersKeepVerdict ==
  ASSUME TypeOK, NEW r \in Runs, StartSaga(r) \/ SagaStep(r) \/ OtherTask(r),
         NEW q \in Runs \ {r}
  PROVE  /\ saga'[q] = saga[q] /\ round'[q] = round[q]
         /\ excluded'[q] = excluded[q] /\ outcome'[q] = outcome[q]
<1>1. CASE OtherTask(r)
  BY <1>1, OtherTaskStep, OthersStay DEF TypeOK
<1>2. CASE Settle(r)
  BY <1>2, OthersStay DEF Settle, TypeOK
<1>3. CASE ~OtherTask(r) /\ ~Settle(r)
  <2>1. excluded' = excluded
    BY <1>3
    DEF StartSaga, SagaStep, NextAllocation, Call, Refused, Poll, RecordAccepted, EventWriteFails,
        Compensate, CancelCreated, ResetUpdated, EndRollback, Complete, results
  <2> QED
    BY <2>1, OthersStay
<1> QED
  BY <1>1, <1>2, <1>3

LEMMA SameVerdict ==
  ASSUME NEW q \in Runs, VerdictOf(q), saga'[q] = saga[q], excluded'[q] = excluded[q]
  PROVE  VerdictOf(q)'
BY DEF VerdictOf, PlanOf

\* An exception changes nothing of the verdict but that the saga has failed.
LEMMA RaisedVerdict ==
  ASSUME TypeInv, VerdictInv, NEW r \in Runs, saga[r].step \in Handling,
         NEW local \in {saga[r], Noted(r)}, saga' = [saga EXCEPT ![r] = Raised(local)],
         UNCHANGED results
  PROVE  GoesOn(r) /\ VerdictOf(r)'
<1>1. saga \in [Runs -> Locals] /\ saga[r] \in Locals
  BY DEF TypeInv, TypeOK, Locals, Steps
<1>2. /\ local.plan = saga[r].plan /\ local.rejected = saga[r].rejected
      /\ local.replan = saga[r].replan
      /\ Raised(local).plan = local.plan /\ Raised(local).rejected = local.rejected
      /\ Raised(local).replan = local.replan /\ Raised(local).step = "rollback"
  BY <1>1 DEF Noted, Raised, Locals
<1>3. saga'[r] = Raised(local)
  BY <1>1
<1>4. saga[r].step \notin {"idle", "complete", "done"}
  BY DEF Handling, CallSteps
<1>5. GoesOn(r)
  BY <1>2, <1>3, <1>4 DEF GoesOn, results
<1>6. PlanOf(r)' = PlanOf(r) /\ PlanOf(r) # {}
  BY <1>2, <1>3, HandledIsPlanned DEF PlanOf
<1>7. VerdictOf(r)'
  BY <1>2, <1>3, <1>4, <1>6 DEF VerdictInv, VerdictOf, Handling, CallSteps, results
<1> QED
  BY <1>5, <1>7

\* What changes neither the lists of the verdict nor leaves the saga keeps both.
LEMMA MovesOnVerdict ==
  ASSUME VerdictInv, NEW r \in Runs, saga[r].step \notin {"idle", "complete", "done"},
         saga'[r].plan = saga[r].plan, saga'[r].rejected = saga[r].rejected,
         saga'[r].failed = saga[r].failed, saga'[r].replan = saga[r].replan,
         saga'[r].step \notin {"idle", "complete", "done"},
         saga'[r].step \in Handling \cup {"next"} => saga[r].step \in Handling \cup {"next"},
         UNCHANGED results
  PROVE  GoesOn(r) /\ VerdictOf(r)'
<1>1. GoesOn(r)
  BY DEF GoesOn, results
<1>2. PlanOf(r)' = PlanOf(r)
  BY DEF PlanOf
<1>3. VerdictOf(r)'
  BY <1>2 DEF VerdictInv, VerdictOf, results
<1> QED
  BY <1>1, <1>3

\* The steps inside a saga leave what the graph sees as it is, and the verdict to
\* come sound.
LEMMA CompensateVerdict ==
  ASSUME TypeInv, VerdictInv, NEW r \in Runs, Compensate(r)
  PROVE  GoesOn(r) /\ VerdictOf(r)'
<1> DEFINE pair == <<Chosen(r), saga[r].inc>>
           left == [saga[r] EXCEPT !.rejected = @ \cup {pair}, !.replan = TRUE, !.step = "settle"]
           removed == [left EXCEPT !.created = @ \ {Key(r)}]
<1>1. saga \in [Runs -> Locals] /\ saga[r] \in Locals /\ saga[r].step = "compensate"
  BY DEF TypeInv, TypeOK, Locals, Steps, Compensate
<1>2. pair \in PlanOf(r) /\ pair \in Specialists \X Incidents
  BY <1>1, HandledIsPlanned, KeyIsKey DEF Handling
<1>3. saga[r].rejected = {}
  BY <1>1 DEF VerdictInv, VerdictOf, Handling
<1>4. left \in Locals /\ removed \in Locals
  BY <1>1, <1>2, LeftType
<1>5. \A local \in {left, removed} :
        /\ local.plan = saga[r].plan /\ local.rejected = {pair} /\ local.replan /\ local.step = "settle"
        /\ Raised(local).plan = local.plan /\ Raised(local).rejected = local.rejected
        /\ Raised(local).replan = local.replan /\ Raised(local).step = "rollback"
  BY <1>1, <1>3 DEF Locals, Raised
<1>6. /\ saga'[r] \in {left, removed, Raised(left), Raised(removed)}
      /\ UNCHANGED results
  BY <1>1 DEF Compensate
<1> HIDE DEF left, removed, pair
<1>7. /\ saga'[r].plan = saga[r].plan /\ saga'[r].rejected = {pair} /\ saga'[r].replan
      /\ saga'[r].step \in {"settle", "rollback"}
  BY <1>5, <1>6
<1>8. PlanOf(r)' = PlanOf(r)
  BY <1>7 DEF PlanOf
<1>9. GoesOn(r)
  BY <1>1, <1>6, <1>7 DEF GoesOn, results
<1>10. VerdictOf(r)'
  BY <1>1, <1>2, <1>6, <1>7, <1>8 DEF VerdictInv, VerdictOf, Handling, CallSteps, results
<1> QED
  BY <1>9, <1>10

LEMMA InnerVerdict ==
  ASSUME TypeInv, VerdictInv, NEW r \in Runs,
         \/ NextAllocation(r) \/ Call(r) \/ Refused(r) \/ Poll(r) \/ RecordAccepted(r)
         \/ EventWriteFails(r) \/ Compensate(r) \/ CancelCreated(r) \/ ResetUpdated(r)
         \/ EndRollback(r)
  PROVE  GoesOn(r) /\ VerdictOf(r)'
<1>1. saga \in [Runs -> Locals] /\ saga[r] \in Locals
  BY DEF TypeInv, TypeOK, Locals, Steps
<1>2. CASE Refused(r) \/ EventWriteFails(r)
  <2>1. saga[r].step \in Handling /\ saga' = [saga EXCEPT ![r] = Raised(saga[r])] /\ UNCHANGED results
    BY <1>2 DEF Refused, EventWriteFails, Handling
  <2> QED
    BY <2>1, RaisedVerdict
<1>3. CASE Call(r)
  <2>1. saga[r].step \in CallSteps /\ saga[r].step \in Handling /\ UNCHANGED results
    BY <1>3 DEF Call, Handling
  <2>2. CASE saga' = [saga EXCEPT ![r] = [Noted(r) EXCEPT !.step = AfterCall(@)]]
    <3>1. Noted(r).step = saga[r].step
      BY <1>1 DEF Noted, Locals
    <3>2. AfterCall(saga[r].step) \in Handling
      BY <2>1 DEF AfterCall, CallSteps, Handling
    <3>3. /\ saga'[r].plan = saga[r].plan /\ saga'[r].rejected = saga[r].rejected
          /\ saga'[r].failed = saga[r].failed /\ saga'[r].replan = saga[r].replan
          /\ saga'[r].step = AfterCall(saga[r].step)
      BY <1>1, <2>2, <3>1 DEF Noted, Locals
    <3>4. saga[r].step \notin {"idle", "complete", "done"} /\ saga'[r].step \notin {"idle", "complete", "done"}
      BY <2>1, <3>2, <3>3 DEF Handling, CallSteps
    <3> QED
      BY <2>1, <3>3, <3>4, MovesOnVerdict
  <2>3. CASE \/ saga' = [saga EXCEPT ![r] = Raised(saga[r])]
             \/ saga' = [saga EXCEPT ![r] = Raised(Noted(r))]
    BY <2>1, <2>3, RaisedVerdict
  <2> QED
    BY <1>3, <2>2, <2>3 DEF Call
<1>4. CASE Compensate(r)
  BY <1>4, CompensateVerdict
<1>5. CASE NextAllocation(r) \/ Poll(r) \/ RecordAccepted(r)
  <2>1. /\ saga[r].step \in {"next", "poll", "record"} /\ UNCHANGED results
        /\ saga'[r].step \in {"settle", "reserve", "confirm", "compensate", "poll", "next"}
        /\ saga'[r].plan = saga[r].plan /\ saga'[r].rejected = saga[r].rejected
        /\ saga'[r].failed = saga[r].failed /\ saga'[r].replan = saga[r].replan
    <3>1. CASE NextAllocation(r)
      <4>1. \/ saga'[r] = [saga[r] EXCEPT !.step = "settle"]
            \/ \E i \in saga[r].todo :
                 saga'[r] = [saga[r] EXCEPT !.step = "reserve", !.inc = i, !.todo = @ \ {i}, !.polls = 0]
        BY <1>1, <3>1 DEF NextAllocation
      <4>2. saga[r].step = "next" /\ UNCHANGED results
        BY <3>1 DEF NextAllocation
      <4> QED
        BY <1>1, <4>1, <4>2 DEF Locals
    <3>2. CASE Poll(r)
      <4>1. \/ \E s \in {"confirm", "compensate"} : saga'[r] = [saga[r] EXCEPT !.step = s]
            \/ saga'[r] = Unanswered(saga[r])
        BY <1>1, <3>2 DEF Poll
      <4>2. /\ Unanswered(saga[r]).step \in {"compensate", "poll"}
            /\ Unanswered(saga[r]).plan = saga[r].plan
            /\ Unanswered(saga[r]).rejected = saga[r].rejected
            /\ Unanswered(saga[r]).failed = saga[r].failed
            /\ Unanswered(saga[r]).replan = saga[r].replan
        BY <1>1 DEF Unanswered, Locals
      <4>3. saga[r].step = "poll" /\ UNCHANGED results
        BY <3>2 DEF Poll
      <4> QED
        BY <1>1, <4>1, <4>2, <4>3 DEF Locals
    <3>3. CASE RecordAccepted(r)
      BY <1>1, <3>3 DEF RecordAccepted, Locals
    <3> QED
      BY <1>5, <3>1, <3>2, <3>3
  <2>2. saga[r].step \in Handling \cup {"next"} /\ saga[r].step \notin {"idle", "complete", "done"}
    BY <2>1 DEF Handling
  <2>3. saga'[r].step \notin {"idle", "complete", "done"}
    BY <2>1
  <2> QED
    BY <2>1, <2>2, <2>3, MovesOnVerdict
<1>6. CASE CancelCreated(r) \/ ResetUpdated(r) \/ EndRollback(r)
  <2>1. /\ saga[r].step = "rollback" /\ saga'[r].step \in {"rollback", "settle"} /\ UNCHANGED results
        /\ saga'[r].plan = saga[r].plan /\ saga'[r].rejected = saga[r].rejected
        /\ saga'[r].failed = saga[r].failed /\ saga'[r].replan = saga[r].replan
    BY <1>1, <1>6 DEF CancelCreated, ResetUpdated, EndRollback, Locals
  <2>2. /\ saga[r].step \notin {"idle", "complete", "done"} /\ saga'[r].step \notin {"idle", "complete", "done"}
        /\ saga'[r].step \notin Handling \cup {"next"}
    BY <2>1 DEF Handling, CallSteps
  <2> QED
    BY <2>1, <2>2, MovesOnVerdict
<1> QED
  BY <1>2, <1>3, <1>4, <1>5, <1>6

\* How a run's part of what the graph sees moves in one step of the run.
Begins(r) ==
  /\ saga[r].step = "idle" /\ round[r] <= MaxReplan
  /\ saga'[r].step = "next" /\ PlanOf(r)' \in SUBSET ((Specialists \X Incidents) \ excluded[r])
  /\ outcome' = [outcome EXCEPT ![r] = "none"] /\ UNCHANGED <<round, excluded, checkpoint>>

EndsWith(r, what) ==
  /\ saga[r].step = "settle" /\ saga'[r].step = "complete" /\ saga'[r].plan = saga[r].plan
  /\ outcome' = [outcome EXCEPT ![r] = what] /\ UNCHANGED <<round, excluded, checkpoint>>

Refuses(r, pair) ==
  /\ saga[r].step = "settle" /\ saga'[r] = Idle
  /\ pair \in PlanOf(r) /\ pair \notin excluded[r]
  /\ round' = [round EXCEPT ![r] = @ + 1]
  /\ excluded' = [excluded EXCEPT ![r] = @ \cup {pair}]
  /\ outcome' = [outcome EXCEPT ![r] = "REPLANNING"] /\ UNCHANGED checkpoint

Closes(r) ==
  /\ saga[r].step = "complete" /\ saga'[r].step = "done" /\ saga'[r].plan = saga[r].plan
  /\ checkpoint' \in {checkpoint, [checkpoint EXCEPT ![r] = Counters(r)]}
  /\ UNCHANGED <<round, excluded, outcome>>

Pauses(r) ==
  /\ saga[r].step = "idle" /\ saga'[r] = saga[r]
  /\ checkpoint' = [checkpoint EXCEPT ![r] = Counters(r)]
  /\ UNCHANGED <<round, excluded, outcome>>

StartsAnew(r) ==
  /\ saga[r].step = "done" => outcome[r] = "FAILED_SAGA"
  /\ saga'[r] = Idle
  /\ round' = [round EXCEPT ![r] = checkpoint[r].round]
  /\ excluded' = [excluded EXCEPT ![r] = checkpoint[r].excluded]
  /\ UNCHANGED <<outcome, checkpoint>>

VerdictMove(r) ==
  \/ GoesOn(r) /\ UNCHANGED results
  \/ Begins(r)
  \/ EndsWith(r, "EXECUTED")
  \/ PlanOf(r) # {} /\ EndsWith(r, "FAILED_SAGA")
  \/ \E pair \in PlanOf(r) : Refuses(r, pair)
  \/ Closes(r) \/ Pauses(r) \/ StartsAnew(r)

LEMMA StartVerdict ==
  ASSUME TypeInv, NEW r \in Runs, StartSaga(r)
  PROVE  Begins(r) /\ VerdictOf(r)'
<1>1. PICK plan \in [Incidents -> Specialists \cup {Nobody}] :
        /\ \A i \in {j \in Incidents : plan[j] # Nobody} : <<plan[i], i>> \notin excluded[r]
        /\ saga' = [saga EXCEPT ![r] = [Idle EXCEPT !.step = "next", !.plan = plan,
                                          !.todo = {j \in Incidents : plan[j] # Nobody}]]
  BY DEF StartSaga
<1>2. /\ saga[r].step = "idle" /\ round[r] <= MaxReplan
      /\ outcome' = [outcome EXCEPT ![r] = "none"] /\ UNCHANGED <<round, excluded, checkpoint>>
  BY DEF StartSaga
<1>3. /\ saga'[r].step = "next" /\ saga'[r].plan = plan /\ saga'[r].rejected = {}
      /\ saga'[r].failed = FALSE /\ saga'[r].replan = FALSE
  BY <1>1 DEF TypeInv, TypeOK, Idle
<1>4. PlanOf(r)' \in SUBSET ((Specialists \X Incidents) \ excluded[r])
  BY <1>1, <1>3 DEF PlanOf
<1>5. VerdictOf(r)'
  BY <1>2, <1>3, <1>4 DEF VerdictOf
<1> QED
  BY <1>2, <1>3, <1>4, <1>5 DEF Begins

LEMMA SettleVerdict ==
  ASSUME TypeInv, VerdictInv, NEW r \in Runs, Settle(r)
  PROVE  VerdictMove(r) /\ VerdictOf(r)'
<1>1. /\ saga \in [Runs -> Locals] /\ saga[r] \in Locals /\ saga[r].step = "settle"
      /\ excluded \in [Runs -> SUBSET (Specialists \X Incidents)]
      /\ round \in [Runs -> 0..(MaxReplan + 1)]
  BY DEF TypeInv, TypeOK, Locals, Steps, Settle
<1>2. VerdictOf(r) /\ saga[r].step \notin {"idle", "complete", "done"}
  BY <1>1 DEF VerdictInv
<1>3. CASE saga[r].replan
  <2>1. PICK pair \in PlanOf(r) : saga[r].rejected = {pair}
    BY <1>2, <1>3 DEF VerdictOf
  <2>2. pair \notin excluded[r]
    BY <1>2 DEF VerdictOf
  <2>3. saga'[r] = Idle /\ outcome' = [outcome EXCEPT ![r] = "REPLANNING"]
    BY <1>1, <1>3 DEF Settle, Outcome
  <2>4. /\ round' = [round EXCEPT ![r] = @ + 1]
        /\ excluded' = [excluded EXCEPT ![r] = @ \cup {pair}]
    BY <1>3, <2>1 DEF Settle
  <2>5. Refuses(r, pair)
    BY <1>1, <2>2, <2>3, <2>4 DEF Refuses, Settle
  <2>6. VerdictOf(r)'
    BY <2>3 DEF VerdictOf, Idle
  <2> QED
    BY <2>5, <2>6 DEF VerdictMove
<1>4. CASE ~saga[r].replan
  <2>1. saga[r].rejected = {} /\ (saga[r].failed => PlanOf(r) # {})
    BY <1>2, <1>4 DEF VerdictOf
  <2>2. saga'[r] = [saga[r] EXCEPT !.step = "complete"]
    BY <1>1, <1>4 DEF Settle
  <2>3. saga'[r].step = "complete" /\ saga'[r].plan = saga[r].plan
    BY <1>1, <2>2 DEF Locals
  <2>4. UNCHANGED <<round, excluded, checkpoint>>
    BY <1>1, <1>4, <2>1 DEF Settle
  <2>5. outcome' = [outcome EXCEPT ![r] = IF saga[r].failed THEN "FAILED_SAGA" ELSE "EXECUTED"]
    BY <1>4 DEF Settle, Outcome
  <2>6. VerdictOf(r)'
    BY <2>3 DEF VerdictOf
  <2> QED
    BY <1>1, <2>1, <2>3, <2>4, <2>5, <2>6 DEF VerdictMove, EndsWith
<1> QED
  BY <1>3, <1>4

LEMMA RunVerdict ==
  ASSUME TypeInv, VerdictInv, NEW r \in Runs,
         StartSaga(r) \/ SagaStep(r) \/ OtherTask(r)
  PROVE  VerdictMove(r) /\ VerdictOf(r)'
<1>0. saga \in [Runs -> Locals]
  BY DEF TypeInv, TypeOK, Locals, Steps
<1>1. CASE Crash(r) \/ Reapprove(r)
  <2>1. StartsAnew(r)
    BY <1>0, <1>1 DEF Crash, Reapprove, Resumed, StartsAnew
  <2> QED
    BY <2>1 DEF VerdictMove, StartsAnew, VerdictOf, Idle
<1>2. CASE AskManager(r)
  <2>1. CASE Resumed(r)
    <3>1. StartsAnew(r)
      BY <1>0, <1>2, <2>1 DEF AskManager, Resumed, StartsAnew
    <3> QED
      BY <3>1 DEF VerdictMove, StartsAnew, VerdictOf, Idle
  <2>2. CASE ~Resumed(r)
    <3>1. Pauses(r)
      BY <1>2, <2>2 DEF AskManager, Pauses
    <3> QED
      BY <3>1 DEF VerdictMove, Pauses, VerdictOf
  <2> QED
    BY <2>1, <2>2
<1>3. CASE Complete(r)
  <2>1. Closes(r)
    BY <1>0, <1>3 DEF Complete, Closes, Locals
  <2> QED
    BY <2>1 DEF VerdictMove, Closes, VerdictOf
<1>4. CASE SagaStep(r) /\ ~Settle(r) /\ ~Complete(r)
  <2>1. UNCHANGED results
    BY <1>4 DEF SagaStep, NextAllocation, Call, Refused, Poll, RecordAccepted, EventWriteFails,
                Compensate, CancelCreated, ResetUpdated, EndRollback
  <2>2. GoesOn(r) /\ VerdictOf(r)'
    BY <1>4, InnerVerdict DEF SagaStep
  <2> QED
    BY <2>1, <2>2 DEF VerdictMove
<1> QED
  BY <1>1, <1>2, <1>3, <1>4, StartVerdict, SettleVerdict DEF VerdictMove, OtherTask

LEMMA VerdictInit == Init => VerdictInv
BY DEF Init, VerdictInv, VerdictOf, Idle

LEMMA VerdictStep ==
  ASSUME TypeInv, VerdictInv, [Next]_vars
  PROVE  VerdictInv'
<1>1. ASSUME UNCHANGED <<saga, excluded>>
      PROVE  VerdictInv'
  BY <1>1, SameVerdict DEF VerdictInv
<1>2. CASE ServiceStep \/ UNCHANGED vars
  <2>1. UNCHANGED <<saga, excluded>>
    BY <1>2 DEF vars, results, ServiceStep, Respond, ExpireRequest, ExpireReservation,
                ResolveIncident, ReleaseWorkload
  <2> QED
    BY <1>1, <2>1
<1>3. ASSUME NEW r \in Runs, StartSaga(r) \/ SagaStep(r) \/ OtherTask(r), NEW q \in Runs
      PROVE  VerdictOf(q)'
  <2>1. CASE q = r
    BY <1>3, <2>1, RunVerdict
  <2>2. CASE q # r
    BY <1>3, <2>2, OthersKeepVerdict, SameVerdict DEF VerdictInv, TypeInv
  <2> QED
    BY <2>1, <2>2
<1> QED
  BY <1>2, <1>3 DEF Next, OtherTask, VerdictInv

Phases == [r \in Runs |-> Phase(r)]
PlansOfRuns == [r \in Runs |-> PlanOf(r)]

\* A step that moves the locals of one run at most moves its entries only.
LEMMA EntriesMove ==
  ASSUME NEW r \in Runs, \A q \in Runs \ {r} : saga'[q] = saga[q]
  PROVE  /\ Phases' = [Phases EXCEPT ![r] = Phase(r)']
         /\ PlansOfRuns' = [PlansOfRuns EXCEPT ![r] = PlanOf(r)']
<1>1. \A q \in Runs \ {r} : Phase(q)' = Phase(q) /\ PlanOf(q)' = PlanOf(q)
  BY DEF Phase, PlanOf
<1>2. ASSUME NEW q \in Runs
      PROVE  /\ Phases'[q] = [Phases EXCEPT ![r] = Phase(r)'][q]
             /\ PlansOfRuns'[q] = [PlansOfRuns EXCEPT ![r] = PlanOf(r)'][q]
  BY <1>1 DEF Phases, PlansOfRuns
<1> QED
  BY <1>2 DEF Phases, PlansOfRuns

\* An idle run has no plan.
LEMMA IdleHasNone ==
  ASSUME NEW r \in Runs, saga'[r] = Idle
  PROVE  Phase(r)' = "idle" /\ PlanOf(r)' = {}
BY DEF Phase, PlanOf, Idle

\* Every move of a run is a step of the verdict, or none.
LEMMA MoveRefines ==
  ASSUME NEW r \in Runs, VerdictMove(r), \A q \in Runs \ {r} : saga'[q] = saga[q]
  PROVE  [Verdict!VerdictNext]_(Verdict!verdict)
<1>1. /\ Phases' = [Phases EXCEPT ![r] = Phase(r)'] /\ Phases[r] = Phase(r)
      /\ PlansOfRuns' = [PlansOfRuns EXCEPT ![r] = PlanOf(r)'] /\ PlansOfRuns[r] = PlanOf(r)
  BY EntriesMove DEF Phases, PlansOfRuns
<1>2. CASE GoesOn(r) /\ UNCHANGED results
  <2>1. Phase(r)' = Phase(r) /\ PlanOf(r)' = PlanOf(r)
    BY <1>2 DEF GoesOn, Phase, PlanOf
  <2>2. Phases' = Phases /\ PlansOfRuns' = PlansOfRuns
    BY <1>1, <2>1 DEF Phases, PlansOfRuns
  <2> QED
    BY <1>2, <2>2 DEF Verdict!verdict, Phases, PlansOfRuns, results
<1>3. CASE Begins(r)
  <2>1. Phase(r) = "idle" /\ Phase(r)' = "running"
    BY <1>3 DEF Begins, Phase
  <2>2. Verdict!Begin(r, PlanOf(r)')
    BY <1>1, <1>3, <2>1 DEF Begins, Verdict!Begin, Phases, PlansOfRuns
  <2>3. PlanOf(r)' \in SUBSET ((Specialists \X Incidents) \ excluded[r])
    BY <1>3 DEF Begins
  <2> QED
    BY <2>2, <2>3 DEF Verdict!VerdictNext
<1>4. ASSUME NEW what, EndsWith(r, what)
      PROVE  Verdict!Ends(r, what)
  <2>1. Phase(r) = "running" /\ Phase(r)' = "settled" /\ PlanOf(r)' = PlanOf(r)
    BY <1>4 DEF EndsWith, Phase, PlanOf
  <2>2. PlansOfRuns' = PlansOfRuns
    BY <1>1, <2>1 DEF PlansOfRuns
  <2> QED
    BY <1>1, <1>4, <2>1, <2>2 DEF EndsWith, Verdict!Ends, Phases, PlansOfRuns
<1>5. CASE EndsWith(r, "EXECUTED")
  BY <1>4, <1>5 DEF Verdict!VerdictNext, Verdict!Execute
<1>6. CASE PlanOf(r) # {} /\ EndsWith(r, "FAILED_SAGA")
  <2>1. Verdict!Fail(r)
    BY <1>1, <1>4, <1>6 DEF Verdict!Fail, PlansOfRuns
  <2> QED
    BY <2>1 DEF Verdict!VerdictNext
<1>7. ASSUME NEW pair \in PlanOf(r), Refuses(r, pair)
      PROVE  Verdict!VerdictNext
  <2>1. Phase(r) = "running" /\ Phase(r)' = "idle" /\ PlanOf(r)' = {}
    BY <1>7, IdleHasNone DEF Refuses, Phase
  <2>2. Verdict!Refuse(r, pair)
    BY <1>1, <1>7, <2>1 DEF Refuses, Verdict!Refuse, Phases, PlansOfRuns
  <2> QED
    BY <1>1, <2>2 DEF Verdict!VerdictNext, PlansOfRuns
<1>8. CASE StartsAnew(r)
  <2>1. Phase(r)' = "idle" /\ PlanOf(r)' = {}
    BY <1>8, IdleHasNone DEF StartsAnew
  <2>2. Phase(r) = "done" => outcome[r] = "FAILED_SAGA"
    BY <1>8 DEF StartsAnew, Phase
  <2>3. Verdict!Anew(r)
    BY <1>1, <1>8, <2>1, <2>2 DEF StartsAnew, Verdict!Anew, Phases, PlansOfRuns
  <2> QED
    BY <2>3 DEF Verdict!VerdictNext
<1>9. CASE Closes(r)
  <2>1. Phase(r) = "settled" /\ Phase(r)' = "done" /\ PlanOf(r)' = PlanOf(r)
    BY <1>9 DEF Closes, Phase, PlanOf
  <2>2. PlansOfRuns' = PlansOfRuns
    BY <1>1, <2>1 DEF PlansOfRuns
  <2>3. Verdict!Close(r)
    BY <1>1, <1>9, <2>1, <2>2
    DEF Closes, Verdict!Close, Verdict!Current, Counters, Phases, PlansOfRuns
  <2> QED
    BY <2>3 DEF Verdict!VerdictNext
<1>10. CASE Pauses(r)
  <2>1. Phase(r) = "idle" /\ Phase(r)' = Phase(r) /\ PlanOf(r)' = PlanOf(r)
    BY <1>10 DEF Pauses, Phase, PlanOf
  <2>2. Phases' = Phases /\ PlansOfRuns' = PlansOfRuns
    BY <1>1, <2>1 DEF Phases, PlansOfRuns
  <2>3. Verdict!Pause(r)
    BY <1>1, <1>10, <2>1, <2>2
    DEF Pauses, Verdict!Pause, Verdict!Current, Counters, Phases, PlansOfRuns
  <2> QED
    BY <2>3 DEF Verdict!VerdictNext
<1> QED
  BY <1>2, <1>3, <1>5, <1>6, <1>7, <1>8, <1>9, <1>10 DEF VerdictMove

LEMMA VerdictRefines ==
  ASSUME TypeInv, VerdictInv, [Next]_vars
  PROVE  [Verdict!VerdictNext]_(Verdict!verdict)
<1>1. CASE ServiceStep \/ UNCHANGED vars
  <2>1. UNCHANGED <<saga, results>>
    BY <1>1 DEF vars, results, ServiceStep, Respond, ExpireRequest, ExpireReservation,
                ResolveIncident, ReleaseWorkload
  <2>2. Phases' = Phases /\ PlansOfRuns' = PlansOfRuns
    BY <2>1 DEF Phases, PlansOfRuns, Phase, PlanOf
  <2> QED
    BY <2>1, <2>2 DEF Verdict!verdict, Phases, PlansOfRuns, results
<1>2. ASSUME NEW r \in Runs, StartSaga(r) \/ SagaStep(r) \/ OtherTask(r)
      PROVE  [Verdict!VerdictNext]_(Verdict!verdict)
  BY <1>2, RunVerdict, MoveRefines, OthersKeepVerdict DEF TypeInv
<1> QED
  BY <1>1, <1>2 DEF Next, OtherTask

LEMMA VerdictInitRefines == Init => Verdict!VerdictInit
BY DEF Init, Verdict!VerdictInit, Verdict!Current, Phase, PlanOf, Idle

\* Whatever is lost, refused or repeated within an execution, the graph sees one
\* verdict for each plan, and an exclusion for each round.
THEOREM VerdictKept == Spec => KeepsVerdict
<1>1. Init => TypeInv /\ VerdictInv
  BY TypeInvInit, VerdictInit
<1>2. TypeInv /\ VerdictInv /\ [Next]_vars => (TypeInv /\ VerdictInv)'
  BY TypeInvStep, VerdictStep
<1>3. TypeInv /\ VerdictInv /\ [Next]_vars => [Verdict!VerdictNext]_(Verdict!verdict)
  BY VerdictRefines
<1> QED
  BY <1>1, <1>2, <1>3, VerdictInitRefines, PTL DEF Spec, KeepsVerdict, Verdict!VerdictSpec

\* The saga keeps what it promises to the services and to the graph.
THEOREM PromisesKept == Spec => KeepsPromises
BY PromiseKept, VerdictKept, PTL DEF KeepsPromises

-----------------------------------------------------------------------------
\* What a checkpoint holds is counted as well.
SavedExcludes ==
  \A r \in Runs : /\ IsFiniteSet(checkpoint[r].excluded)
                  /\ Cardinality(checkpoint[r].excluded) = checkpoint[r].round

Counted == EveryRoundExcludes /\ SavedExcludes

\* A step of a run excludes one new pair and counts a round, does neither, or
\* takes both from a checkpoint or to it.
LEMMA ExclusionsMove ==
  ASSUME TypeInv, NEW r \in Runs, VerdictMove(r), Counted
  PROVE  Counted'
<1>1. /\ excluded \in [Runs -> SUBSET (Specialists \X Incidents)]
      /\ round \in [Runs -> 0..(MaxReplan + 1)] /\ DOMAIN checkpoint = Runs
  BY DEF TypeInv, TypeOK
<1>2. CASE UNCHANGED <<excluded, round, checkpoint>>
  BY <1>2 DEF Counted, EveryRoundExcludes, SavedExcludes
<1>3. ASSUME NEW pair \in PlanOf(r), Refuses(r, pair)
      PROVE  Counted'
  <2>1. pair \notin excluded[r] /\ IsFiniteSet(excluded[r]) /\ Cardinality(excluded[r]) = round[r]
    BY <1>3 DEF Refuses, Counted, EveryRoundExcludes
  <2>2. /\ IsFiniteSet(excluded[r] \cup {pair})
        /\ Cardinality(excluded[r] \cup {pair}) = round[r] + 1
    BY <2>1, FS_AddElement
  <2>3. /\ excluded'[r] = excluded[r] \cup {pair} /\ round'[r] = round[r] + 1
        /\ \A q \in Runs \ {r} : excluded'[q] = excluded[q] /\ round'[q] = round[q]
    BY <1>1, <1>3 DEF Refuses
  <2>4. EveryRoundExcludes'
    BY <2>2, <2>3 DEF Counted, EveryRoundExcludes
  <2>5. SavedExcludes'
    BY <1>3 DEF Refuses, Counted, SavedExcludes
  <2> QED
    BY <2>4, <2>5 DEF Counted
<1>4. CASE Closes(r) \/ Pauses(r)
  <2>1. EveryRoundExcludes'
    BY <1>4 DEF Closes, Pauses, Counted, EveryRoundExcludes
  <2>2. ASSUME NEW q \in Runs
        PROVE  checkpoint'[q] = checkpoint[q] \/ checkpoint'[q] = Counters(q)
    BY <1>1, <1>4 DEF Closes, Pauses
  <2>3. \A q \in Runs : Counters(q).round = round[q] /\ Counters(q).excluded = excluded[q]
    BY DEF Counters
  <2>4. SavedExcludes'
    BY <2>2, <2>3 DEF Counted, EveryRoundExcludes, SavedExcludes
  <2> QED
    BY <2>1, <2>4 DEF Counted
<1>5. CASE StartsAnew(r)
  <2>1. ASSUME NEW q \in Runs
        PROVE  \/ round'[q] = round[q] /\ excluded'[q] = excluded[q]
               \/ round'[q] = checkpoint[q].round /\ excluded'[q] = checkpoint[q].excluded
    BY <1>1, <1>5 DEF StartsAnew
  <2>2. EveryRoundExcludes'
    BY <2>1 DEF Counted, EveryRoundExcludes, SavedExcludes
  <2>3. SavedExcludes'
    BY <1>5 DEF StartsAnew, Counted, SavedExcludes
  <2> QED
    BY <2>2, <2>3 DEF Counted
<1> QED
  BY <1>2, <1>3, <1>4, <1>5 DEF VerdictMove, Begins, EndsWith, results

\* For each round that a task of a run counts a pair of its own was excluded:
\* a crash, a question or another approval takes back both, or neither.
THEOREM RoundsExclude == Spec => []EveryRoundExcludes
<1>1. Init => TypeInv /\ VerdictInv /\ Counted
  <2> SUFFICES ASSUME Init PROVE Counted
    BY TypeInvInit, VerdictInit
  <2>1. \A r \in Runs : /\ excluded[r] = {} /\ round[r] = 0
                       /\ checkpoint[r].excluded = {} /\ checkpoint[r].round = 0
    BY DEF Init
  <2> QED
    BY <2>1, FS_EmptySet, Zenon DEF Counted, EveryRoundExcludes, SavedExcludes
<1>2. ASSUME TypeInv, VerdictInv, Counted, [Next]_vars
      PROVE  Counted'
  <2>1. CASE ServiceStep \/ UNCHANGED vars
    <3>1. UNCHANGED results
      BY <2>1 DEF vars, results, ServiceStep, Respond, ExpireRequest, ExpireReservation,
                  ResolveIncident, ReleaseWorkload
    <3> QED
      BY <1>2, <3>1 DEF results, Counted, EveryRoundExcludes, SavedExcludes
  <2>2. ASSUME NEW r \in Runs, StartSaga(r) \/ SagaStep(r) \/ OtherTask(r)
        PROVE  Counted'
    BY <1>2, <2>2, RunVerdict, ExclusionsMove
  <2> QED
    BY <1>2, <2>1, <2>2 DEF Next, OtherTask
<1>3. TypeInv /\ VerdictInv /\ Counted /\ [Next]_vars => (TypeInv /\ VerdictInv /\ Counted)'
  BY <1>2, TypeInvStep, VerdictStep
<1>4. Counted => EveryRoundExcludes
  BY DEF Counted
<1> QED
  BY <1>1, <1>3, <1>4, PTL DEF Spec

\* A task never counts more rounds than there are pairs, also if it may plan again
\* without limit.  A task that starts from a checkpoint counts from there.
COROLLARY RoundsRunOut ==
  ASSUME IsFiniteSet(Specialists), IsFiniteSet(Incidents)
  PROVE  Spec => [](\A r \in Runs : round[r] <= Cardinality(Specialists \X Incidents))
<1>1. IsFiniteSet(Specialists \X Incidents)
  BY FS_Product
<1>2. TypeOK /\ EveryRoundExcludes => \A r \in Runs : round[r] <= Cardinality(Specialists \X Incidents)
  BY <1>1, FS_Subset DEF TypeOK, EveryRoundExcludes
<1> QED
  BY <1>2, TypeCorrect, RoundsExclude, PTL
=============================================================================
