------------------------- MODULE SagaExecutionProofs -------------------------
(***************************************************************************)
(* What holds of the saga for any number of runs, incidents, specialists,  *)
(* rounds and polls, for ids that collide in any way, and for any faults.  *)
(***************************************************************************)
EXTENDS SagaExecution, TLAPS

Steps == CallSteps \cup {"idle", "next", "poll", "record", "compensate", "rollback", "settle",
                        "complete", "done"}

\* An allocation is being handled.
Handling == CallSteps \cup {"poll", "record", "compensate"}

Locals ==
  [step : Steps, plan : [Incidents -> Specialists \cup {Nobody}],
   todo : SUBSET Incidents, inc : Incidents \cup {NoIncident},
   polls : 0..MaxPolls, created : SUBSET Keys, updated : SUBSET Incidents,
   rejected : SUBSET (Specialists \X Incidents), failed : BOOLEAN, replan : BOOLEAN]

\* What the locals of a saga promise its next step, in a round.
Ready(local, n) ==
  /\ local.step # "idle" => n <= MaxReplan
  /\ \A i \in local.todo : local.plan[i] \in Specialists
  /\ local.step \in Handling => local.inc \in Incidents /\ local.plan[local.inc] \in Specialists
  /\ local.step \in {"reserve", "request"} => local.polls = 0
  /\ local.step = "poll" => local.polls < MaxPolls

\* TypeOK is not inductive alone: an id is formed within the rounds only, and
\* only members of the plan are excluded.
TypeInv == TypeOK /\ \A r \in Runs : Ready(saga[r], round[r])

\* The records a running saga uses have keys.
LEMMA KeyIsKey ==
  ASSUME TypeInv, NEW r \in Runs, saga[r].step \in Handling
  PROVE  /\ Key(r) \in Keys /\ saga[r].inc \in Incidents /\ Chosen(r) \in Specialists
         /\ \A status : Wanted(r, status) =
              [status |-> status, run |-> r, incident |-> saga[r].inc, specialist |-> Chosen(r)]
<1>1. saga[r].inc \in Incidents /\ Chosen(r) \in Specialists
  BY DEF TypeInv, Ready, Chosen
<1>2. round[r] \in 0..MaxReplan
  BY BoundsAssumption DEF TypeInv, Ready, TypeOK, Handling, CallSteps
<1> QED
  BY <1>1, <1>2 DEF Key, KeyOf, Keys, Wanted

\* A run that changes only its own locals, to well-typed ones, keeps TypeInv.
LEMMA OwnLocals ==
  ASSUME TypeInv, NEW r \in Runs, NEW local \in Locals,
         saga' = [saga EXCEPT ![r] = local],
         Ready(local, round'[r]), \A q \in Runs \ {r} : round'[q] = round[q]
  PROVE  /\ saga' \in [Runs -> Locals]
         /\ \A q \in Runs : Ready(saga'[q], round'[q])
BY DEF TypeInv, TypeOK, Locals, Steps

\* An exception leaves well-typed locals that promise no call.
LEMMA RaisedReady ==
  ASSUME NEW local \in Locals, NEW n, Ready(local, n), local.step # "idle"
  PROVE  Raised(local) \in Locals /\ Ready(Raised(local), n)
BY DEF Raised, Locals, Steps, Ready, Handling, CallSteps

\* A run without a saga promises nothing, in any round.
LEMMA IdleReady == Idle \in Locals /\ \A n : Ready(Idle, n)
BY BoundsAssumption DEF Idle, Locals, Steps, Ready, Handling, CallSteps

\* A record keeps its form when only its status changes.
LEMMA StatusType ==
  ASSUME NEW S, NEW record \in Records(S), NEW s \in S
  PROVE  [record EXCEPT !.status = s] \in Records(S)
BY DEF Records

\* A saga that moves on to a step that needs no more than it promises.
LEMMA MovedOn ==
  ASSUME NEW local \in Locals, NEW n, Ready(local, n), local.step # "idle",
         NEW s \in Steps \ {"idle", "reserve", "request", "poll"},
         s \in Handling => local.step \in Handling
  PROVE  [local EXCEPT !.step = s] \in Locals /\ Ready([local EXCEPT !.step = s], n)
BY DEF Locals, Ready

\* A cancellation leaves well-formed reservations.
LEMMA CancelledType ==
  ASSUME TypeOK, NEW k \in Keys
  PROVE  Cancelled(k) \in [Keys -> Records(Statuses)]
<1>1. reservation \in [Keys -> Records(Statuses)]
  BY DEF TypeOK
<1>2. [reservation[k] EXCEPT !.status = "CANCELLED"] \in Records(Statuses)
  BY <1>1, StatusType DEF Statuses
<1> QED
  BY <1>1, <1>2 DEF Cancelled

\* The locals stay well typed when a saga moves on ...
LEMMA StepType ==
  ASSUME NEW local \in Locals, NEW s \in Steps
  PROVE  [local EXCEPT !.step = s] \in Locals
BY DEF Locals

\* ... takes the next allocation ...
LEMMA NextType ==
  ASSUME NEW local \in Locals, NEW i \in Incidents
  PROVE  [local EXCEPT !.step = "reserve", !.inc = i, !.todo = @ \ {i}, !.polls = 0] \in Locals
<1>1. "reserve" \in Steps /\ 0 \in 0..MaxPolls
  BY BoundsAssumption DEF Steps, CallSteps
<1> QED
  BY <1>1 DEF Locals

\* ... polls without an answer ...
LEMMA PollType ==
  ASSUME NEW local \in Locals, local.polls < MaxPolls
  PROVE  Unanswered(local) \in Locals
<1>1. local.polls + 1 \in 0..MaxPolls
  BY BoundsAssumption DEF Locals
<1>2. (IF local.polls + 1 = MaxPolls THEN "compensate" ELSE "poll") \in Steps
  BY DEF Steps, CallSteps
<1> QED
  BY <1>1, <1>2 DEF Locals, Unanswered

\* ... or gives an allocation up.
LEMMA LeftType ==
  ASSUME NEW local \in Locals, NEW pair \in Specialists \X Incidents, NEW k
  PROVE  /\ [local EXCEPT !.rejected = @ \cup {pair}, !.replan = TRUE, !.step = "settle"] \in Locals
         /\ [local EXCEPT !.created = @ \ {k}] \in Locals
<1>1. "settle" \in Steps
  BY DEF Steps
<1> QED
  BY <1>1 DEF Locals

\* What a call leaves in the services.
LEMMA CallType ==
  ASSUME TypeInv, NEW r \in Runs, saga[r].step \in CallSteps
  PROVE  /\ ReservationAfter(r) \in [Keys -> Records(Statuses)]
         /\ RequestAfter(r) \in [Keys -> Records(Answers)]
         /\ IncidentAfter(r) \in [Incidents -> [status : {"OPEN", "IN_PROGRESS", "RESOLVED"},
                                   specialist : Specialists \cup {Nobody}, run : Runs \cup {NoRun}]]
         /\ Noted(r) \in Locals
<1>1. saga[r].step \in Handling
  BY DEF Handling
<1>2. Wanted(r, "TENTATIVE") \in Records(Statuses) /\ Wanted(r, "PENDING") \in Records(Answers)
  BY <1>1, KeyIsKey DEF Records, Statuses, Answers
<1>3. TypeOK /\ saga[r] \in Locals
  BY DEF TypeInv, TypeOK, Locals, Steps
<1>4. ReservationAfter(r) \in [Keys -> Records(Statuses)]
  <2>1. reservation \in [Keys -> Records(Statuses)] /\ Key(r) \in Keys
    BY <1>1, <1>3, KeyIsKey DEF TypeOK
  <2>2. [reservation[Key(r)] EXCEPT !.status = "CONFIRMED"] \in Records(Statuses)
    BY <2>1, StatusType DEF Statuses
  <2> QED
    BY <1>2, <2>1, <2>2 DEF ReservationAfter
<1>5. RequestAfter(r) \in [Keys -> Records(Answers)]
  BY <1>1, <1>2, <1>3, KeyIsKey DEF RequestAfter, TypeOK
<1>6. IncidentAfter(r) \in [Incidents -> [status : {"OPEN", "IN_PROGRESS", "RESOLVED"},
                             specialist : Specialists \cup {Nobody}, run : Runs \cup {NoRun}]]
  <2>1. saga[r].inc \in Incidents /\ Chosen(r) \in Specialists
    BY <1>1, KeyIsKey
  <2>2. incident \in [Incidents -> [status : {"OPEN", "IN_PROGRESS", "RESOLVED"},
                         specialist : Specialists \cup {Nobody}, run : Runs \cup {NoRun}]]
    BY <1>3 DEF TypeOK
  <2>3. CASE saga[r].step = "assign"
    <3>1. [[incident[saga[r].inc] EXCEPT !.specialist = Chosen(r)] EXCEPT !.run = r]
            \in [status : {"OPEN", "IN_PROGRESS", "RESOLVED"},
                specialist : Specialists \cup {Nobody}, run : Runs \cup {NoRun}]
      BY <2>1, <2>2
    <3>2. IncidentAfter(r) = [incident EXCEPT ![saga[r].inc] =
             [[incident[saga[r].inc] EXCEPT !.specialist = Chosen(r)] EXCEPT !.run = r]]
      BY <2>1, <2>2, <2>3 DEF IncidentAfter
    <3> QED
      BY <2>1, <2>2, <3>1, <3>2
  <2>4. CASE saga[r].step # "assign"
    <3>1. [incident[saga[r].inc] EXCEPT !.status = "IN_PROGRESS"]
            \in [status : {"OPEN", "IN_PROGRESS", "RESOLVED"},
                specialist : Specialists \cup {Nobody}, run : Runs \cup {NoRun}]
      BY <2>1, <2>2
    <3> QED
      BY <2>1, <2>2, <2>4, <3>1 DEF IncidentAfter
  <2> QED
    BY <2>3, <2>4
<1>7. Noted(r) \in Locals
  BY <1>1, <1>3, KeyIsKey DEF Noted, Locals
<1> QED
  BY <1>4, <1>5, <1>6, <1>7

\* The run goes on in another task, or pauses between two rounds.
OtherTask(r) == Crash(r) \/ AskManager(r) \/ Reapprove(r)

\* Another task starts without a saga from the checkpoint; a pause writes one.
LEMMA OtherTaskStep ==
  ASSUME NEW r \in Runs, OtherTask(r)
  PROVE  /\ UNCHANGED <<services, outcome, undone>>
         /\ \/ /\ saga' = [saga EXCEPT ![r] = Idle] /\ checkpoint' = checkpoint
               /\ round' = [round EXCEPT ![r] = checkpoint[r].round]
               /\ excluded' = [excluded EXCEPT ![r] = checkpoint[r].excluded]
            \/ /\ saga' = saga /\ round' = round /\ excluded' = excluded
               /\ saga[r].step = "idle"
               /\ checkpoint' = [checkpoint EXCEPT ![r] = [round |-> round[r], excluded |-> excluded[r]]]
BY DEF OtherTask, Crash, AskManager, Reapprove, Resumed, Counters

\* TypeInv holds initially ...
LEMMA TypeInvInit == ASSUME Init PROVE TypeInv
<1>1. Absent \in Records(Statuses) /\ Absent \in Records(Answers)
  BY DEF Absent, Records, Statuses, Answers
<1>2. Idle \in Locals /\ Ready(Idle, 0)
  BY BoundsAssumption DEF Idle, Locals, Steps, Ready, Handling, CallSteps
<1>3. 0 \in 0..(MaxReplan + 1)
  BY BoundsAssumption
<1> QED
  BY <1>1, <1>2, <1>3 DEF Init, TypeInv, TypeOK, Locals, Steps

\* ... and every step of a saga or a service keeps it.
LEMMA TypeInvStep == ASSUME TypeInv, [Next]_vars PROVE TypeInv'
<1>0. TypeOK /\ saga \in [Runs -> Locals]
  BY DEF TypeInv, TypeOK, Locals, Steps
<1>1. ASSUME NEW r \in Runs, NEW local \in Locals, saga' = [saga EXCEPT ![r] = local],
             Ready(local, round[r]), UNCHANGED <<services, results>>,
             undone' \subseteq Runs
      PROVE  TypeInv'
  BY <1>0, <1>1, OwnLocals DEF services, results, TypeInv, TypeOK, Locals, Steps
<1>2. ASSUME NEW r \in Runs, StartSaga(r)
      PROVE  TypeInv'
  <2>1. PICK plan \in [Incidents -> Specialists \cup {Nobody}] :
          saga' = [saga EXCEPT ![r] = [Idle EXCEPT !.step = "next", !.plan = plan,
                                          !.todo = {i \in Incidents : plan[i] # Nobody}]]
    BY <1>2 DEF StartSaga
  <2> DEFINE local == [Idle EXCEPT !.step = "next", !.plan = plan,
                                   !.todo = {i \in Incidents : plan[i] # Nobody}]
  <2>2. local \in Locals
    <3>1. {i \in Incidents : plan[i] # Nobody} \in SUBSET Incidents /\ "next" \in Steps
      BY DEF Steps
    <3> QED
      BY <3>1, IdleReady DEF Locals
  <2>3. Ready(local, round[r])
    BY <1>2 DEF Ready, Idle, Handling, CallSteps, StartSaga
  <2>4. /\ saga' = [saga EXCEPT ![r] = local] /\ outcome' = [outcome EXCEPT ![r] = "none"]
        /\ UNCHANGED <<services, round, excluded, checkpoint, undone>>
    BY <1>2, <2>1 DEF StartSaga
  <2> HIDE DEF local
  <2>5. saga' \in [Runs -> Locals] /\ \A q \in Runs : Ready(saga'[q], round'[q])
    BY <2>2, <2>3, <2>4, OwnLocals
  <2> QED
    BY <1>0, <2>4, <2>5 DEF services, TypeInv, TypeOK, Locals, Steps
<1>3. ASSUME NEW r \in Runs, NextAllocation(r)
      PROVE  TypeInv'
  <2>1. CASE saga' = [saga EXCEPT ![r].step = "settle"]
    <3> DEFINE local == [saga[r] EXCEPT !.step = "settle"]
    <3>1. local \in Locals /\ Ready(local, round[r])
      <4>1. saga[r] \in Locals /\ Ready(saga[r], round[r]) /\ saga[r].step = "next"
        BY <1>0, <1>3 DEF TypeInv, NextAllocation
      <4> QED
        BY <4>1, MovedOn DEF Steps, Handling, CallSteps
    <3>2. saga' = [saga EXCEPT ![r] = local]
      BY <1>0, <2>1
    <3> QED
      BY <1>0, <1>1, <1>3, <3>1, <3>2 DEF NextAllocation, TypeOK
  <2>2. ASSUME NEW i \in saga[r].todo,
               saga' = [saga EXCEPT ![r].step = "reserve", ![r].inc = i,
                                    ![r].todo = @ \ {i}, ![r].polls = 0]
        PROVE  TypeInv'
    <3> DEFINE local == [saga[r] EXCEPT !.step = "reserve", !.inc = i,
                                        !.todo = @ \ {i}, !.polls = 0]
    <3>1. saga[r] \in Locals /\ Ready(saga[r], round[r]) /\ saga[r].step = "next"
      BY <1>0, <1>3 DEF TypeInv, NextAllocation
    <3>2. local \in Locals
      BY <3>1, NextType DEF Locals
    <3>3. Ready(local, round[r])
      BY <3>1 DEF Ready, Locals, Handling, CallSteps
    <3>4. saga' = [saga EXCEPT ![r] = local]
      BY <1>0, <2>2 DEF Locals
    <3> QED
      BY <1>0, <1>1, <1>3, <3>2, <3>3, <3>4 DEF NextAllocation, TypeOK
  <2> QED
    BY <1>3, <2>1, <2>2 DEF NextAllocation
<1>4. ASSUME NEW r \in Runs, Call(r)
      PROVE  TypeInv'
  <2>1. saga[r].step \in CallSteps /\ saga[r].step \in Handling /\ Noted(r) \in Locals
    BY <1>4, CallType DEF Call, Handling
  <2>2. reservation' = ReservationAfter(r) /\ request' = RequestAfter(r)
        /\ incident' = IncidentAfter(r) /\ UNCHANGED <<resolution, results>>
    BY <1>4 DEF Call
  <2>3. PICK local \in {[Noted(r) EXCEPT !.step = AfterCall(@)], Raised(saga[r]), Raised(Noted(r))} :
          saga' = [saga EXCEPT ![r] = local]
    BY <1>4 DEF Call
  <2>4. /\ Noted(r).step = saga[r].step /\ Noted(r).todo = saga[r].todo
        /\ Noted(r).inc = saga[r].inc /\ Noted(r).plan = saga[r].plan
        /\ Noted(r).polls = saga[r].polls
    BY <1>0 DEF Noted, Locals
  <2>5. round[r] <= MaxReplan /\ Ready(saga[r], round[r])
    BY <2>1 DEF TypeInv, Ready, Handling, CallSteps
  <2>6. Ready(Noted(r), round[r])
    BY <2>4, <2>5 DEF Ready
  <2>7. /\ AfterCall(saga[r].step) \in {"request", "poll", "assign", "patch", "record"}
        /\ AfterCall(saga[r].step) = "request" => saga[r].step = "reserve"
        /\ AfterCall(saga[r].step) = "poll" => saga[r].step = "request"
    BY <2>1 DEF AfterCall, CallSteps
  <2>8. local \in Locals /\ Ready(local, round[r])
    <3>1. CASE local = [Noted(r) EXCEPT !.step = AfterCall(@)]
      <4>1. local = [Noted(r) EXCEPT !.step = AfterCall(saga[r].step)]
        BY <2>4, <3>1
      <4>2. local \in Locals /\ local.step = AfterCall(saga[r].step)
            /\ local.inc = saga[r].inc /\ local.plan = saga[r].plan
            /\ local.todo = saga[r].todo /\ local.polls = saga[r].polls
        BY <2>1, <2>4, <2>7, <4>1 DEF Locals, Steps, CallSteps
      <4>3. Ready(local, round[r])
        BY <2>1, <2>5, <2>7, <4>2, BoundsAssumption DEF Ready
      <4> QED
        BY <4>2, <4>3
    <3>2. CASE local \in {Raised(saga[r]), Raised(Noted(r))}
      <4>1. saga[r].step # "idle" /\ Noted(r).step # "idle"
        BY <2>1, <2>4 DEF CallSteps
      <4> QED
        BY <1>0, <2>1, <2>5, <2>6, <3>2, <4>1, RaisedReady
    <3> QED
      BY <3>1, <3>2
  <2>9. saga' \in [Runs -> Locals] /\ \A q \in Runs : Ready(saga'[q], round'[q])
    BY <1>4, <2>2, <2>3, <2>8, OwnLocals DEF results
  <2>10. undone' \subseteq Runs
    BY <1>0, <1>4 DEF Call, TypeOK
  <2> QED
    BY <1>0, <2>1, <2>2, <2>9, <2>10, CallType DEF results, TypeInv, TypeOK, Locals, Steps
<1>5. ASSUME NEW r \in Runs, Refused(r) \/ EventWriteFails(r)
      PROVE  TypeInv'
  <2>1. /\ saga' = [saga EXCEPT ![r] = Raised(saga[r])] /\ saga[r].step \in Handling
        /\ UNCHANGED <<services, results>> /\ undone' \subseteq Runs
    BY <1>0, <1>5 DEF Refused, EventWriteFails, TypeOK, Handling
  <2>2. Raised(saga[r]) \in Locals /\ Ready(Raised(saga[r]), round[r])
    <3>1. saga[r].step # "idle"
      BY <2>1 DEF Handling, CallSteps
    <3> QED
      BY <1>0, <3>1, RaisedReady DEF TypeInv
  <2> QED
    BY <1>1, <2>1, <2>2
<1>6. ASSUME NEW r \in Runs, Poll(r)
      PROVE  TypeInv'
  <2>1. /\ saga[r].step = "poll" /\ saga[r] \in Locals /\ Ready(saga[r], round[r])
        /\ UNCHANGED <<services, results, undone>>
    BY <1>0, <1>6 DEF Poll, TypeInv
  <2>2. PICK local \in {[saga[r] EXCEPT !.step = "confirm"], [saga[r] EXCEPT !.step = "compensate"],
                        Unanswered(saga[r])} : saga' = [saga EXCEPT ![r] = local]
    BY <1>0, <1>6 DEF Poll
  <2>3. local \in Locals
    <3>1. saga[r].polls < MaxPolls /\ "confirm" \in Steps /\ "compensate" \in Steps
      BY <2>1 DEF Ready, Steps, CallSteps
    <3> QED
      BY <2>1, <2>2, <3>1, StepType, PollType
  <2>4. Ready(local, round[r])
    <3>1. CASE local = Unanswered(saga[r])
      <4>1. /\ local.step = IF saga[r].polls + 1 = MaxPolls THEN "compensate" ELSE "poll"
            /\ local.polls = saga[r].polls + 1 /\ local.todo = saga[r].todo
            /\ local.plan = saga[r].plan /\ local.inc = saga[r].inc
        BY <2>1, <3>1 DEF Unanswered, Locals
      <4>2. saga[r].polls \in Nat
        BY <2>1 DEF Locals
      <4> QED
        BY <2>1, <4>1, <4>2, BoundsAssumption DEF Ready, Handling, CallSteps
    <3>2. CASE local # Unanswered(saga[r])
      <4>1. PICK s \in {"confirm", "compensate"} : local = [saga[r] EXCEPT !.step = s]
        BY <2>2, <3>2
      <4>2. /\ s \in Steps \ {"idle", "reserve", "request", "poll"}
            /\ saga[r].step # "idle" /\ saga[r].step \in Handling
        BY <2>1 DEF Steps, Handling, CallSteps
      <4> QED
        BY <2>1, <4>1, <4>2, MovedOn
    <3> QED
      BY <3>1, <3>2
  <2> QED
    BY <1>0, <1>1, <2>1, <2>2, <2>3, <2>4 DEF TypeOK
<1>7. ASSUME NEW r \in Runs, RecordAccepted(r)
      PROVE  TypeInv'
  <2> DEFINE local == [saga[r] EXCEPT !.step = "next"]
  <2>1. local \in Locals /\ Ready(local, round[r])
    <3>1. saga[r] \in Locals /\ Ready(saga[r], round[r]) /\ saga[r].step = "record"
      BY <1>0, <1>7 DEF TypeInv, RecordAccepted
    <3> QED
      BY <3>1, MovedOn DEF Steps, Handling, CallSteps
  <2>2. saga' = [saga EXCEPT ![r] = local]
    BY <1>0, <1>7 DEF RecordAccepted
  <2> QED
    BY <1>0, <1>1, <1>7, <2>1, <2>2 DEF RecordAccepted, TypeOK
<1>8. ASSUME NEW r \in Runs, Compensate(r)
      PROVE  TypeInv'
  <2> DEFINE left == [saga[r] EXCEPT !.rejected = @ \cup {<<Chosen(r), saga[r].inc>>},
                                     !.replan = TRUE, !.step = "settle"]
             removed == [left EXCEPT !.created = @ \ {Key(r)}]
  <2>1. saga[r].step = "compensate" /\ saga[r].step \in Handling
        /\ saga[r] \in Locals /\ Ready(saga[r], round[r])
    BY <1>0, <1>8 DEF Compensate, TypeInv, Handling
  <2>2. left \in Locals /\ removed \in Locals
    <3>1. <<Chosen(r), saga[r].inc>> \in Specialists \X Incidents
      BY <2>1, KeyIsKey
    <3>2. left \in Locals
      BY <2>1, <3>1, LeftType
    <3> HIDE DEF left
    <3> QED
      BY <3>1, <3>2, LeftType
  <2>3. Ready(left, round[r]) /\ Ready(removed, round[r])
    BY <2>1 DEF Ready, Locals, Handling, CallSteps
  <2>4. /\ UNCHANGED <<request, incident, resolution, results>> /\ undone' \subseteq Runs
        /\ reservation' \in {reservation, Cancelled(Key(r))}
        /\ \E local \in {left, removed, Raised(left), Raised(removed)} :
             saga' = [saga EXCEPT ![r] = local]
    BY <1>0, <1>8 DEF Compensate, TypeOK
  <2> HIDE DEF left, removed
  <2>5. PICK local \in {left, removed, Raised(left), Raised(removed)} :
          saga' = [saga EXCEPT ![r] = local]
    BY <2>4
  <2>6. local \in Locals /\ Ready(local, round[r])
    <3>1. left.step # "idle" /\ removed.step # "idle"
      BY <2>1 DEF left, removed, Locals
    <3> QED
      BY <2>2, <2>3, <2>5, <3>1, RaisedReady
  <2>7. saga' \in [Runs -> Locals] /\ \A q \in Runs : Ready(saga'[q], round'[q])
    BY <2>4, <2>5, <2>6, OwnLocals DEF results
  <2>8. reservation' \in [Keys -> Records(Statuses)]
    BY <1>0, <2>1, <2>4, CancelledType, KeyIsKey DEF TypeOK
  <2> QED
    BY <1>0, <2>4, <2>7, <2>8 DEF results, TypeInv, TypeOK, Locals, Steps
<1>9. ASSUME NEW r \in Runs, CancelCreated(r)
      PROVE  TypeInv'
  <2>1. PICK k \in saga[r].created :
          /\ saga' = [saga EXCEPT ![r].created = @ \ {k}]
          /\ reservation' = Cancelled(k) \/ UNCHANGED reservation
    BY <1>9 DEF CancelCreated
  <2> DEFINE local == [saga[r] EXCEPT !.created = @ \ {k}]
  <2>2. saga[r].step = "rollback" /\ saga[r] \in Locals /\ Ready(saga[r], round[r])
        /\ UNCHANGED <<request, incident, resolution, results, undone>>
    BY <1>0, <1>9 DEF CancelCreated, TypeInv
  <2>3. local \in Locals /\ Ready(local, round[r]) /\ k \in Keys
    BY <2>2 DEF Locals, Ready, Handling, CallSteps
  <2>4. saga' = [saga EXCEPT ![r] = local]
    BY <1>0, <2>1
  <2>5. saga' \in [Runs -> Locals] /\ \A q \in Runs : Ready(saga'[q], round'[q])
    BY <2>2, <2>3, <2>4, OwnLocals DEF results
  <2>6. reservation' \in [Keys -> Records(Statuses)]
    BY <1>0, <2>1, <2>3, CancelledType DEF TypeOK
  <2> QED
    BY <1>0, <2>2, <2>5, <2>6 DEF results, TypeInv, TypeOK, Locals, Steps
<1>10. ASSUME NEW r \in Runs, ResetUpdated(r)
       PROVE  TypeInv'
  <2>1. PICK i \in saga[r].updated : saga' = [saga EXCEPT ![r].updated = @ \ {i}]
    BY <1>10 DEF ResetUpdated
  <2> DEFINE local == [saga[r] EXCEPT !.updated = @ \ {i}]
  <2>2. saga[r].step = "rollback" /\ saga[r] \in Locals /\ Ready(saga[r], round[r])
        /\ UNCHANGED <<services, results, undone>>
    BY <1>0, <1>10, NamesAssumption DEF ResetUpdated, TypeInv, ValidSpecialist, services
  <2>3. local \in Locals /\ Ready(local, round[r])
    BY <2>2 DEF Locals, Ready, Handling, CallSteps
  <2>4. saga' = [saga EXCEPT ![r] = local]
    BY <1>0, <2>1
  <2> QED
    BY <1>0, <1>1, <2>2, <2>3, <2>4 DEF TypeOK
<1>11. ASSUME NEW r \in Runs, EndRollback(r)
       PROVE  TypeInv'
  <2> DEFINE local == [saga[r] EXCEPT !.step = "settle"]
  <2>1. local \in Locals /\ Ready(local, round[r])
    <3>1. saga[r] \in Locals /\ Ready(saga[r], round[r]) /\ saga[r].step = "rollback"
      BY <1>0, <1>11 DEF TypeInv, EndRollback
    <3> QED
      BY <3>1, MovedOn DEF Steps, Handling, CallSteps
  <2>2. saga' = [saga EXCEPT ![r] = local]
    BY <1>0, <1>11 DEF EndRollback
  <2> QED
    BY <1>0, <1>1, <1>11, <2>1, <2>2 DEF EndRollback, TypeOK
<1>12. ASSUME NEW r \in Runs, Settle(r)
       PROVE  TypeInv'
  <2> DEFINE local == IF saga[r].replan THEN Idle ELSE [saga[r] EXCEPT !.step = "complete"]
  <2>1. saga[r].step = "settle" /\ saga[r] \in Locals /\ Ready(saga[r], round[r])
    BY <1>0, <1>12 DEF Settle, TypeInv
  <2>2. local \in Locals
    BY <2>1, IdleReady DEF Locals, Steps
  <2>3. saga' = [saga EXCEPT ![r] = local] /\ UNCHANGED <<services, checkpoint, undone>>
    BY <1>0, <1>12 DEF Settle
  <2>4. /\ round' = [round EXCEPT ![r] = IF saga[r].replan THEN round[r] + 1 ELSE round[r]]
        /\ excluded' = [excluded EXCEPT ![r] = excluded[r] \cup saga[r].rejected]
        /\ outcome' = [outcome EXCEPT ![r] = Outcome(saga[r])]
    BY <1>12 DEF Settle
  <2>5. round[r] \in 0..MaxReplan
    BY <1>0, <2>1, BoundsAssumption DEF Ready, TypeOK
  <2>6. round' \in [Runs -> 0..(MaxReplan + 1)]
    BY <1>0, <2>4, <2>5, BoundsAssumption DEF TypeOK
  <2>7. outcome' \in [Runs -> {"none", "REPLANNING", "FAILED_SAGA", "EXECUTED"}]
    BY <1>0, <2>4 DEF TypeOK, Outcome
  <2>8. excluded' \in [Runs -> SUBSET (Specialists \X Incidents)]
    BY <1>0, <2>1, <2>4 DEF TypeOK, Locals
  <2>9. Ready(local, round'[r])
    <3>1. CASE saga[r].replan
      BY <3>1, IdleReady
    <3>2. CASE ~saga[r].replan
      <4>1. round'[r] = round[r]
        BY <1>0, <2>4, <3>2 DEF TypeOK
      <4> QED
        BY <2>1, <3>2, <4>1 DEF Ready, Locals, Handling, CallSteps
    <3> QED
      BY <3>1, <3>2
  <2>10. \A q \in Runs \ {r} : round'[q] = round[q]
    BY <1>0, <2>4 DEF TypeOK
  <2> HIDE DEF local
  <2>11. saga' \in [Runs -> Locals] /\ \A q \in Runs : Ready(saga'[q], round'[q])
    BY <2>2, <2>3, <2>9, <2>10, OwnLocals
  <2> QED
    BY <1>0, <2>3, <2>6, <2>7, <2>8, <2>11 DEF services, TypeInv, TypeOK, Locals, Steps
<1>13. ASSUME NEW r \in Runs, Complete(r) \/ OtherTask(r)
       PROVE  TypeInv'
  <2>1. checkpoint' \in [Runs -> [round : 0..(MaxReplan + 1),
                                  excluded : SUBSET (Specialists \X Incidents)]]
    BY <1>0, <1>13, OtherTaskStep DEF Complete, Counters, TypeOK
  <2>2. round' \in [Runs -> 0..(MaxReplan + 1)] /\ excluded' \in [Runs -> SUBSET (Specialists \X Incidents)]
    <3>1. /\ round \in [Runs -> 0..(MaxReplan + 1)] /\ checkpoint[r].round \in 0..(MaxReplan + 1)
          /\ excluded \in [Runs -> SUBSET (Specialists \X Incidents)]
          /\ checkpoint[r].excluded \in SUBSET (Specialists \X Incidents)
      BY <1>0 DEF TypeOK
    <3>2. /\ round' = round \/ round' = [round EXCEPT ![r] = checkpoint[r].round]
          /\ excluded' = excluded \/ excluded' = [excluded EXCEPT ![r] = checkpoint[r].excluded]
      BY <1>13, OtherTaskStep DEF Complete
    <3> QED
      BY <3>1, <3>2
  <2>3. UNCHANGED <<services, outcome, undone>>
    BY <1>13, OtherTaskStep DEF Complete
  <2>4. \A q \in Runs \ {r} : round'[q] = round[q]
    BY <1>0, <1>13, OtherTaskStep DEF Complete, TypeOK
  <2>5. PICK local \in {saga[r], Idle, [saga[r] EXCEPT !.step = "done"]} :
          /\ saga' = [saga EXCEPT ![r] = local]
          /\ local = [saga[r] EXCEPT !.step = "done"] => saga[r].step = "complete"
          /\ local = Idle \/ round'[r] = round[r]
    <3>1. CASE Complete(r)
      BY <1>0, <3>1 DEF Complete
    <3>2. CASE saga' = [saga EXCEPT ![r] = Idle]
      <4>1. CASE Idle = [saga[r] EXCEPT !.step = "done"]
        BY <4>1, <1>0 DEF Idle, Locals
      <4> QED
        BY <3>2, <4>1
    <3>3. CASE saga' = saga /\ round' = round /\ saga[r].step = "idle"
      <4>1. saga[r].step # "done"
        BY <3>3
      <4>2. saga[r] # [saga[r] EXCEPT !.step = "done"]
        BY <1>0, <4>1 DEF Locals
      <4> QED
        BY <1>0, <3>3, <4>2
    <3> QED
      BY <1>13, <3>1, <3>2, <3>3, OtherTaskStep
  <2>6. saga[r] \in Locals /\ Ready(saga[r], round[r])
    BY <1>0 DEF TypeInv
  <2>7. local \in Locals /\ Ready(local, round'[r])
    <3>1. CASE local = Idle
      BY <3>1, IdleReady
    <3>2. CASE local = saga[r] /\ local # Idle
      BY <2>5, <2>6, <3>2
    <3>3. CASE local = [saga[r] EXCEPT !.step = "done"] /\ local # Idle
      <4>1. saga[r].step = "complete" /\ round'[r] = round[r]
        BY <2>5, <3>3
      <4> QED
        BY <2>6, <3>3, <4>1, MovedOn DEF Steps, Handling, CallSteps
    <3> QED
      BY <2>5, <3>1, <3>2, <3>3
  <2>8. saga' \in [Runs -> Locals] /\ \A q \in Runs : Ready(saga'[q], round'[q])
    BY <2>4, <2>5, <2>7, OwnLocals
  <2> QED
    BY <1>0, <2>1, <2>2, <2>3, <2>8 DEF services, TypeInv, TypeOK, Locals, Steps
<1>14. ASSUME UNCHANGED <<saga, results, undone>>,
              /\ reservation' \in [Keys -> Records(Statuses)]
              /\ request' \in [Keys -> Records(Answers)]
              /\ incident' \in [Incidents -> [status : {"OPEN", "IN_PROGRESS", "RESOLVED"},
                                 specialist : Specialists \cup {Nobody}, run : Runs \cup {NoRun}]]
              /\ resolution' \in [Incidents -> {"none", "resolved", "over"}]
       PROVE  TypeInv'
  BY <1>0, <1>14 DEF results, TypeInv, TypeOK
<1>15. ASSUME NEW k \in Keys,
              (\E answer \in {"ACCEPTED", "REJECTED"} : Respond(k, answer))
                \/ ExpireRequest(k) \/ ExpireReservation(k)
       PROVE  TypeInv'
  <2>1. reservation[k] \in Records(Statuses) /\ request[k] \in Records(Answers)
    BY <1>0 DEF TypeOK
  <2>2. /\ [reservation[k] EXCEPT !.status = "EXPIRED"] \in Records(Statuses)
        /\ \A s \in {"ACCEPTED", "REJECTED", "EXPIRED"} :
             [request[k] EXCEPT !.status = s] \in Records(Answers)
    BY <2>1, StatusType DEF Statuses, Answers
  <2>3. CASE ExpireReservation(k)
    BY <1>0, <1>14, <2>2, <2>3 DEF ExpireReservation, TypeOK
  <2>4. ASSUME NEW s \in {"ACCEPTED", "REJECTED", "EXPIRED"},
               request' = [request EXCEPT ![k].status = s],
               UNCHANGED <<reservation, incident, resolution, saga, results, undone>>
        PROVE  TypeInv'
    BY <1>0, <1>14, <2>2, <2>4 DEF TypeOK
  <2> QED
    BY <1>15, <2>3, <2>4 DEF Respond, ExpireRequest
<1>16. ASSUME NEW i \in Incidents, ResolveIncident(i) \/ ReleaseWorkload(i)
       PROVE  TypeInv'
  <2>1. CASE ResolveIncident(i)
    BY <1>0, <1>14, <2>1 DEF ResolveIncident, TypeOK
  <2>2. CASE ReleaseWorkload(i)
    <3>1. \A k \in Keys : [reservation[k] EXCEPT !.status = "CANCELLED"] \in Records(Statuses)
      BY <1>0, StatusType DEF TypeOK, Statuses
    <3>2. reservation' \in [Keys -> Records(Statuses)]
      <4>1. reservation \in [Keys -> Records(Statuses)]
        BY <1>0 DEF TypeOK
      <4> QED
        BY <2>2, <3>1, <4>1 DEF ReleaseWorkload
    <3> QED
      BY <1>0, <1>14, <2>2, <3>2 DEF ReleaseWorkload, TypeOK
  <2> QED
    BY <1>16, <2>1, <2>2
<1>17. CASE UNCHANGED vars
  BY <1>14, <1>17, <1>0 DEF vars, services, TypeOK
<1> QED
  BY <1>2, <1>3, <1>4, <1>5, <1>6, <1>7, <1>8, <1>9, <1>10, <1>11, <1>12, <1>13, <1>15,
     <1>16, <1>17 DEF Next, SagaStep, ServiceStep, OtherTask

\* The inductive invariant of the types.
THEOREM TypeInvariant == Spec => []TypeInv
<1>1. Init => TypeInv
  BY TypeInvInit
<1>2. TypeInv /\ [Next]_vars => TypeInv'
  BY TypeInvStep
<1> QED
  BY <1>1, <1>2, PTL DEF Spec

\* Every reachable state is well typed.
THEOREM TypeCorrect == Spec => []TypeOK
BY TypeInvariant, PTL DEF TypeInv

-----------------------------------------------------------------------------
\* The reservation of the allocation exists; so does its request.
AfterReserve == {"request", "poll", "confirm", "assign", "patch", "record", "compensate"}
AfterRequest == AfterReserve \ {"request"}

\* A record that has been created belongs to a run.
Owned ==
  \A k \in Keys : /\ reservation[k].run = NoRun => reservation[k] = Absent
                  /\ request[k].run = NoRun => request[k] = Absent

\* Where a saga is tells which records it has met under its id: its own.
ConsentOf(r) ==
  /\ saga[r].step \in AfterReserve => SamePayload(reservation[Key(r)], Wanted(r, "met"))
  /\ saga[r].step \in AfterRequest => SamePayload(request[Key(r)], Wanted(r, "met"))
  /\ saga[r].step = "confirm" => request[Key(r)].status = "ACCEPTED"

ConsentInv == Owned /\ ConfirmedWithConsent /\ \A r \in Runs : ConsentOf(r)

\* What may happen to a reservation in one step: its payload stays once it is
\* there, only a saga that is to confirm it does, and a confirmed one is lost
\* only to a rollback, a compensation or the simulation.
ReservationStep(k) ==
  /\ reservation[k].run # NoRun => SamePayload(reservation'[k], reservation[k])
  /\ reservation'[k].run = NoRun => reservation'[k] = Absent
  /\ reservation'[k].status = "CONFIRMED" =>
       \/ reservation[k].status = "CONFIRMED"
       \/ \E r \in Runs : saga[r].step = "confirm" /\ k = Key(r) /\ UNCHANGED request
  /\ (reservation[k].status = "CONFIRMED" /\ reservation'[k].status # "CONFIRMED") =>
       \/ \E r \in Runs : saga[r].step = "rollback" /\ k \in saga[r].created /\ UNCHANGED <<incident, resolution>>
       \/ \E r \in Runs : /\ saga[r].step = "compensate" /\ k = Key(r) /\ r \in undone'
                          /\ UNCHANGED <<incident, resolution>>
       \/ resolution'[reservation[k].incident] = "over"

\* Every step of the system changes a reservation in one of these ways.
LEMMA ReservationSteps ==
  ASSUME TypeInv, Owned, [Next]_vars, NEW k \in Keys
  PROVE  ReservationStep(k)
<1>0. reservation \in [Keys -> Records(Statuses)]
  BY DEF TypeInv, TypeOK
<1>1. CASE UNCHANGED reservation
  BY <1>1 DEF ReservationStep, SamePayload, Owned
<1>2. ASSUME NEW r \in Runs, Call(r)
      PROVE  ReservationStep(k)
  <2>1. /\ saga[r].step \in CallSteps /\ saga[r].step \in Handling
        /\ reservation' = ReservationAfter(r) /\ request' = RequestAfter(r)
    BY <1>2 DEF Call, Handling
  <2>2. Key(r) \in Keys
    BY <2>1, KeyIsKey
  <2>3. CASE saga[r].step = "reserve" /\ NewReservation(r)
    <3>1. reservation[Key(r)] = Absent
      BY <2>3 DEF NewReservation
    <3>2. reservation' = [reservation EXCEPT ![Key(r)] = Wanted(r, "TENTATIVE")]
      BY <2>1, <2>3 DEF ReservationAfter
    <3>3. Wanted(r, "TENTATIVE").run = r /\ Wanted(r, "TENTATIVE").status = "TENTATIVE" /\ r # NoRun
      BY NamesAssumption DEF Wanted
    <3> QED
      BY <1>0, <2>2, <3>1, <3>2, <3>3 DEF ReservationStep, SamePayload, Owned, Absent
  <2>4. CASE saga[r].step = "confirm"
    <3>1. UNCHANGED request
      BY <2>1, <2>4 DEF RequestAfter
    <3>2. reservation' = [reservation EXCEPT ![Key(r)].status = "CONFIRMED"]
      BY <2>1, <2>4 DEF ReservationAfter
    <3>3. reservation[Key(r)].status \in Active
      BY <1>2, <2>4 DEF Call, Accepts
    <3>4. reservation[Key(r)].run # NoRun
      BY <2>2, <3>3 DEF Owned, Absent, Active
    <3> QED
      BY <1>0, <2>2, <2>4, <3>1, <3>2, <3>4 DEF ReservationStep, SamePayload, Owned, Records
  <2>5. CASE saga[r].step # "confirm" /\ ~(saga[r].step = "reserve" /\ NewReservation(r))
    BY <1>1, <2>1, <2>5 DEF ReservationAfter
  <2> QED
    BY <2>3, <2>4, <2>5
<1>3. ASSUME NEW r \in Runs, NEW j \in Keys, reservation' = Cancelled(j),
             \/ saga[r].step = "rollback" /\ j \in saga[r].created
             \/ /\ saga[r].step = "compensate" /\ j = Key(r)
                /\ reservation[j].status = "CONFIRMED" => r \in undone',
             UNCHANGED <<incident, resolution>>
      PROVE  ReservationStep(k)
  <2>1. CASE reservation[j].status \in Active
    <3>1. reservation[j].run # NoRun
      BY <2>1 DEF Owned, Absent, Active
    <3>2. reservation' = [reservation EXCEPT ![j].status = "CANCELLED"]
      BY <1>3, <2>1 DEF Cancelled
    <3> QED
      BY <1>0, <1>3, <3>1, <3>2 DEF ReservationStep, SamePayload, Owned, Records
  <2>2. CASE reservation[j].status \notin Active
    BY <1>1, <1>3, <2>2 DEF Cancelled
  <2> QED
    BY <2>1, <2>2
<1>4. ASSUME NEW r \in Runs, Compensate(r)
      PROVE  ReservationStep(k)
  <2>1. /\ saga[r].step = "compensate" /\ saga[r].step \in Handling
        /\ reservation' = reservation \/ reservation' = Cancelled(Key(r))
        /\ UNCHANGED <<incident, resolution>>
        /\ reservation[Key(r)].status = "CONFIRMED" => r \in undone'
    BY <1>4 DEF Compensate, Handling
  <2>2. Key(r) \in Keys
    BY <2>1, KeyIsKey
  <2> QED
    BY <1>1, <1>3, <2>1, <2>2
<1>5. ASSUME NEW r \in Runs, CancelCreated(r)
      PROVE  ReservationStep(k)
  <2>1. PICK j \in saga[r].created : reservation' = reservation \/ reservation' = Cancelled(j)
    BY <1>5 DEF CancelCreated
  <2>2. j \in Keys
    BY <2>1 DEF TypeInv, TypeOK
  <2> QED
    BY <1>1, <1>3, <1>5, <2>1, <2>2 DEF CancelCreated
<1>6. ASSUME NEW j \in Keys, ExpireReservation(j)
      PROVE  ReservationStep(k)
  <2>1. /\ reservation[j].status = "TENTATIVE"
        /\ reservation' = [reservation EXCEPT ![j].status = "EXPIRED"]
    BY <1>6 DEF ExpireReservation
  <2>2. reservation[j].run # NoRun
    BY <2>1 DEF Owned, Absent
  <2> QED
    BY <1>0, <2>1, <2>2 DEF ReservationStep, SamePayload, Owned, Records
<1>7. ASSUME NEW i \in Incidents, ReleaseWorkload(i)
      PROVE  ReservationStep(k)
  <2>1. CASE reservation[k].incident = i /\ reservation[k].status \in Active /\ ~UNCHANGED reservation
    <3>1. reservation[k].run # NoRun
      BY <2>1 DEF Owned, Absent, Active
    <3>2. reservation'[k] = [reservation[k] EXCEPT !.status = "CANCELLED"]
      BY <1>7, <2>1 DEF ReleaseWorkload
    <3>3. resolution'[i] = "over"
      BY <1>7 DEF ReleaseWorkload, TypeInv, TypeOK
    <3> QED
      BY <1>0, <2>1, <3>1, <3>2, <3>3 DEF ReservationStep, SamePayload, Records
  <2>2. CASE reservation[k].incident # i \/ reservation[k].status \notin Active \/ UNCHANGED reservation
    <3>1. reservation'[k] = reservation[k]
      BY <1>7, <2>2 DEF ReleaseWorkload
    <3> QED
      BY <3>1 DEF ReservationStep, SamePayload, Owned
  <2> QED
    BY <2>1, <2>2
<1> QED
  BY <1>1, <1>2, <1>4, <1>5, <1>6, <1>7
  DEF Next, vars, services, SagaStep, ServiceStep, StartSaga, NextAllocation, Refused, Poll,
      RecordAccepted, EventWriteFails, ResetUpdated, EndRollback, Settle, Complete, OtherTask,
      Crash, AskManager, Reapprove, Resumed, Respond, ExpireRequest, ResolveIncident

\* What may happen to a request in one step: its payload stays once it is
\* there, and an acceptance is final.
RequestStep(k) ==
  /\ request[k].run # NoRun => SamePayload(request'[k], request[k])
  /\ request'[k].run = NoRun => request'[k] = Absent
  /\ request[k].status = "ACCEPTED" => request'[k].status = "ACCEPTED"

\* Every step of the system changes a request in one of these ways.
LEMMA RequestSteps ==
  ASSUME TypeInv, Owned, [Next]_vars, NEW k \in Keys
  PROVE  RequestStep(k)
<1>0. request \in [Keys -> Records(Answers)]
  BY DEF TypeInv, TypeOK
<1>1. CASE UNCHANGED request
  BY <1>1 DEF RequestStep, SamePayload, Owned
<1>2. ASSUME NEW r \in Runs, Call(r)
      PROVE  RequestStep(k)
  <2>1. saga[r].step \in Handling /\ request' = RequestAfter(r)
    BY <1>2 DEF Call, Handling
  <2>2. CASE saga[r].step = "request" /\ request[Key(r)] = Absent
    <3>1. request' = [request EXCEPT ![Key(r)] = Wanted(r, "PENDING")] /\ Key(r) \in Keys
      BY <2>1, <2>2, KeyIsKey DEF RequestAfter
    <3>2. Wanted(r, "PENDING").run = r /\ r # NoRun
      BY NamesAssumption DEF Wanted
    <3> QED
      BY <1>0, <2>2, <3>1, <3>2 DEF RequestStep, SamePayload, Owned, Absent
  <2>3. CASE ~(saga[r].step = "request" /\ request[Key(r)] = Absent)
    BY <1>1, <2>1, <2>3 DEF RequestAfter
  <2> QED
    BY <2>2, <2>3
<1>3. ASSUME NEW j \in Keys, NEW s, request[j].status = "PENDING",
             request' = [request EXCEPT ![j].status = s]
      PROVE  RequestStep(k)
  <2>1. request[j].run # NoRun
    BY <1>3 DEF Owned, Absent
  <2> QED
    BY <1>0, <1>3, <2>1 DEF RequestStep, SamePayload, Owned, Records
<1> QED
  BY <1>1, <1>2, <1>3
  DEF Next, vars, services, SagaStep, ServiceStep, StartSaga, NextAllocation, Refused, Poll,
      RecordAccepted, EventWriteFails, Compensate, CancelCreated, ResetUpdated, EndRollback,
      Settle, Complete, OtherTask, Crash, AskManager, Reapprove, Resumed, Respond, ExpireRequest, ExpireReservation, ResolveIncident,
      ReleaseWorkload

\* A step of one run leaves the locals, the round and the outcome of the others alone.
LEMMA OthersStay ==
  ASSUME TypeOK, NEW r \in Runs, StartSaga(r) \/ SagaStep(r) \/ OtherTask(r),
         NEW q \in Runs \ {r}
  PROVE  /\ saga'[q] = saga[q] /\ round'[q] = round[q] /\ outcome'[q] = outcome[q]
         /\ checkpoint'[q] = checkpoint[q]
BY DEF TypeOK, StartSaga, SagaStep, OtherTask, Crash, AskManager, Reapprove, Resumed,
       NextAllocation, Call, Refused, Poll, RecordAccepted, EventWriteFails, Compensate,
       CancelCreated, ResetUpdated, EndRollback, Settle, Complete, results, services

\* A compensation leaves the loop; only the list to compensate may shrink.
LEMMA CompensateLocals ==
  ASSUME TypeInv, NEW r \in Runs, Compensate(r)
  PROVE  \E local \in Locals :
           /\ local.step = "settle" /\ local.todo = saga[r].todo /\ local.created \subseteq saga[r].created
           /\ local.replan
           /\ saga'[r] \in {local, Raised(local)}
<1> DEFINE left == [saga[r] EXCEPT !.rejected = @ \cup {<<Chosen(r), saga[r].inc>>},
                                   !.replan = TRUE, !.step = "settle"]
           removed == [left EXCEPT !.created = @ \ {Key(r)}]
<1>1. saga \in [Runs -> Locals] /\ saga[r] \in Locals
  BY DEF TypeInv, TypeOK, Locals, Steps
<1>2. <<Chosen(r), saga[r].inc>> \in Specialists \X Incidents
  BY KeyIsKey DEF Compensate, Handling
<1>3. left \in Locals
  BY <1>1, <1>2, LeftType
<1>4. left.step = "settle" /\ left.todo = saga[r].todo /\ left.created = saga[r].created /\ left.replan
  BY <1>1 DEF Locals
<1>5. saga' \in {[saga EXCEPT ![r] = left], [saga EXCEPT ![r] = Raised(left)],
                [saga EXCEPT ![r] = removed], [saga EXCEPT ![r] = Raised(removed)]}
  BY DEF Compensate
<1> HIDE DEF left
<1>6. removed \in Locals
  BY <1>2, <1>3, LeftType
<1>7. /\ removed.step = "settle" /\ removed.todo = saga[r].todo
      /\ removed.created \subseteq saga[r].created /\ removed.replan
  BY <1>3, <1>4 DEF Locals
<1> HIDE DEF removed
<1> QED
  BY <1>1, <1>3, <1>4, <1>5, <1>6, <1>7

\* What a saga has met under its id stays there while the saga stays.
LEMMA ConsentStays ==
  ASSUME TypeInv, Owned, \A k \in Keys : ReservationStep(k) /\ RequestStep(k),
         NEW q \in Runs, ConsentOf(q), saga'[q] = saga[q], round'[q] = round[q]
  PROVE  ConsentOf(q)'
<1>1. CASE saga[q].step \in AfterReserve
  <2>1. Key(q) \in Keys /\ Key(q)' = Key(q) /\ Wanted(q, "met")' = Wanted(q, "met")
        /\ Wanted(q, "met").run # NoRun
    BY <1>1, KeyIsKey, NamesAssumption
    DEF AfterReserve, Handling, CallSteps, Key, KeyOf, Wanted, Chosen
  <2>2. SamePayload(reservation'[Key(q)], Wanted(q, "met"))
    BY <1>1, <2>1 DEF ConsentOf, ReservationStep, SamePayload
  <2>3. saga[q].step \in AfterRequest => SamePayload(request'[Key(q)], Wanted(q, "met"))
    BY <2>1 DEF ConsentOf, RequestStep, SamePayload
  <2>4. saga[q].step = "confirm" => request'[Key(q)].status = "ACCEPTED"
    BY <2>1 DEF ConsentOf, RequestStep
  <2> QED
    BY <2>1, <2>2, <2>3, <2>4 DEF ConsentOf
<1>2. CASE saga[q].step \notin AfterReserve
  BY <1>2 DEF ConsentOf, AfterReserve, AfterRequest
<1> QED
  BY <1>1, <1>2

\* A saga that is not after its reservation promises nothing.
LEMMA NothingMet ==
  ASSUME NEW r \in Runs, saga'[r].step \notin AfterReserve
  PROVE  ConsentOf(r)'
BY DEF ConsentOf, AfterReserve, AfterRequest

\* A call that returns has met the records it was accepted for.
LEMMA ConsentAfterCall ==
  ASSUME TypeInv, ConsentInv, \A k \in Keys : ReservationStep(k) /\ RequestStep(k),
         NEW r \in Runs, Call(r)
  PROVE  ConsentOf(r)'
<1>1. /\ saga[r].step \in CallSteps /\ saga[r].step \in Handling /\ Accepts(r) /\ ConsentOf(r)
      /\ reservation' = ReservationAfter(r) /\ request' = RequestAfter(r) /\ UNCHANGED round
  BY DEF Call, Handling, results, ConsentInv
<1>2. TypeOK /\ Key(r) \in Keys
  BY <1>1, KeyIsKey DEF TypeInv
<1>3. saga[r] \in Locals /\ Noted(r) \in Locals
  BY <1>1, CallType DEF TypeInv, TypeOK, Locals, Steps
<1>4. CASE saga' = [saga EXCEPT ![r] = [Noted(r) EXCEPT !.step = AfterCall(@)]]
  <2>1. /\ Noted(r).step = saga[r].step /\ Noted(r).inc = saga[r].inc /\ Noted(r).plan = saga[r].plan
    BY <1>3 DEF Noted, Locals
  <2>2. /\ saga'[r].step = AfterCall(saga[r].step)
        /\ saga'[r].inc = saga[r].inc /\ saga'[r].plan = saga[r].plan
    BY <1>2, <1>3, <1>4, <2>1 DEF TypeOK, Locals
  <2>3. Key(r)' = Key(r) /\ Wanted(r, "met")' = Wanted(r, "met")
    BY <1>1, <2>2 DEF Key, KeyOf, Wanted, Chosen
  <2>4. SamePayload(reservation'[Key(r)], Wanted(r, "met"))
    <3>1. CASE saga[r].step = "reserve" /\ NewReservation(r)
      BY <1>1, <1>2, <3>1 DEF ReservationAfter, TypeOK, SamePayload, Wanted
    <3>2. CASE saga[r].step = "reserve" /\ ~NewReservation(r)
      <4>1. reservation' = reservation /\ Replays(reservation[Key(r)], r)
        BY <1>1, <3>2 DEF ReservationAfter, Accepts
      <4> QED
        BY <4>1 DEF Replays, SamePayload, Wanted
    <3>3. CASE saga[r].step # "reserve"
      <4>1. SamePayload(reservation[Key(r)], Wanted(r, "met")) /\ Wanted(r, "met").run # NoRun
        BY <1>1, <3>3, NamesAssumption DEF ConsentOf, AfterReserve, CallSteps, Wanted
      <4> QED
        BY <1>2, <4>1 DEF ReservationStep, SamePayload
    <3> QED
      BY <3>1, <3>2, <3>3
  <2>5. saga[r].step # "reserve" => SamePayload(request'[Key(r)], Wanted(r, "met"))
    <3>1. CASE saga[r].step = "request" /\ request[Key(r)] = Absent
      BY <1>1, <1>2, <3>1 DEF RequestAfter, TypeOK, SamePayload, Wanted
    <3>2. CASE saga[r].step = "request" /\ request[Key(r)] # Absent
      <4>1. request' = request /\ Replays(request[Key(r)], r)
        BY <1>1, <3>2 DEF RequestAfter, Accepts
      <4> QED
        BY <4>1 DEF Replays, SamePayload, Wanted
    <3>3. CASE saga[r].step \notin {"reserve", "request"}
      <4>1. SamePayload(request[Key(r)], Wanted(r, "met")) /\ Wanted(r, "met").run # NoRun
        BY <1>1, <3>3, NamesAssumption DEF ConsentOf, AfterReserve, AfterRequest, CallSteps, Wanted
      <4> QED
        BY <1>2, <4>1 DEF RequestStep, SamePayload
    <3> QED
      BY <3>1, <3>2, <3>3
  <2>6. /\ AfterCall(saga[r].step) \in AfterRequest => saga[r].step # "reserve"
        /\ AfterCall(saga[r].step) # "confirm"
    BY <1>1 DEF AfterCall, AfterRequest, AfterReserve, CallSteps
  <2> QED
    BY <2>2, <2>3, <2>4, <2>5, <2>6 DEF ConsentOf
<1>5. ASSUME NEW local \in Locals, saga' = [saga EXCEPT ![r] = Raised(local)]
      PROVE  ConsentOf(r)'
  <2>1. saga'[r].step = "rollback"
    BY <1>2, <1>5 DEF Raised, TypeOK, Locals
  <2> QED
    BY <2>1, NothingMet DEF AfterReserve
<1> QED
  BY <1>3, <1>4, <1>5 DEF Call

\* Only a saga that polls an accepted request goes on to confirm.
LEMMA ConsentAfterPoll ==
  ASSUME TypeInv, ConsentInv, \A k \in Keys : ReservationStep(k) /\ RequestStep(k),
         NEW r \in Runs, Poll(r)
  PROVE  ConsentOf(r)'
<1>1. /\ saga[r].step = "poll" /\ saga[r] \in Locals /\ ConsentOf(r)
      /\ UNCHANGED <<reservation, request, round>>
  BY DEF Poll, services, results, ConsentInv, TypeInv, TypeOK, Locals, Steps
<1>2. /\ saga'[r].inc = saga[r].inc /\ saga'[r].plan = saga[r].plan
      /\ saga'[r].step = "confirm" => request[Key(r)].status = "ACCEPTED"
  <2>1. PICK local \in {[saga[r] EXCEPT !.step = "confirm"], [saga[r] EXCEPT !.step = "compensate"],
                        Unanswered(saga[r])} :
          /\ saga' = [saga EXCEPT ![r] = local]
          /\ local = [saga[r] EXCEPT !.step = "confirm"] => request[Key(r)].status = "ACCEPTED"
    <3>1. \A s : [saga[r] EXCEPT !.step = s].step = s
      BY <1>1 DEF Locals
    <3>2. Unanswered(saga[r]).step # "confirm"
      BY <1>1 DEF Unanswered, Locals
    <3> QED
      BY <3>1, <3>2 DEF Poll, TypeInv, TypeOK
  <2>2. /\ local.inc = saga[r].inc /\ local.plan = saga[r].plan
        /\ local.step = "confirm" => local = [saga[r] EXCEPT !.step = "confirm"]
    BY <1>1, <2>1 DEF Unanswered, Locals
  <2>3. saga'[r] = local
    BY <2>1 DEF TypeInv, TypeOK
  <2> QED
    BY <2>1, <2>2, <2>3
<1>3. Key(r)' = Key(r) /\ Wanted(r, "met")' = Wanted(r, "met")
  BY <1>1, <1>2 DEF Key, KeyOf, Wanted, Chosen
<1> QED
  BY <1>1, <1>2, <1>3 DEF ConsentOf, AfterReserve, AfterRequest

\* Consent is never lost: the inductive step.
LEMMA ConsentStep ==
  ASSUME TypeInv, ConsentInv, [Next]_vars
  PROVE  ConsentInv'
<1>1. \A k \in Keys : ReservationStep(k) /\ RequestStep(k)
  BY ReservationSteps, RequestSteps DEF ConsentInv
<1>2. Owned'
  BY <1>1 DEF Owned, ReservationStep, RequestStep
<1>3. ConfirmedWithConsent'
  <2> SUFFICES ASSUME NEW k \in Keys, reservation'[k].status = "CONFIRMED"
               PROVE  request'[k].status = "ACCEPTED" /\ SamePayload(request'[k], reservation'[k])
    BY DEF ConfirmedWithConsent
  <2>1. CASE reservation[k].status = "CONFIRMED"
    <3>1. request[k].status = "ACCEPTED" /\ SamePayload(request[k], reservation[k])
      BY <2>1 DEF ConsentInv, ConfirmedWithConsent
    <3>2. request[k].run # NoRun /\ reservation[k].run # NoRun
      BY <2>1, <3>1 DEF ConsentInv, Owned, Absent
    <3> QED
      BY <1>1, <3>1, <3>2 DEF ReservationStep, RequestStep, SamePayload
  <2>2. ASSUME NEW r \in Runs, saga[r].step = "confirm", k = Key(r), UNCHANGED request
        PROVE  request'[k].status = "ACCEPTED" /\ SamePayload(request'[k], reservation'[k])
    <3>1. /\ SamePayload(reservation[k], Wanted(r, "met")) /\ SamePayload(request[k], Wanted(r, "met"))
          /\ request[k].status = "ACCEPTED"
      BY <2>2 DEF ConsentInv, ConsentOf, AfterReserve, AfterRequest
    <3>2. reservation[k].run # NoRun
      BY <3>1, NamesAssumption DEF SamePayload, Wanted
    <3> QED
      BY <1>1, <2>2, <3>1, <3>2 DEF ReservationStep, SamePayload
  <2> QED
    BY <1>1, <2>1, <2>2 DEF ReservationStep
<1>4. ASSUME NEW q \in Runs PROVE ConsentOf(q)'
  <2>1. CASE saga'[q] = saga[q] /\ round'[q] = round[q]
    BY <1>1, <2>1, ConsentStays DEF ConsentInv
  <2>2. CASE Call(q)
    BY <1>1, <2>2, ConsentAfterCall
  <2>3. CASE Poll(q)
    BY <1>1, <2>3, ConsentAfterPoll
  <2>4. ASSUME \/ StartSaga(q) \/ NextAllocation(q) \/ Refused(q) \/ RecordAccepted(q)
               \/ EventWriteFails(q) \/ Compensate(q) \/ CancelCreated(q) \/ ResetUpdated(q)
               \/ EndRollback(q) \/ Settle(q) \/ Complete(q) \/ OtherTask(q)
        PROVE  ConsentOf(q)'
    <3>0. saga \in [Runs -> Locals] /\ Idle.step = "idle"
      BY DEF TypeInv, TypeOK, Locals, Steps, Idle
    <3>1. CASE StartSaga(q)
      <4>1. PICK plan, todo :
              saga' = [saga EXCEPT ![q] = [Idle EXCEPT !.step = "next", !.plan = plan, !.todo = todo]]
        BY <3>1 DEF StartSaga
      <4>2. saga'[q].step = "next"
        BY <3>0, <4>1 DEF Idle
      <4> QED
        BY <4>2, NothingMet DEF AfterReserve
    <3>2. CASE Refused(q) \/ EventWriteFails(q)
      <4>1. saga'[q].step = "rollback"
        BY <3>0, <3>2 DEF Refused, EventWriteFails, Raised, Locals
      <4> QED
        BY <4>1, NothingMet DEF AfterReserve
    <3>3. CASE NextAllocation(q)
      <4>1. CASE saga' = [saga EXCEPT ![q].step = "settle"]
        <5>1. saga'[q].step = "settle"
          BY <3>0, <4>1 DEF Locals
        <5> QED
          BY <5>1, NothingMet DEF AfterReserve
      <4>2. ASSUME NEW i, saga' = [saga EXCEPT ![q].step = "reserve", ![q].inc = i,
                                               ![q].todo = @ \ {i}, ![q].polls = 0]
            PROVE  ConsentOf(q)'
        <5>1. saga'[q].step = "reserve"
          BY <3>0, <4>2 DEF Locals
        <5> QED
          BY <5>1, NothingMet DEF AfterReserve
      <4> QED
        BY <3>3, <4>1, <4>2 DEF NextAllocation
    <3>4. CASE Compensate(q)
      <4>1. PICK local \in Locals :
              /\ local.step = "settle"
              /\ saga'[q] \in {local, Raised(local)}
        BY <3>4, CompensateLocals
      <4>2. saga'[q].step \in {"settle", "rollback"}
        BY <4>1 DEF Raised, Locals
      <4> QED
        BY <4>2, NothingMet DEF AfterReserve
    <3>5. CASE RecordAccepted(q) \/ EndRollback(q)
      <4>1. saga'[q].step \in {"next", "settle"}
        BY <3>0, <3>5 DEF RecordAccepted, EndRollback, Locals
      <4> QED
        BY <4>1, NothingMet DEF AfterReserve
    <3>6. CASE CancelCreated(q) \/ ResetUpdated(q)
      <4>1. saga'[q].step = "rollback"
        BY <3>0, <3>6 DEF CancelCreated, ResetUpdated, Locals
      <4> QED
        BY <4>1, NothingMet DEF AfterReserve
    <3>7. CASE Settle(q) \/ Complete(q) \/ OtherTask(q)
      <4>1. saga'[q].step \in {"idle", "complete", "done"}
        BY <3>0, <3>7, OtherTaskStep DEF Settle, Complete, Locals
      <4> QED
        BY <4>1, NothingMet DEF AfterReserve
    <3> QED
      BY <2>4, <3>1, <3>2, <3>3, <3>4, <3>5, <3>6, <3>7
  <2>5. ASSUME NEW r \in Runs, StartSaga(r) \/ SagaStep(r) \/ OtherTask(r)
        PROVE  ConsentOf(q)'
    BY <2>1, <2>2, <2>3, <2>4, <2>5, OthersStay DEF SagaStep, TypeInv
  <2>6. ASSUME ServiceStep \/ UNCHANGED vars PROVE ConsentOf(q)'
    BY <2>1, <2>6
    DEF vars, results, ServiceStep, Respond, ExpireRequest, ExpireReservation, ResolveIncident,
        ReleaseWorkload
  <2> QED
    BY <2>5, <2>6 DEF Next, OtherTask
<1> QED
  BY <1>2, <1>3, <1>4 DEF ConsentInv

\* Initially nothing is booked.
LEMMA ConsentInit == Init => ConsentInv
BY DEF Init, ConsentInv, Owned, ConfirmedWithConsent, ConsentOf, Idle, Absent, AfterReserve,
       AfterRequest

\* A confirmed reservation always has the specialist's consent, for any number
\* of runs, rounds and faults, and for ids that collide in any way.
THEOREM ConsentHolds == Spec => []ConfirmedWithConsent
<1>1. TypeInv /\ ConsentInv /\ [Next]_vars => ConsentInv'
  BY ConsentStep
<1>2. ConsentInv => ConfirmedWithConsent
  BY DEF ConsentInv
<1> QED
  BY <1>1, <1>2, ConsentInit, TypeInvariant, PTL DEF Spec

-----------------------------------------------------------------------------
\* What a saga relies on when it assigns, compensates or rolls back.
BookingOf(r) ==
  /\ saga[r].step = "rollback" => r \in undone
  /\ \A k \in saga[r].created : reservation[k].run = r
  /\ (saga[r].step = "assign" /\ r \notin undone /\ resolution[saga[r].inc] # "over") =>
       reservation[Key(r)].status = "CONFIRMED"

BookedInv == AssignedIsBooked /\ \A r \in Runs : BookingOf(r)

\* What may happen to the assignment of an incident in one step: it stays, it
\* is withdrawn, or a saga makes it and goes on.
IncidentStep(i) ==
  \/ incident'[i].run = incident[i].run /\ incident'[i].specialist = incident[i].specialist
  \/ incident'[i].run = NoRun /\ incident'[i].specialist = Nobody
  \/ \E r \in Runs :
       /\ saga[r].step = "assign" /\ i = saga[r].inc /\ saga'[r].step \in {"patch", "rollback"}
       /\ incident'[i].run = r /\ incident'[i].specialist = Chosen(r)
       /\ UNCHANGED <<reservation, resolution>>

\* Every step of the system changes an incident in one of these ways.
LEMMA IncidentSteps ==
  ASSUME TypeInv, [Next]_vars, NEW i \in Incidents
  PROVE  IncidentStep(i)
<1>0. incident \in [Incidents -> [status : {"OPEN", "IN_PROGRESS", "RESOLVED"},
                      specialist : Specialists \cup {Nobody}, run : Runs \cup {NoRun}]]
      /\ saga \in [Runs -> Locals]
  BY DEF TypeInv, TypeOK, Locals, Steps
<1>1. CASE UNCHANGED incident
  BY <1>1 DEF IncidentStep
<1>2. ASSUME NEW r \in Runs, Call(r)
      PROVE  IncidentStep(i)
  <2>1. /\ saga[r].step \in CallSteps /\ saga[r].step \in Handling
        /\ incident' = IncidentAfter(r) /\ reservation' = ReservationAfter(r) /\ UNCHANGED resolution
    BY <1>2 DEF Call, Handling
  <2>2. saga[r].inc \in Incidents
    BY <2>1, KeyIsKey
  <2>3. CASE saga[r].step = "assign"
    <3>1. incident' = [incident EXCEPT ![saga[r].inc].specialist = Chosen(r), ![saga[r].inc].run = r]
          /\ UNCHANGED reservation
      BY <2>1, <2>3 DEF IncidentAfter, ReservationAfter
    <3>2. saga'[r].step \in {"patch", "rollback"}
      <4>1. Noted(r) = saga[r] /\ AfterCall("assign") = "patch"
        BY <2>3 DEF Noted, AfterCall
      <4>2. saga'[r] = [saga[r] EXCEPT !.step = "patch"] \/ saga'[r] = Raised(saga[r])
        BY <1>0, <1>2, <2>3, <4>1 DEF Call
      <4> QED
        BY <1>0, <4>2 DEF Raised, Locals
    <3>3. CASE i = saga[r].inc
      BY <1>0, <2>1, <2>2, <2>3, <3>1, <3>2, <3>3 DEF IncidentStep
    <3>4. CASE i # saga[r].inc
      BY <1>0, <2>2, <3>1, <3>4 DEF IncidentStep
    <3> QED
      BY <3>3, <3>4
  <2>4. CASE saga[r].step # "assign"
    BY <1>0, <2>1, <2>2, <2>4 DEF IncidentAfter, IncidentStep
  <2> QED
    BY <2>3, <2>4
<1>3. ASSUME NEW j \in Incidents, ResolveIncident(j)
      PROVE  IncidentStep(i)
  BY <1>0, <1>3 DEF ResolveIncident, IncidentStep
<1>4. ASSUME NEW r \in Runs, ResetUpdated(r)
      PROVE  IncidentStep(i)
  BY <1>1, <1>4, NamesAssumption DEF ResetUpdated, ValidSpecialist
<1> QED
  BY <1>1, <1>2, <1>3, <1>4
  DEF Next, vars, services, SagaStep, ServiceStep, StartSaga, NextAllocation, Refused, Poll,
      RecordAccepted, EventWriteFails, Compensate, CancelCreated, EndRollback, Settle, Complete,
      OtherTask, Crash, AskManager, Reapprove, Resumed, Respond, ExpireRequest, ExpireReservation, ReleaseWorkload

\* What is over stays over: a release by the simulation, a rollback.
LEMMA OverStays ==
  ASSUME TypeInv, [Next]_vars
  PROVE  /\ \A i \in Incidents : resolution[i] = "over" => resolution'[i] = "over"
         /\ undone \subseteq undone'
<1>1. resolution \in [Incidents -> {"none", "resolved", "over"}]
  BY DEF TypeInv, TypeOK
<1>2. ASSUME NEW r \in Runs, StartSaga(r) \/ SagaStep(r) \/ OtherTask(r)
      PROVE  resolution' = resolution /\ undone \subseteq undone'
  <2>1. CASE Call(r) \/ Compensate(r)
    BY <2>1 DEF Call, Compensate
  <2>2. CASE Refused(r) \/ EventWriteFails(r)
    BY <2>2 DEF Refused, EventWriteFails, services
  <2>3. CASE StartSaga(r) \/ OtherTask(r)
    BY <2>3, OtherTaskStep DEF StartSaga, services
  <2>4. CASE \/ NextAllocation(r) \/ Poll(r) \/ RecordAccepted(r) \/ CancelCreated(r) \/ ResetUpdated(r)
             \/ EndRollback(r) \/ Settle(r) \/ Complete(r)
    BY <2>4
    DEF NextAllocation, Poll, RecordAccepted, CancelCreated, ResetUpdated, EndRollback, Settle,
        Complete, services
  <2> QED
    BY <1>2, <2>1, <2>2, <2>3, <2>4 DEF SagaStep
<1>3. ASSUME ServiceStep \/ UNCHANGED vars
      PROVE  /\ \A i \in Incidents : resolution[i] = "over" => resolution'[i] = "over"
             /\ undone' = undone
  BY <1>1, <1>3
  DEF ServiceStep, Respond, ExpireRequest, ExpireReservation, ResolveIncident, ReleaseWorkload,
      vars, services
<1> QED
  BY <1>2, <1>3 DEF Next, OtherTask

\* A confirmed reservation of a run that takes no booking back stays confirmed.
LEMMA BookingStays ==
  ASSUME TypeInv, ConsentInv, BookedInv, [Next]_vars, NEW k \in Keys,
         reservation[k].status = "CONFIRMED", reservation[k].run \in Runs \ undone',
         resolution'[reservation[k].incident] # "over"
  PROVE  reservation'[k].status = "CONFIRMED" /\ SamePayload(reservation'[k], reservation[k])
<1>1. ReservationStep(k)
  BY ReservationSteps DEF ConsentInv
<1>2. reservation[k].run # NoRun
  BY NamesAssumption
<1>3. ASSUME NEW r \in Runs, saga[r].step = "rollback", k \in saga[r].created PROVE FALSE
  BY <1>3, OverStays DEF BookedInv, BookingOf
<1>4. ASSUME NEW r \in Runs, saga[r].step = "compensate", k = Key(r), r \in undone' PROVE FALSE
  BY <1>4 DEF ConsentInv, ConsentOf, AfterReserve, SamePayload, Wanted
<1> QED
  BY <1>1, <1>2, <1>3, <1>4 DEF ReservationStep

\* An assigned incident stays backed by its booking.
LEMMA AssignedStep ==
  ASSUME TypeInv, ConsentInv, BookedInv, [Next]_vars
  PROVE  AssignedIsBooked'
<1> SUFFICES ASSUME NEW i \in Incidents, incident'[i].run \in Runs \ undone',
                    resolution'[i] # "over"
             PROVE  \E k \in Keys : reservation'[k] =
                      [status |-> "CONFIRMED", run |-> incident'[i].run,
                       incident |-> i, specialist |-> incident'[i].specialist]
  BY DEF AssignedIsBooked
<1>1. incident'[i].run \notin undone /\ resolution[i] # "over"
  BY OverStays
<1>2. CASE incident'[i].run = incident[i].run /\ incident'[i].specialist = incident[i].specialist
  <2>1. PICK k \in Keys : reservation[k] = [status |-> "CONFIRMED", run |-> incident[i].run,
                                            incident |-> i, specialist |-> incident[i].specialist]
    BY <1>1, <1>2 DEF BookedInv, AssignedIsBooked
  <2>2. reservation'[k].status = "CONFIRMED" /\ SamePayload(reservation'[k], reservation[k])
    BY <1>2, <2>1, BookingStays
  <2>3. reservation' \in [Keys -> Records(Statuses)]
    BY TypeInvStep DEF TypeInv, TypeOK
  <2> QED
    BY <1>2, <2>1, <2>2, <2>3 DEF SamePayload, Records
<1>3. ASSUME NEW r \in Runs, saga[r].step = "assign", i = saga[r].inc,
             incident'[i].run = r, incident'[i].specialist = Chosen(r),
             UNCHANGED <<reservation, resolution>>
      PROVE  \E k \in Keys : reservation'[k] =
               [status |-> "CONFIRMED", run |-> incident'[i].run,
                incident |-> i, specialist |-> incident'[i].specialist]
  <2>1. Key(r) \in Keys
    BY <1>3, KeyIsKey DEF Handling, CallSteps
  <2>2. reservation[Key(r)].status = "CONFIRMED"
    BY <1>1, <1>3 DEF BookedInv, BookingOf
  <2>3. SamePayload(reservation[Key(r)], Wanted(r, "met"))
    BY <1>3 DEF ConsentInv, ConsentOf, AfterReserve
  <2>4. reservation[Key(r)] \in Records(Statuses)
    BY <2>1 DEF TypeInv, TypeOK
  <2> QED
    BY <1>3, <2>1, <2>2, <2>3, <2>4 DEF SamePayload, Wanted, Records
<1> QED
  BY <1>2, <1>3, IncidentSteps, NamesAssumption DEF IncidentStep

\* What a saga relies on stays while it stands still.
LEMMA BookingOfStays ==
  ASSUME TypeInv, ConsentInv, BookedInv, [Next]_vars,
         NEW q \in Runs, saga'[q] = saga[q], round'[q] = round[q]
  PROVE  BookingOf(q)'
<1>1. undone \subseteq undone' /\ BookingOf(q)
  BY OverStays DEF BookedInv
<1>2. saga[q].created \subseteq Keys
  BY DEF TypeInv, TypeOK
<1>3. \A k \in saga'[q].created : reservation'[k].run = q
  BY <1>1, <1>2, ReservationSteps, NamesAssumption
  DEF BookingOf, ReservationStep, SamePayload, ConsentInv
<1>4. (saga'[q].step = "assign" /\ q \notin undone' /\ resolution'[saga'[q].inc] # "over") =>
        reservation'[Key(q)'].status = "CONFIRMED"
  <2> SUFFICES ASSUME saga[q].step = "assign", q \notin undone',
                      resolution'[saga[q].inc] # "over"
               PROVE  reservation'[Key(q)].status = "CONFIRMED"
    BY DEF Key, KeyOf
  <2>1. Key(q) \in Keys /\ saga[q].inc \in Incidents
    BY KeyIsKey DEF Handling, CallSteps
  <2>2. q \notin undone /\ resolution[saga[q].inc] # "over"
    BY <1>1, <2>1, OverStays
  <2>3. reservation[Key(q)].status = "CONFIRMED"
    BY <1>1, <2>2 DEF BookingOf
  <2>4. reservation[Key(q)].run = q /\ reservation[Key(q)].incident = saga[q].inc
    BY DEF ConsentInv, ConsentOf, AfterReserve, SamePayload, Wanted
  <2> QED
    BY <2>1, <2>2, <2>3, <2>4, BookingStays
<1> QED
  BY <1>1, <1>3, <1>4 DEF BookingOf

\* A saga that is not handling an allocation relies on little.
LEMMA BookingOfSimple ==
  ASSUME TypeInv, ConsentInv, BookedInv, [Next]_vars,
         NEW r \in Runs, saga'[r].step \notin Handling,
         saga'[r].created \subseteq saga[r].created,
         saga'[r].step = "rollback" => r \in undone'
  PROVE  BookingOf(r)'
<1>1. \A k \in saga'[r].created : reservation'[k].run = r
  <2>1. saga[r].created \subseteq Keys /\ BookingOf(r)
    BY DEF TypeInv, TypeOK, BookedInv
  <2> QED
    BY <2>1, ReservationSteps, NamesAssumption
    DEF BookingOf, ReservationStep, SamePayload, ConsentInv
<1> QED
  BY <1>1 DEF BookingOf, Handling, CallSteps

\* A saga that starts or takes an allocation has no booking yet to rely on.
LEMMA BookingAfterNext ==
  ASSUME TypeInv, ConsentInv, BookedInv, [Next]_vars, NEW r \in Runs, StartSaga(r) \/ NextAllocation(r)
  PROVE  BookingOf(r)'
<1>1. saga \in [Runs -> Locals] /\ BookingOf(r) /\ saga[r] \in Locals /\ UNCHANGED reservation
  BY DEF TypeInv, TypeOK, Locals, Steps, BookedInv, StartSaga, NextAllocation, services
<1>2. saga'[r].step \in {"next", "settle", "reserve"} /\ saga'[r].created \subseteq saga[r].created
  <2>1. CASE StartSaga(r)
    <3>1. PICK plan, todo :
            saga' = [saga EXCEPT ![r] = [Idle EXCEPT !.step = "next", !.plan = plan, !.todo = todo]]
      BY <2>1 DEF StartSaga
    <3> QED
      BY <1>1, <3>1 DEF Idle
  <2>2. CASE saga' = [saga EXCEPT ![r].step = "settle"]
    BY <1>1, <2>2 DEF Locals
  <2>3. ASSUME NEW i, saga' = [saga EXCEPT ![r].step = "reserve", ![r].inc = i,
                                           ![r].todo = @ \ {i}, ![r].polls = 0]
        PROVE  saga'[r].step = "reserve" /\ saga'[r].created = saga[r].created
    BY <1>1, <2>3 DEF Locals
  <2> QED
    BY <2>1, <2>2, <2>3 DEF NextAllocation
<1> QED
  BY <1>1, <1>2 DEF BookingOf

\* A call notes the reservation of its own run and assigns its own incident.
LEMMA BookingAfterCall ==
  ASSUME TypeInv, ConsentInv, BookedInv, [Next]_vars, NEW r \in Runs, Call(r)
  PROVE  BookingOf(r)'
<1>0. /\ saga \in [Runs -> Locals] /\ saga[r] \in Locals /\ Noted(r) \in Locals /\ BookingOf(r)
      /\ saga[r].step \in CallSteps /\ saga[r].step \in Handling /\ Key(r) \in Keys
      /\ saga[r].inc \in Incidents
      /\ reservation' = ReservationAfter(r) /\ incident' = IncidentAfter(r)
      /\ UNCHANGED <<resolution, round>>
  BY KeyIsKey, CallType
  DEF TypeInv, TypeOK, Locals, Steps, BookedInv, Call, Handling, results
<1>2. \A k \in saga[r].created : reservation'[k].run = r
  BY <1>0, ReservationSteps, NamesAssumption
  DEF BookingOf, ReservationStep, SamePayload, ConsentInv, Locals
<1>3. saga[r].step = "reserve" => reservation'[Key(r)].run = r
  <2> SUFFICES ASSUME saga[r].step = "reserve" PROVE reservation'[Key(r)].run = r
    OBVIOUS
  <2>1. CASE NewReservation(r)
    BY <1>0, <2>1 DEF ReservationAfter, TypeInv, TypeOK, Wanted
  <2>2. CASE ~NewReservation(r)
    <3>1. Replays(reservation[Key(r)], r) /\ reservation' = reservation
      BY <1>0, <2>2 DEF Call, Accepts, ReservationAfter
    <3> QED
      BY <3>1 DEF Replays, SamePayload, Wanted
  <2> QED
    BY <2>1, <2>2
<1>4. /\ Noted(r).inc = saga[r].inc /\ Noted(r).step = saga[r].step
      /\ \A k \in Noted(r).created : reservation'[k].run = r
  BY <1>0, <1>2, <1>3 DEF Noted, Locals
<1>5. CASE saga' = [saga EXCEPT ![r] = [Noted(r) EXCEPT !.step = AfterCall(@)]]
  <2>1. /\ saga'[r].step = AfterCall(saga[r].step) /\ saga'[r].inc = saga[r].inc
        /\ saga'[r].created = Noted(r).created
    BY <1>0, <1>4, <1>5 DEF Locals
  <2>2. Key(r)' = Key(r)
    BY <1>0, <2>1 DEF Key, KeyOf
  <2>3. /\ AfterCall(saga[r].step) \in {"request", "poll", "assign", "patch", "record"}
        /\ AfterCall(saga[r].step) = "assign" => saga[r].step = "confirm"
    BY <1>0 DEF AfterCall, CallSteps
  <2>4. saga'[r].step = "assign" => reservation'[Key(r)].status = "CONFIRMED"
    <3>1. saga[r].step = "confirm" => reservation'[Key(r)].status = "CONFIRMED"
      BY <1>0 DEF ReservationAfter, TypeInv, TypeOK, Records
    <3> QED
      BY <2>1, <2>3, <3>1
  <2>5. saga'[r].step # "rollback"
    BY <2>1, <2>3
  <2> QED
    BY <1>4, <2>1, <2>2, <2>4, <2>5 DEF BookingOf
<1>6. ASSUME NEW local \in {saga[r], Noted(r)}, saga' = [saga EXCEPT ![r] = Raised(local)],
             undone' = undone \cup {r}
      PROVE  BookingOf(r)'
  <2>1. saga'[r].step = "rollback" /\ saga'[r].created = local.created
    BY <1>0, <1>4, <1>6 DEF Raised, Locals
  <2> QED
    BY <1>2, <1>4, <1>6, <2>1 DEF BookingOf
<1> QED
  BY <1>5, <1>6 DEF Call

\* A poll changes neither the incident nor what the saga has created.
LEMMA BookingAfterPoll ==
  ASSUME TypeInv, ConsentInv, BookedInv, [Next]_vars, NEW r \in Runs, Poll(r)
  PROVE  BookingOf(r)'
<1>1. /\ saga \in [Runs -> Locals] /\ saga[r] \in Locals /\ saga[r].step = "poll" /\ BookingOf(r)
      /\ UNCHANGED reservation
  BY DEF TypeInv, TypeOK, Locals, Steps, BookedInv, Poll, services
<1>2. PICK local \in {[saga[r] EXCEPT !.step = "confirm"], [saga[r] EXCEPT !.step = "compensate"],
                      Unanswered(saga[r])} : saga' = [saga EXCEPT ![r] = local]
  BY <1>1 DEF Poll
<1>3. local.step \in {"confirm", "compensate", "poll"} /\ local.created = saga[r].created
  BY <1>1, <1>2 DEF Unanswered, Locals
<1>4. saga'[r] = local
  BY <1>1, <1>2
<1> QED
  BY <1>1, <1>3, <1>4 DEF BookingOf

\* Every other step of a saga leaves the loop body, or stays outside of it.
LEMMA BookingAfterRest ==
  ASSUME TypeInv, ConsentInv, BookedInv, [Next]_vars, NEW r \in Runs,
         \/ Refused(r) \/ RecordAccepted(r) \/ EventWriteFails(r) \/ Compensate(r)
         \/ CancelCreated(r) \/ ResetUpdated(r) \/ EndRollback(r) \/ Settle(r)
         \/ Complete(r) \/ OtherTask(r)
  PROVE  BookingOf(r)'
<1>1. saga \in [Runs -> Locals] /\ saga[r] \in Locals /\ BookingOf(r)
  BY DEF TypeInv, TypeOK, Locals, Steps, BookedInv
<1>2. CASE Refused(r) \/ EventWriteFails(r)
  <2>1. saga' = [saga EXCEPT ![r] = Raised(saga[r])] /\ undone' = undone \cup {r}
    BY <1>1, <1>2 DEF Refused, EventWriteFails
  <2>2. saga'[r].step = "rollback" /\ saga'[r].created = saga[r].created /\ r \in undone'
    BY <1>1, <2>1 DEF Raised, Locals
  <2> QED
    BY <2>2, BookingOfSimple DEF Handling, CallSteps
<1>3. CASE Compensate(r)
  <2>1. PICK local \in Locals :
          /\ local.step = "settle" /\ local.created \subseteq saga[r].created
          /\ saga'[r] \in {local, Raised(local)}
    BY <1>3, CompensateLocals
  <2>2. saga'[r].step \in {"settle", "rollback"} /\ saga'[r].created \subseteq saga[r].created
    BY <2>1 DEF Raised, Locals
  <2>3. saga'[r].step = "rollback" => r \in undone'
    <3>1. CASE r \in undone'
      BY <3>1
    <3>2. CASE r \notin undone'
      BY <1>1, <1>3, <3>2 DEF Compensate, Locals
    <3> QED
      BY <3>1, <3>2
  <2> QED
    BY <2>2, <2>3, BookingOfSimple DEF Handling, CallSteps
<1>4. CASE CancelCreated(r) \/ ResetUpdated(r)
  <2>1. saga'[r].step = "rollback" /\ saga'[r].created \subseteq saga[r].created
    BY <1>1, <1>4 DEF CancelCreated, ResetUpdated, Locals
  <2>2. r \in undone'
    BY <1>1, <1>4 DEF CancelCreated, ResetUpdated, BookingOf
  <2> QED
    BY <2>1, <2>2, BookingOfSimple DEF Handling, CallSteps
<1>5. CASE RecordAccepted(r) \/ EndRollback(r)
  <2>1. saga'[r].step \in {"next", "settle"} /\ saga'[r].created = saga[r].created
    BY <1>1, <1>5 DEF RecordAccepted, EndRollback, Locals
  <2> QED
    BY <2>1, BookingOfSimple DEF Handling, CallSteps
<1>6. CASE Settle(r) \/ Complete(r) \/ OtherTask(r)
  <2>1. Idle.step = "idle" /\ Idle.created = {}
    BY DEF Idle
  <2>2. /\ saga'[r].step \in {"idle", "complete", "done"}
        /\ saga'[r].created \subseteq saga[r].created
    BY <1>1, <1>6, <2>1, OtherTaskStep DEF Settle, Complete, Locals
  <2> QED
    BY <2>2, BookingOfSimple DEF Handling, CallSteps
<1> QED
  BY <1>2, <1>3, <1>4, <1>5, <1>6

\* The booking stands behind the assignment: the inductive step.
LEMMA BookedStep ==
  ASSUME TypeInv, ConsentInv, BookedInv, [Next]_vars
  PROVE  BookedInv'
<1>1. AssignedIsBooked'
  BY AssignedStep
<1>2. ASSUME NEW q \in Runs PROVE BookingOf(q)'
  <2>1. CASE saga'[q] = saga[q] /\ round'[q] = round[q]
    BY <2>1, BookingOfStays
  <2>2. CASE StartSaga(q) \/ SagaStep(q) \/ OtherTask(q)
    BY <2>2, BookingAfterNext, BookingAfterCall, BookingAfterPoll, BookingAfterRest DEF SagaStep
  <2>3. ASSUME NEW r \in Runs, StartSaga(r) \/ SagaStep(r) \/ OtherTask(r)
        PROVE  BookingOf(q)'
    BY <2>1, <2>2, <2>3, OthersStay DEF TypeInv
  <2>4. ASSUME ServiceStep \/ UNCHANGED vars PROVE BookingOf(q)'
    BY <2>1, <2>4
    DEF vars, results, ServiceStep, Respond, ExpireRequest, ExpireReservation, ResolveIncident,
        ReleaseWorkload
  <2> QED
    BY <2>3, <2>4 DEF Next, OtherTask
<1> QED
  BY <1>1, <1>2 DEF BookedInv

\* Initially no incident is assigned.
LEMMA BookedInit == Init => BookedInv
BY NamesAssumption
DEF Init, BookedInv, AssignedIsBooked, BookingOf, Idle

\* An incident assigned by a run that has taken no booking back is backed by a
\* confirmed reservation, until the simulation has released it: for any number
\* of runs, rounds, crashes and faults, for plans of incidents that are assigned
\* already, and for ids that collide in any way.
THEOREM BookingHolds == Spec => []AssignedIsBooked
<1>1. TypeInv /\ ConsentInv /\ BookedInv /\ [Next]_vars => BookedInv'
  BY BookedStep
<1>2. TypeInv /\ ConsentInv /\ [Next]_vars => ConsentInv'
  BY ConsentStep
<1>3. BookedInv => AssignedIsBooked
  BY DEF BookedInv
<1> QED
  BY <1>1, <1>2, <1>3, ConsentInit, BookedInit, TypeInvariant, PTL DEF Spec
-----------------------------------------------------------------------------
\* The booking of the allocation that is being handled is still to come.
BeforeBooked == {"reserve", "request", "poll", "confirm", "compensate"}

\* No exception and no unanswered or rejected allocation so far.
OnCourse(r) == saga[r].step # "idle" /\ ~saga[r].failed /\ ~saga[r].replan

\* The saga has been through this allocation of its plan.
DealtWith(r, i) ==
  /\ saga[r].plan[i] # Nobody /\ i \notin saga[r].todo
  /\ saga[r].step \in BeforeBooked => i # saga[r].inc

\* What an accepted allocation leaves in the workforce service.
BookedAs(r, i) ==
  [status |-> "CONFIRMED", run |-> r, incident |-> i, specialist |-> saga[r].plan[i]]

\* The loop books one allocation after the other, and is left early only by
\* an exception or to replan.
ExecutionOf(r) ==
  /\ saga[r].step = "rollback" => saga[r].failed
  /\ outcome[r] = "EXECUTED" =>
       (saga[r].step \in {"complete", "done"} /\ OnCourse(r)) \/ saga[r].step = "idle"
  /\ saga[r].step = "idle" => saga[r] = Idle
  /\ saga[r].step \in {"settle", "complete", "done"} /\ OnCourse(r) => saga[r].todo = {}
  /\ OnCourse(r) => \A i \in Incidents :
       DealtWith(r, i) /\ resolution[i] # "over" => reservation[KeyOf(r, i)] = BookedAs(r, i)

ExecutionInv == \A r \in Runs : ExecutionOf(r)

\* The ids of a saga are ids of its round.
LEMMA KeyOfIsKey ==
  ASSUME TypeInv, NEW r \in Runs, NEW i \in Incidents, saga[r].step # "idle"
  PROVE  KeyOf(r, i) \in Keys
<1>1. round[r] \in 0..MaxReplan
  BY BoundsAssumption DEF TypeInv, Ready, TypeOK
<1> QED
  BY <1>1 DEF KeyOf, Keys

\* A booking of a saga on course is not taken away, except by the simulation:
\* other sagas give up only what they have created or met as their own.
LEMMA BookingLasts ==
  ASSUME TypeInv, ConsentInv, BookedInv, [Next]_vars,
         NEW r \in Runs, NEW i \in Incidents, ExecutionOf(r), OnCourse(r),
         saga[r].step = "compensate" => i # saga[r].inc, resolution'[i] # "over",
         reservation[KeyOf(r, i)] = BookedAs(r, i)
  PROVE  reservation'[KeyOf(r, i)] = BookedAs(r, i)
<1> DEFINE k == KeyOf(r, i)
<1>1. k \in Keys
  BY KeyOfIsKey DEF OnCourse
<1>2. ReservationStep(k) /\ reservation'[k] \in Records(Statuses)
  BY <1>1, ReservationSteps, TypeInvStep DEF ConsentInv, TypeInv, TypeOK
<1>3. /\ reservation[k].status = "CONFIRMED" /\ reservation[k].run = r
      /\ reservation[k].incident = i /\ r # NoRun
  BY NamesAssumption DEF BookedAs
<1>4. ASSUME NEW q \in Runs, saga[q].step = "rollback", k \in saga[q].created PROVE FALSE
  <2>1. q = r
    BY <1>3, <1>4 DEF BookedInv, BookingOf
  <2> QED
    BY <1>4, <2>1 DEF ExecutionOf, OnCourse
<1>5. ASSUME NEW q \in Runs, saga[q].step = "compensate", k = Key(q) PROVE FALSE
  <2>1. SamePayload(reservation[k], Wanted(q, "met"))
    BY <1>5 DEF ConsentInv, ConsentOf, AfterReserve
  <2>2. q = r /\ i = saga[q].inc
    BY <1>3, <2>1 DEF SamePayload, Wanted
  <2> QED
    BY <1>5, <2>2
<1> HIDE DEF k
<1>6. reservation'[k].status = "CONFIRMED" /\ SamePayload(reservation'[k], reservation[k])
  BY <1>2, <1>3, <1>4, <1>5 DEF ReservationStep
<1> QED
  BY <1>2, <1>6 DEF k, SamePayload, Records, BookedAs

\* A saga that stays on course may add the booking of the allocation it handles.
LEMMA ExecutionGoesOn ==
  ASSUME TypeInv, ConsentInv, BookedInv, [Next]_vars,
         NEW r \in Runs, ExecutionOf(r), OnCourse(r),
         outcome'[r] # "EXECUTED" \/ saga'[r].step \in {"complete", "done"},
         saga'[r].step # "rollback", round'[r] = round[r], saga'[r].plan = saga[r].plan,
         saga'[r].step \in {"settle", "complete", "done"} => saga'[r].todo = {},
         saga'[r].failed = saga[r].failed, saga'[r].replan = saga[r].replan, saga'[r].step # "idle",
         \A i \in Incidents :
           DealtWith(r, i)' => DealtWith(r, i) \/ reservation'[KeyOf(r, i)] = BookedAs(r, i)
  PROVE  ExecutionOf(r)'
<1>1. \A i \in Incidents : KeyOf(r, i)' = KeyOf(r, i) /\ BookedAs(r, i)' = BookedAs(r, i)
  BY DEF KeyOf, BookedAs
<1>2. ASSUME NEW i \in Incidents, DealtWith(r, i)', resolution'[i] # "over"
      PROVE  reservation'[KeyOf(r, i)] = BookedAs(r, i)
  <2>1. CASE reservation'[KeyOf(r, i)] = BookedAs(r, i)
    BY <2>1
  <2>2. CASE DealtWith(r, i)
    <3>1. resolution[i] # "over" /\ (saga[r].step = "compensate" => i # saga[r].inc)
      BY <1>2, <2>2, OverStays DEF DealtWith, BeforeBooked
    <3>2. reservation[KeyOf(r, i)] = BookedAs(r, i)
      BY <2>2, <3>1 DEF ExecutionOf
    <3> QED
      BY <1>2, <3>1, <3>2, BookingLasts
  <2> QED
    BY <1>2, <2>1, <2>2
<1> QED
  BY <1>1, <1>2 DEF ExecutionOf, OnCourse

\* A saga that is off course has nothing to keep.
LEMMA ExecutionGivenUp ==
  ASSUME NEW r \in Runs, ~OnCourse(r)', outcome'[r] = "EXECUTED" => saga'[r].step = "idle",
         saga'[r].step = "idle" => saga'[r] = Idle,
         saga'[r].step = "rollback" => saga'[r].failed
  PROVE  ExecutionOf(r)'
BY DEF ExecutionOf

\* What an outcome stands for stays while its saga stands still.
LEMMA ExecutionStays ==
  ASSUME TypeInv, ConsentInv, BookedInv, [Next]_vars, NEW r \in Runs, ExecutionOf(r),
         saga'[r] = saga[r], round'[r] = round[r], outcome'[r] = outcome[r]
  PROVE  ExecutionOf(r)'
<1>1. CASE OnCourse(r)
  <2>1. CASE saga[r].step # "rollback"
    <3>1. outcome'[r] # "EXECUTED" \/ saga'[r].step \in {"complete", "done"}
      BY <1>1 DEF ExecutionOf, OnCourse
    <3>2. saga'[r].step \in {"settle", "complete", "done"} => saga'[r].todo = {}
      BY <1>1 DEF ExecutionOf
    <3>3. saga'[r].step # "idle" /\ \A i \in Incidents : DealtWith(r, i)' => DealtWith(r, i)
      BY <1>1 DEF OnCourse, DealtWith
    <3> QED
      BY <1>1, <2>1, <3>1, <3>2, <3>3, ExecutionGoesOn
  <2>2. CASE saga[r].step = "rollback"
    BY <1>1, <2>2 DEF ExecutionOf, OnCourse
  <2> QED
    BY <2>1, <2>2
<1>2. CASE ~OnCourse(r)
  BY <1>2, ExecutionGivenUp DEF ExecutionOf, OnCourse
<1> QED
  BY <1>1, <1>2

\* The loop takes its next allocation, or ends with none left.
LEMMA ExecutionAfterNext ==
  ASSUME TypeInv, ConsentInv, BookedInv, [Next]_vars, NEW r \in Runs, ExecutionOf(r), NextAllocation(r)
  PROVE  ExecutionOf(r)'
<1>1. /\ saga \in [Runs -> Locals] /\ saga[r] \in Locals /\ saga[r].step = "next"
      /\ outcome'[r] # "EXECUTED" /\ round'[r] = round[r]
  BY DEF TypeInv, TypeOK, Locals, Steps, NextAllocation, results, ExecutionOf
<1>2. CASE saga[r].todo = {} /\ saga' = [saga EXCEPT ![r].step = "settle"]
  <2>1. /\ saga'[r].step = "settle" /\ saga'[r].todo = {} /\ saga[r].todo = {}
        /\ saga'[r].plan = saga[r].plan
        /\ saga'[r].failed = saga[r].failed /\ saga'[r].replan = saga[r].replan
    BY <1>1, <1>2 DEF Locals
  <2>2. \A i \in Incidents : DealtWith(r, i)' => DealtWith(r, i)
    BY <1>1, <2>1 DEF DealtWith, BeforeBooked
  <2>3. saga'[r].step # "idle" /\ (~OnCourse(r) => ~OnCourse(r)')
    BY <1>1, <2>1 DEF OnCourse
  <2> QED
    BY <1>1, <2>1, <2>2, <2>3, ExecutionGoesOn, ExecutionGivenUp
<1>3. ASSUME NEW j \in saga[r].todo,
             saga' = [saga EXCEPT ![r].step = "reserve", ![r].inc = j,
                                  ![r].todo = @ \ {j}, ![r].polls = 0]
      PROVE  ExecutionOf(r)'
  <2>1. /\ saga'[r].step = "reserve" /\ saga'[r].inc = j /\ saga'[r].todo = saga[r].todo \ {j}
        /\ saga'[r].plan = saga[r].plan
        /\ saga'[r].failed = saga[r].failed /\ saga'[r].replan = saga[r].replan
    BY <1>1, <1>3 DEF Locals
  <2>2. \A i \in Incidents : DealtWith(r, i)' => DealtWith(r, i)
    BY <1>1, <2>1 DEF DealtWith, BeforeBooked
  <2>3. saga'[r].step # "idle" /\ (~OnCourse(r) => ~OnCourse(r)')
    BY <1>1, <2>1 DEF OnCourse
  <2> QED
    BY <1>1, <2>1, <2>2, <2>3, ExecutionGoesOn, ExecutionGivenUp
<1> QED
  BY <1>2, <1>3 DEF NextAllocation

\* A call that returns goes on within the allocation; the confirmation books it.
LEMMA ExecutionAfterCall ==
  ASSUME TypeInv, ConsentInv, BookedInv, [Next]_vars, NEW r \in Runs, ExecutionOf(r), Call(r)
  PROVE  ExecutionOf(r)'
<1>1. /\ saga \in [Runs -> Locals] /\ saga[r] \in Locals /\ Noted(r) \in Locals
      /\ saga[r].step \in CallSteps /\ saga[r].step \in Handling
      /\ outcome'[r] # "EXECUTED" /\ round'[r] = round[r] /\ Key(r) \in Keys
  BY CallType, KeyIsKey
  DEF TypeInv, TypeOK, Locals, Steps, Call, results, ExecutionOf, CallSteps, Handling
<1>2. /\ Noted(r).todo = saga[r].todo /\ Noted(r).inc = saga[r].inc /\ Noted(r).plan = saga[r].plan
      /\ Noted(r).step = saga[r].step /\ Noted(r).failed = saga[r].failed
      /\ Noted(r).replan = saga[r].replan
  BY <1>1 DEF Noted, Locals
<1>3. CASE saga' = [saga EXCEPT ![r] = [Noted(r) EXCEPT !.step = AfterCall(@)]]
  <2>1. /\ saga'[r].step = AfterCall(saga[r].step) /\ saga'[r].inc = saga[r].inc
        /\ saga'[r].todo = saga[r].todo /\ saga'[r].plan = saga[r].plan
        /\ saga'[r].failed = saga[r].failed /\ saga'[r].replan = saga[r].replan
    BY <1>1, <1>2, <1>3 DEF Locals
  <2>2. /\ AfterCall(saga[r].step) \in {"request", "poll", "assign", "patch", "record"}
        /\ AfterCall(saga[r].step) \notin BeforeBooked =>
             saga[r].step = "confirm" \/ saga[r].step \notin BeforeBooked
    BY <1>1 DEF AfterCall, CallSteps, BeforeBooked
  <2>3. saga[r].step = "confirm" => reservation'[Key(r)] = BookedAs(r, saga[r].inc)
    <3> SUFFICES ASSUME saga[r].step = "confirm"
                 PROVE  reservation'[Key(r)] = BookedAs(r, saga[r].inc)
      OBVIOUS
    <3>1. reservation' = [reservation EXCEPT ![Key(r)].status = "CONFIRMED"]
      BY DEF Call, ReservationAfter
    <3>2. reservation \in [Keys -> Records(Statuses)]
      BY DEF TypeInv, TypeOK
    <3>3. SamePayload(reservation[Key(r)], Wanted(r, "met"))
      BY DEF ConsentInv, ConsentOf, AfterReserve
    <3> QED
      BY <1>1, <3>1, <3>2, <3>3 DEF SamePayload, Wanted, Chosen, BookedAs, Records
  <2>4. ASSUME NEW i \in Incidents, DealtWith(r, i)'
        PROVE  DealtWith(r, i) \/ reservation'[KeyOf(r, i)] = BookedAs(r, i)
    <3>1. CASE saga[r].step = "confirm" /\ i = saga[r].inc
      BY <2>3, <3>1 DEF Key
    <3>2. CASE ~(saga[r].step = "confirm" /\ i = saga[r].inc)
      BY <2>1, <2>2, <2>4, <3>2 DEF DealtWith
    <3> QED
      BY <3>1, <3>2
  <2>5. saga'[r].step \notin {"idle", "rollback", "settle", "complete", "done"}
    BY <2>1, <2>2
  <2>6. ~OnCourse(r) => ~OnCourse(r)'
    BY <1>1, <2>1 DEF OnCourse, CallSteps
  <2>7. CASE OnCourse(r)
    BY <1>1, <2>1, <2>4, <2>5, <2>7, ExecutionGoesOn
  <2>8. CASE ~OnCourse(r)
    BY <1>1, <2>5, <2>6, <2>8, ExecutionGivenUp
  <2> QED
    BY <2>7, <2>8
<1>4. ASSUME NEW local \in Locals, saga' = [saga EXCEPT ![r] = Raised(local)]
      PROVE  ExecutionOf(r)'
  <2>1. saga'[r].failed /\ saga'[r].step = "rollback"
    BY <1>1, <1>4 DEF Raised, Locals
  <2> QED
    BY <1>1, <2>1, ExecutionGivenUp DEF OnCourse
<1> QED
  BY <1>1, <1>3, <1>4 DEF Call

\* A poll and the event of an accepted allocation stay within the allocation.
LEMMA ExecutionAfterPoll ==
  ASSUME TypeInv, ConsentInv, BookedInv, [Next]_vars, NEW r \in Runs, ExecutionOf(r),
         Poll(r) \/ RecordAccepted(r)
  PROVE  ExecutionOf(r)'
<1>1. /\ saga \in [Runs -> Locals] /\ saga[r] \in Locals /\ saga[r].step \in {"poll", "record"}
      /\ outcome'[r] # "EXECUTED" /\ round'[r] = round[r]
  BY DEF TypeInv, TypeOK, Locals, Steps, Poll, RecordAccepted, results, ExecutionOf
<1>2. /\ \/ saga[r].step = "poll" /\ saga'[r].step \in {"confirm", "compensate", "poll"}
         \/ saga[r].step = "record" /\ saga'[r].step = "next"
      /\ saga'[r].inc = saga[r].inc /\ saga'[r].todo = saga[r].todo /\ saga'[r].plan = saga[r].plan
      /\ saga'[r].failed = saga[r].failed /\ saga'[r].replan = saga[r].replan
  <2>1. CASE RecordAccepted(r)
    BY <1>1, <2>1 DEF RecordAccepted, Locals
  <2>2. CASE Poll(r)
    <3>1. PICK local \in {[saga[r] EXCEPT !.step = "confirm"], [saga[r] EXCEPT !.step = "compensate"],
                          Unanswered(saga[r])} : saga' = [saga EXCEPT ![r] = local]
      BY <1>1, <2>2 DEF Poll
    <3>2. /\ local.step \in {"confirm", "compensate", "poll"} /\ local.inc = saga[r].inc
          /\ local.todo = saga[r].todo /\ local.plan = saga[r].plan
          /\ local.failed = saga[r].failed /\ local.replan = saga[r].replan
      BY <1>1, <3>1 DEF Unanswered, Locals
    <3>3. saga'[r] = local /\ saga[r].step = "poll"
      BY <1>1, <2>2, <3>1 DEF Poll
    <3> QED
      BY <3>2, <3>3
  <2> QED
    BY <2>1, <2>2
<1>3. \A i \in Incidents : DealtWith(r, i)' => DealtWith(r, i)
  BY <1>2 DEF DealtWith, BeforeBooked
<1>4. saga'[r].step \notin {"idle", "rollback", "settle", "complete", "done"}
  BY <1>2
<1>5. CASE OnCourse(r)
  BY <1>1, <1>2, <1>3, <1>4, <1>5, ExecutionGoesOn
<1>6. CASE ~OnCourse(r)
  <2>1. ~OnCourse(r)'
    BY <1>1, <1>2, <1>6 DEF OnCourse
  <2> QED
    BY <1>1, <1>4, <2>1, ExecutionGivenUp
<1> QED
  BY <1>5, <1>6

\* Every other step of a saga starts it, ends it, or gives it up.
LEMMA ExecutionAfterRest ==
  ASSUME TypeInv, ConsentInv, BookedInv, [Next]_vars, NEW r \in Runs, ExecutionOf(r),
         \/ StartSaga(r) \/ Refused(r) \/ EventWriteFails(r) \/ Compensate(r) \/ CancelCreated(r)
         \/ ResetUpdated(r) \/ EndRollback(r) \/ Settle(r) \/ Complete(r) \/ OtherTask(r)
  PROVE  ExecutionOf(r)'
<1>0. /\ saga \in [Runs -> Locals] /\ saga[r] \in Locals
      /\ outcome \in [Runs -> {"none", "REPLANNING", "FAILED_SAGA", "EXECUTED"}]
  BY DEF TypeInv, TypeOK, Locals, Steps
<1>1. CASE StartSaga(r)
  <2>1. PICK plan \in [Incidents -> Specialists \cup {Nobody}] :
          saga' = [saga EXCEPT ![r] = [Idle EXCEPT !.step = "next", !.plan = plan,
                                          !.todo = {i \in Incidents : plan[i] # Nobody}]]
    BY <1>1 DEF StartSaga
  <2>2. /\ saga'[r].step = "next" /\ saga'[r].plan = plan
        /\ saga'[r].todo = {i \in Incidents : plan[i] # Nobody}
    BY <1>0, <2>1 DEF Idle
  <2>3. \A i \in Incidents : ~DealtWith(r, i)'
    BY <2>2 DEF DealtWith
  <2>4. outcome'[r] # "EXECUTED"
    BY <1>0, <1>1 DEF StartSaga
  <2> QED
    BY <2>2, <2>3, <2>4 DEF ExecutionOf
<1>2. CASE Refused(r) \/ EventWriteFails(r)
  <2>1. saga'[r].failed /\ saga'[r].step = "rollback"
    <3>1. saga' = [saga EXCEPT ![r] = Raised(saga[r])]
      BY <1>2 DEF Refused, EventWriteFails
    <3> QED
      BY <1>0, <3>1 DEF Raised, Locals
  <2>2. outcome'[r] # "EXECUTED"
    BY <1>2 DEF Refused, EventWriteFails, results, ExecutionOf, CallSteps
  <2> QED
    BY <2>1, <2>2, ExecutionGivenUp DEF OnCourse
<1>3. CASE Compensate(r)
  <2>1. PICK local \in Locals : /\ local.step = "settle" /\ local.replan
                                /\ saga'[r] \in {local, Raised(local)}
    BY <1>3, CompensateLocals
  <2>2. /\ saga'[r].replan /\ saga'[r].step # "idle"
        /\ saga'[r].step = "rollback" => saga'[r].failed
    BY <2>1 DEF Raised, Locals
  <2>3. outcome'[r] # "EXECUTED"
    BY <1>3 DEF Compensate, results, ExecutionOf
  <2> QED
    BY <2>2, <2>3, ExecutionGivenUp DEF OnCourse
<1>4. CASE CancelCreated(r) \/ ResetUpdated(r) \/ EndRollback(r)
  <2>1. saga[r].step = "rollback" /\ saga[r].failed
    BY <1>4 DEF CancelCreated, ResetUpdated, EndRollback, ExecutionOf
  <2>2. saga'[r].failed /\ saga'[r].step # "idle"
    BY <1>0, <1>4, <2>1 DEF CancelCreated, ResetUpdated, EndRollback, Locals
  <2>3. outcome'[r] # "EXECUTED"
    BY <1>4, <2>1 DEF CancelCreated, ResetUpdated, EndRollback, results, ExecutionOf
  <2> QED
    BY <2>2, <2>3, ExecutionGivenUp DEF OnCourse
<1>5. CASE Settle(r)
  <2>1. /\ saga[r].step = "settle" /\ outcome'[r] = Outcome(saga[r])
        /\ saga' = [saga EXCEPT ![r] = IF saga[r].replan THEN Idle ELSE [saga[r] EXCEPT !.step = "complete"]]
        /\ round'[r] = IF saga[r].replan THEN round[r] + 1 ELSE round[r]
    BY <1>0, <1>5 DEF Settle, TypeInv, TypeOK
  <2>2. CASE ~saga[r].replan
    <3>1. /\ saga'[r].step = "complete" /\ saga'[r].plan = saga[r].plan /\ saga'[r].todo = saga[r].todo
          /\ saga'[r].failed = saga[r].failed /\ saga'[r].replan = saga[r].replan
      BY <1>0, <2>1, <2>2 DEF Locals
    <3>2. CASE saga[r].failed
      <4>1. outcome'[r] # "EXECUTED"
        BY <2>1, <2>2, <3>2 DEF Outcome
      <4> QED
        BY <3>1, <3>2, <4>1, ExecutionGivenUp DEF OnCourse
    <3>3. CASE ~saga[r].failed
      <4>1. OnCourse(r) /\ saga[r].todo = {} /\ round'[r] = round[r]
        BY <2>1, <2>2, <3>3 DEF OnCourse, ExecutionOf
      <4>2. \A i \in Incidents : DealtWith(r, i)' => DealtWith(r, i)
        BY <2>1, <3>1 DEF DealtWith, BeforeBooked
      <4> QED
        BY <3>1, <4>1, <4>2, ExecutionGoesOn
    <3> QED
      BY <3>2, <3>3
  <2>3. CASE saga[r].replan
    <3>1. saga'[r] = Idle /\ Idle.step = "idle"
      BY <1>0, <2>1, <2>3 DEF Idle
    <3> QED
      BY <3>1, ExecutionGivenUp DEF OnCourse
  <2> QED
    BY <2>2, <2>3
<1>6. CASE Complete(r)
  <2>1. /\ saga'[r].step = "done" /\ saga[r].step = "complete" /\ outcome'[r] = outcome[r]
        /\ round'[r] = round[r] /\ saga'[r].plan = saga[r].plan /\ saga'[r].todo = saga[r].todo
        /\ saga'[r].failed = saga[r].failed /\ saga'[r].replan = saga[r].replan
    BY <1>0, <1>6 DEF Complete, Locals
  <2>2. CASE OnCourse(r)
    <3>1. \A i \in Incidents : DealtWith(r, i)' => DealtWith(r, i)
      BY <2>1 DEF DealtWith, BeforeBooked
    <3>2. saga[r].todo = {}
      BY <2>1, <2>2 DEF ExecutionOf
    <3> QED
      BY <2>1, <2>2, <3>1, <3>2, ExecutionGoesOn
  <2>3. CASE ~OnCourse(r)
    <3>1. ~OnCourse(r)' /\ outcome'[r] # "EXECUTED"
      BY <2>1, <2>3 DEF OnCourse, ExecutionOf
    <3> QED
      BY <2>1, <3>1, ExecutionGivenUp
  <2> QED
    BY <2>2, <2>3
<1>7. CASE OtherTask(r)
  <2>1. saga'[r] = Idle
    BY <1>0, <1>7, OtherTaskStep DEF ExecutionOf
  <2>2. saga'[r].step = "idle"
    BY <2>1 DEF Idle
  <2>3. ~OnCourse(r)'
    BY <2>2 DEF OnCourse
  <2> QED
    BY <2>1, <2>2, <2>3, ExecutionGivenUp
<1> QED
  BY <1>1, <1>2, <1>3, <1>4, <1>5, <1>6, <1>7

\* EXECUTED stays true: the inductive step.
LEMMA ExecutionStep ==
  ASSUME TypeInv, ConsentInv, BookedInv, ExecutionInv, [Next]_vars
  PROVE  ExecutionInv'
<1> SUFFICES ASSUME NEW q \in Runs PROVE ExecutionOf(q)'
  BY DEF ExecutionInv
<1>0. ExecutionOf(q)
  BY DEF ExecutionInv
<1>1. CASE saga'[q] = saga[q] /\ round'[q] = round[q] /\ outcome'[q] = outcome[q]
  BY <1>0, <1>1, ExecutionStays
<1>2. CASE StartSaga(q) \/ SagaStep(q) \/ OtherTask(q)
  BY <1>0, <1>2, ExecutionAfterNext, ExecutionAfterCall, ExecutionAfterPoll, ExecutionAfterRest
  DEF SagaStep
<1>3. ASSUME NEW r \in Runs, StartSaga(r) \/ SagaStep(r) \/ OtherTask(r)
      PROVE  ExecutionOf(q)'
  BY <1>1, <1>2, <1>3, OthersStay DEF TypeInv
<1>4. ASSUME ServiceStep \/ UNCHANGED vars PROVE ExecutionOf(q)'
  BY <1>1, <1>4
  DEF vars, results, ServiceStep, Respond, ExpireRequest, ExpireReservation, ResolveIncident,
      ReleaseWorkload
<1> QED
  BY <1>3, <1>4 DEF Next, OtherTask

\* Initially no saga has an outcome.
LEMMA ExecutionInit == Init => ExecutionInv
BY DEF Init, ExecutionInv, ExecutionOf, OnCourse, Idle

\* EXECUTED is complete success: every allocation of the plan is confirmed
\* under the id and with the payload of the run, unless the simulation has
\* released the incident: for any number of runs, rounds and faults.
THEOREM ExecutionComplete == Spec => []ExecutedIsBooked
<1>1. TypeInv /\ ConsentInv /\ [Next]_vars => ConsentInv'
  BY ConsentStep
<1>2. TypeInv /\ ConsentInv /\ BookedInv /\ [Next]_vars => BookedInv'
  BY BookedStep
<1>3. TypeInv /\ ConsentInv /\ BookedInv /\ ExecutionInv /\ [Next]_vars => ExecutionInv'
  BY ExecutionStep
<1>4. ASSUME ExecutionInv PROVE ExecutedIsBooked
  <2> SUFFICES ASSUME NEW r \in Runs, outcome[r] = "EXECUTED", NEW i \in Incidents,
                      saga[r].plan[i] # Nobody, resolution[i] # "over"
               PROVE  reservation[KeyOf(r, i)] = BookedAs(r, i)
    BY DEF ExecutedIsBooked, BookedAs
  <2>1. ExecutionOf(r) /\ saga[r].step # "idle"
    BY <1>4 DEF ExecutionInv, ExecutionOf, Idle
  <2> QED
    BY <2>1 DEF ExecutionOf, DealtWith, BeforeBooked
<1> QED
  BY <1>1, <1>2, <1>3, <1>4, ConsentInit, BookedInit, ExecutionInit, TypeInvariant, PTL DEF Spec

-----------------------------------------------------------------------------
\* Every answer of a call arrives, every cancellation is made, the process runs
\* on, and no task asks the manager between its rounds.
AnswersArrive == Faults \cap {"lost", "compensation", "crash", "question"} = {}

\* A reservation a run holds in its current round.
HeldBy(r, k) == reservation[k].run = r /\ k[3] = round[r] /\ reservation[k].status \in Active

\* The saga knows every reservation it holds, and ends a rollback with none.
HeldOf(r) ==
  /\ \A k \in Keys : reservation[k].run = r => k[3] <= round[r]
  /\ \A k \in Keys : HeldBy(r, k) => saga[r].step # "idle" /\ k \in saga[r].created
  /\ saga[r].step = "settle" /\ saga[r].failed => saga[r].created = {}
  /\ saga[r].step \in {"complete", "done"} /\ outcome[r] = "FAILED_SAGA" => saga[r].created = {}
  /\ saga[r].failed => saga[r].step \in {"rollback", "settle", "complete", "done"}
  /\ saga[r].step = "done" => checkpoint[r].round = round[r]

HeldInv == \A r \in Runs : HeldOf(r)

\* The last part of an id is its round.
LEMMA KeyRound ==
  /\ \A k \in Keys : k[3] \in 0..MaxReplan
  /\ \A r \in Runs : Key(r)[3] = round[r]
BY DEF Keys, Key, KeyOf

\* Only a saga at its reservation adds a record, of its own run; nothing else
\* makes a reservation active again.
LEMMA RecordSteps ==
  ASSUME TypeInv, Owned, [Next]_vars, NEW k \in Keys, reservation'[k].run # NoRun
  PROVE  \/ /\ reservation[k].run = reservation'[k].run
            /\ reservation'[k].status \in Active => reservation[k].status \in Active
         \/ \E r \in Runs : /\ Call(r) /\ saga[r].step = "reserve" /\ k = Key(r)
                            /\ reservation'[k].run = r
<1>0. reservation \in [Keys -> Records(Statuses)]
  BY DEF TypeInv, TypeOK
<1>1. CASE UNCHANGED reservation
  BY <1>1
<1>2. ASSUME NEW r \in Runs, Call(r)
      PROVE  \/ /\ reservation[k].run = reservation'[k].run
                /\ reservation'[k].status \in Active => reservation[k].status \in Active
             \/ /\ saga[r].step = "reserve" /\ k = Key(r) /\ reservation'[k].run = r
  <2>1. /\ saga[r].step \in Handling /\ reservation' = ReservationAfter(r) /\ Key(r) \in Keys
    BY <1>2, KeyIsKey DEF Call, Handling
  <2>2. CASE saga[r].step = "reserve" /\ NewReservation(r)
    <3>1. reservation' = [reservation EXCEPT ![Key(r)] = Wanted(r, "TENTATIVE")]
      BY <2>1, <2>2 DEF ReservationAfter
    <3>2. Wanted(r, "TENTATIVE").run = r
      BY DEF Wanted
    <3> QED
      BY <1>0, <2>1, <2>2, <3>1, <3>2
  <2>3. CASE saga[r].step = "confirm"
    <3>1. reservation' = [reservation EXCEPT ![Key(r)].status = "CONFIRMED"]
      BY <2>1, <2>3 DEF ReservationAfter
    <3>2. reservation[Key(r)].status \in Active
      BY <1>2, <2>3 DEF Call, Accepts
    <3> QED
      BY <1>0, <2>1, <3>1, <3>2 DEF Records
  <2>4. CASE saga[r].step # "confirm" /\ ~(saga[r].step = "reserve" /\ NewReservation(r))
    BY <2>1, <2>4 DEF ReservationAfter
  <2> QED
    BY <2>2, <2>3, <2>4
<1>3. ASSUME NEW j \in Keys, NEW s \in {"CANCELLED", "EXPIRED"},
             reservation' = [reservation EXCEPT ![j].status = s]
      PROVE  /\ reservation[k].run = reservation'[k].run
             /\ reservation'[k].status \in Active => reservation[k].status \in Active
  BY <1>0, <1>3 DEF Records, Active
<1>4. ASSUME NEW r \in Runs, Compensate(r)
      PROVE  /\ reservation[k].run = reservation'[k].run
             /\ reservation'[k].status \in Active => reservation[k].status \in Active
  <2>1. Key(r) \in Keys /\ (reservation' = reservation \/ reservation' = Cancelled(Key(r)))
    BY <1>4, KeyIsKey DEF Compensate, Handling
  <2> QED
    BY <1>3, <2>1 DEF Cancelled
<1>5. ASSUME NEW r \in Runs, CancelCreated(r)
      PROVE  /\ reservation[k].run = reservation'[k].run
             /\ reservation'[k].status \in Active => reservation[k].status \in Active
  <2>1. PICK j \in saga[r].created : reservation' = reservation \/ reservation' = Cancelled(j)
    BY <1>5 DEF CancelCreated
  <2>2. j \in Keys
    BY <2>1 DEF TypeInv, TypeOK
  <2> QED
    BY <1>3, <2>1, <2>2 DEF Cancelled
<1>6. ASSUME NEW j \in Keys, ExpireReservation(j)
      PROVE  /\ reservation[k].run = reservation'[k].run
             /\ reservation'[k].status \in Active => reservation[k].status \in Active
  BY <1>3, <1>6 DEF ExpireReservation
<1>7. ASSUME NEW i \in Incidents, ReleaseWorkload(i)
      PROVE  /\ reservation[k].run = reservation'[k].run
             /\ reservation'[k].status \in Active => reservation[k].status \in Active
  <2>1. reservation'[k] = reservation[k] \/ reservation'[k] = [reservation[k] EXCEPT !.status = "CANCELLED"]
    BY <1>7 DEF ReleaseWorkload
  <2> QED
    BY <1>0, <2>1 DEF Records, Active
<1> QED
  BY <1>1, <1>2, <1>4, <1>5, <1>6, <1>7
  DEF Next, vars, services, SagaStep, ServiceStep, StartSaga, NextAllocation, Refused, Poll,
      RecordAccepted, EventWriteFails, ResetUpdated, EndRollback, Settle, Complete, OtherTask,
      Crash, AskManager, Reapprove, Resumed, Respond, ExpireRequest, ResolveIncident

\* A run without a reservation of its own in flight holds no more than before.
LEMMA HeldBefore ==
  ASSUME TypeInv, Owned, [Next]_vars, NEW q \in Runs, HeldOf(q), ~(Call(q) /\ saga[q].step = "reserve"),
         NEW k \in Keys, reservation'[k].run = q
  PROVE  /\ k[3] <= round[q]
         /\ k[3] = round[q] /\ reservation'[k].status \in Active =>
              HeldBy(q, k) /\ saga[q].step # "idle" /\ k \in saga[q].created
<1>1. /\ reservation[k].run = reservation'[k].run
      /\ reservation'[k].status \in Active => reservation[k].status \in Active
  BY RecordSteps, NamesAssumption
<1> QED
  BY <1>1 DEF HeldOf, HeldBy

\* The round of a run and what it holds stay while its saga stands still, or
\* moves on with everything it has created.
LEMMA HeldOn ==
  ASSUME TypeInv, Owned, [Next]_vars, NEW q \in Runs, HeldOf(q), ~(Call(q) /\ saga[q].step = "reserve"),
         round'[q] = round[q], saga[q].step # "idle" => saga'[q].step # "idle",
         saga'[q].created = saga[q].created,
         saga'[q].step = "settle" /\ saga'[q].failed => saga[q].created = {},
         saga'[q].step \in {"complete", "done"} /\ outcome'[q] = "FAILED_SAGA" => saga[q].created = {},
         saga'[q].failed => saga'[q].step \in {"rollback", "settle", "complete", "done"},
         saga'[q].step = "done" => checkpoint'[q].round = round[q]
  PROVE  HeldOf(q)'
BY HeldBefore DEF HeldOf, HeldBy

\* The locals of a saga after a step that ends its loop by an exception.
LEMMA RaisedLocals ==
  ASSUME TypeInv, NEW r \in Runs, NEW local \in Locals, saga' = [saga EXCEPT ![r] = Raised(local)]
  PROVE  /\ saga'[r].step = "rollback" /\ saga'[r].failed
         /\ saga'[r].created = local.created
BY DEF TypeInv, TypeOK, Locals, Raised

\* A call notes the reservation it has made, whatever follows.
LEMMA HeldAfterCall ==
  ASSUME AnswersArrive, TypeInv, Owned, [Next]_vars, NEW r \in Runs, HeldOf(r), Call(r)
  PROVE  HeldOf(r)'
<1>1. /\ saga \in [Runs -> Locals] /\ saga[r] \in Locals /\ Noted(r) \in Locals
      /\ saga[r].step \in CallSteps /\ Key(r) \in Keys /\ round'[r] = round[r] /\ ~saga[r].failed
  BY CallType, KeyIsKey
  DEF TypeInv, TypeOK, Locals, Steps, Call, Handling, results, HeldOf, CallSteps
<1>2. /\ Noted(r).step = saga[r].step /\ Noted(r).failed = saga[r].failed
      /\ Noted(r).created = IF saga[r].step = "reserve" THEN saga[r].created \cup {Key(r)}
                            ELSE saga[r].created
  BY <1>1 DEF Noted, Locals, CallSteps
<1>3. /\ saga'[r].created = Noted(r).created
      /\ \/ saga'[r].step = AfterCall(saga[r].step) /\ ~saga'[r].failed
         \/ saga'[r].step = "rollback"
  <2>1. CASE saga' = [saga EXCEPT ![r] = [Noted(r) EXCEPT !.step = AfterCall(@)]]
    BY <1>1, <1>2, <2>1 DEF Locals
  <2>2. CASE saga' = [saga EXCEPT ![r] = Raised(Noted(r))]
    BY <1>1, <2>2, RaisedLocals
  <2> QED
    BY <2>1, <2>2 DEF Call, AnswersArrive
<1>4. AfterCall(saga[r].step) \notin {"idle", "settle", "complete", "done"}
  BY <1>1 DEF AfterCall, CallSteps
<1>5. ASSUME NEW k \in Keys, reservation'[k].run = r
      PROVE  /\ k[3] <= round[r]
             /\ k[3] = round[r] /\ reservation'[k].status \in Active => k \in Noted(r).created
  <2>1. CASE saga[r].step = "reserve" /\ k = Key(r)
    BY <1>1, <1>2, <2>1, KeyRound, BoundsAssumption
  <2>2. CASE ~(saga[r].step = "reserve" /\ k = Key(r))
    <3>1. ASSUME NEW q \in Runs, reservation'[k].run = q PROVE q = r
      BY <1>5, <3>1
    <3>2. /\ reservation[k].run = reservation'[k].run
          /\ reservation'[k].status \in Active => reservation[k].status \in Active
      BY <1>5, <2>2, <3>1, RecordSteps, NamesAssumption
    <3> QED
      BY <1>2, <1>5, <3>2 DEF HeldOf, HeldBy
  <2> QED
    BY <2>1, <2>2
<1> QED
  BY <1>1, <1>3, <1>4, <1>5 DEF HeldOf, HeldBy

\* A compensation cancels the reservation before it takes it off the list.
LEMMA HeldAfterCompensate ==
  ASSUME AnswersArrive, TypeInv, Owned, [Next]_vars, NEW r \in Runs, HeldOf(r), Compensate(r)
  PROVE  HeldOf(r)'
<1> DEFINE left == [saga[r] EXCEPT !.rejected = @ \cup {<<Chosen(r), saga[r].inc>>},
                                   !.replan = TRUE, !.step = "settle"]
           removed == [left EXCEPT !.created = @ \ {Key(r)}]
<1>1. /\ saga \in [Runs -> Locals] /\ saga[r] \in Locals /\ saga[r].step = "compensate"
      /\ Key(r) \in Keys /\ round'[r] = round[r] /\ ~saga[r].failed
  BY KeyIsKey DEF TypeInv, TypeOK, Locals, Steps, Compensate, Handling, results, HeldOf
<1>2. /\ reservation' = Cancelled(Key(r))
      /\ saga' = [saga EXCEPT ![r] = removed] \/ saga' = [saga EXCEPT ![r] = Raised(removed)]
  BY DEF Compensate, AnswersArrive
<1>3. <<Chosen(r), saga[r].inc>> \in Specialists \X Incidents
  BY <1>1, KeyIsKey DEF Handling
<1>4. left \in Locals
  BY <1>1, <1>3, LeftType
<1>5. left.step = "settle" /\ ~left.failed /\ left.created = saga[r].created
  BY <1>1 DEF Locals
<1> HIDE DEF left
<1>6. removed \in Locals
  BY <1>3, <1>4, LeftType
<1>7. removed.step = "settle" /\ ~removed.failed /\ removed.created = saga[r].created \ {Key(r)}
  BY <1>4, <1>5 DEF Locals
<1> HIDE DEF removed
<1>8. /\ saga'[r].created = saga[r].created \ {Key(r)}
      /\ \/ saga'[r].step = "settle" /\ ~saga'[r].failed
         \/ saga'[r].step = "rollback"
  <2>1. CASE saga' = [saga EXCEPT ![r] = removed]
    BY <1>1, <1>7, <2>1
  <2>2. CASE saga' = [saga EXCEPT ![r] = Raised(removed)]
    BY <1>6, <1>7, <2>2, RaisedLocals
  <2> QED
    BY <1>2, <2>1, <2>2
<1>9. reservation'[Key(r)].status \notin Active
  BY <1>1, <1>2 DEF Cancelled, Active, TypeInv, TypeOK, Records
<1> QED
  BY <1>1, <1>8, <1>9, HeldBefore DEF HeldOf, HeldBy

\* The rollback takes a reservation off the list once it is cancelled.
LEMMA HeldAfterCancel ==
  ASSUME AnswersArrive, TypeInv, Owned, [Next]_vars, NEW r \in Runs, HeldOf(r), CancelCreated(r)
  PROVE  HeldOf(r)'
<1>1. /\ saga \in [Runs -> Locals] /\ saga[r] \in Locals /\ saga[r].step = "rollback"
      /\ round'[r] = round[r]
  BY DEF TypeInv, TypeOK, Locals, Steps, CancelCreated, results
<1>2. PICK j \in saga[r].created : /\ saga' = [saga EXCEPT ![r].created = @ \ {j}]
                                   /\ reservation' = Cancelled(j)
  BY DEF CancelCreated, AnswersArrive
<1>3. saga'[r].step = "rollback" /\ saga'[r].created = saga[r].created \ {j}
  BY <1>1, <1>2 DEF Locals
<1>4. reservation'[j].status \notin Active
  <2>1. j \in Keys
    BY <1>1, <1>2 DEF Locals
  <2> QED
    BY <1>2, <2>1 DEF Cancelled, Active, TypeInv, TypeOK, Records
<1> QED
  BY <1>1, <1>3, <1>4, HeldBefore DEF HeldOf, HeldBy

\* A saga that replans leaves its reservations to an earlier round; one that
\* failed has none left.
LEMMA HeldAfterSettle ==
  ASSUME TypeInv, Owned, [Next]_vars, NEW r \in Runs, HeldOf(r), Settle(r)
  PROVE  HeldOf(r)'
<1>1. /\ saga \in [Runs -> Locals] /\ saga[r] \in Locals /\ saga[r].step = "settle"
      /\ outcome'[r] = Outcome(saga[r]) /\ round[r] \in 0..(MaxReplan + 1)
      /\ saga' = [saga EXCEPT ![r] = IF saga[r].replan THEN Idle ELSE [saga[r] EXCEPT !.step = "complete"]]
      /\ round'[r] = IF saga[r].replan THEN round[r] + 1 ELSE round[r]
  BY DEF TypeInv, TypeOK, Locals, Steps, Settle
<1>2. CASE saga[r].replan
  <2>1. saga'[r] = Idle /\ round'[r] = round[r] + 1
    BY <1>1, <1>2
  <2>2. \A k \in Keys : reservation'[k].run = r => k[3] <= round[r] /\ k[3] \in Nat
    BY <1>1, HeldBefore, KeyRound, BoundsAssumption
  <2>3. \A k \in Keys : reservation'[k].run = r => k[3] <= round'[r] /\ k[3] # round'[r]
    BY <1>1, <2>1, <2>2, BoundsAssumption
  <2> QED
    BY <2>1, <2>3 DEF HeldOf, HeldBy, Idle
<1>3. CASE ~saga[r].replan
  <2>1. saga'[r].step = "complete" /\ saga'[r].created = saga[r].created /\ round'[r] = round[r]
    BY <1>1, <1>3 DEF Locals
  <2>2. outcome'[r] = "FAILED_SAGA" => saga[r].created = {}
    BY <1>1, <1>3 DEF Outcome, HeldOf
  <2> QED
    BY <1>1, <2>1, <2>2, HeldOn
<1> QED
  BY <1>2, <1>3

\* The end of the run saves its round with it.
LEMMA HeldAfterComplete ==
  ASSUME AnswersArrive, TypeInv, Owned, [Next]_vars, NEW r \in Runs, HeldOf(r), Complete(r)
  PROVE  HeldOf(r)'
<1>1. saga \in [Runs -> Locals] /\ saga[r] \in Locals /\ saga[r].step = "complete"
  BY DEF TypeInv, TypeOK, Locals, Steps, Complete
<1>2. /\ saga'[r].step = "done" /\ saga'[r].created = saga[r].created
      /\ saga'[r].failed = saga[r].failed /\ round'[r] = round[r] /\ outcome'[r] = outcome[r]
  BY <1>1 DEF Complete, Locals
<1>3. checkpoint'[r].round = round[r]
  BY DEF Complete, AnswersArrive, Counters, TypeInv, TypeOK
<1>4. ~(Call(r) /\ saga[r].step = "reserve")
  BY <1>1
<1> QED
  BY <1>1, <1>2, <1>3, <1>4, HeldOn DEF HeldOf

\* No other step of a saga creates, forgets or gives up a reservation.
LEMMA HeldAfterRest ==
  ASSUME AnswersArrive, TypeInv, Owned, [Next]_vars, NEW r \in Runs, HeldOf(r),
         \/ StartSaga(r) \/ NextAllocation(r) \/ Refused(r) \/ Poll(r) \/ RecordAccepted(r)
         \/ EventWriteFails(r) \/ ResetUpdated(r) \/ EndRollback(r) \/ OtherTask(r)
  PROVE  HeldOf(r)'
<1>1. saga \in [Runs -> Locals] /\ saga[r] \in Locals
  BY DEF TypeInv, TypeOK, Locals, Steps
<1>2. round'[r] = round[r] /\ UNCHANGED reservation
  <2>1. CASE StartSaga(r) \/ ResetUpdated(r)
    BY <2>1 DEF StartSaga, ResetUpdated, results, services
  <2>2. CASE \/ NextAllocation(r) \/ Refused(r) \/ Poll(r) \/ RecordAccepted(r) \/ EventWriteFails(r)
             \/ EndRollback(r)
    BY <2>2
    DEF NextAllocation, Refused, Poll, RecordAccepted, EventWriteFails, EndRollback, results, services
  <2>3. CASE OtherTask(r)
    <3>1. saga[r].step = "done" /\ Resumed(r)
      BY <2>3 DEF OtherTask, Crash, AskManager, Reapprove, AnswersArrive
    <3> QED
      BY <3>1 DEF Resumed, services, HeldOf, TypeInv, TypeOK
  <2> QED
    BY <2>1, <2>2, <2>3
<1>3. ASSUME saga'[r].created = saga[r].created \/ \A k \in Keys : ~HeldBy(r, k),
             saga[r].step # "idle" => saga'[r].step # "idle" \/ \A k \in Keys : ~HeldBy(r, k),
             saga'[r].step = "settle" /\ saga'[r].failed => saga'[r].created = {},
             saga'[r].step \notin {"complete", "done"},
             saga'[r].failed => saga'[r].step \in {"rollback", "settle"}
      PROVE  HeldOf(r)'
  BY <1>2, <1>3 DEF HeldOf, HeldBy
<1>4. CASE StartSaga(r)
  <2>1. PICK plan, todo :
          saga' = [saga EXCEPT ![r] = [Idle EXCEPT !.step = "next", !.plan = plan, !.todo = todo]]
    BY <1>4 DEF StartSaga
  <2>2. saga'[r].step = "next" /\ ~saga'[r].failed
    BY <1>1, <2>1 DEF Idle
  <2>3. \A k \in Keys : ~HeldBy(r, k)
    BY <1>4 DEF StartSaga, HeldOf
  <2> QED
    BY <1>3, <2>2, <2>3
<1>5. CASE NextAllocation(r)
  <2>1. saga[r].step = "next" /\ ~saga[r].failed
    BY <1>5 DEF NextAllocation, HeldOf
  <2>2. CASE saga' = [saga EXCEPT ![r].step = "settle"]
    <3>1. saga'[r].step = "settle" /\ ~saga'[r].failed /\ saga'[r].created = saga[r].created
      BY <1>1, <2>1, <2>2 DEF Locals
    <3> QED
      BY <1>3, <3>1
  <2>3. ASSUME NEW j, saga' = [saga EXCEPT ![r].step = "reserve", ![r].inc = j,
                                          ![r].todo = @ \ {j}, ![r].polls = 0]
        PROVE  HeldOf(r)'
    <3>1. saga'[r].step = "reserve" /\ ~saga'[r].failed /\ saga'[r].created = saga[r].created
      BY <1>1, <2>1, <2>3 DEF Locals
    <3> QED
      BY <1>3, <3>1
  <2> QED
    BY <1>5, <2>2, <2>3 DEF NextAllocation
<1>6. CASE Refused(r) \/ EventWriteFails(r)
  <2>1. saga' = [saga EXCEPT ![r] = Raised(saga[r])]
    BY <1>6 DEF Refused, EventWriteFails
  <2>2. saga'[r].step = "rollback" /\ saga'[r].created = saga[r].created
    BY <1>1, <2>1, RaisedLocals
  <2> QED
    BY <1>3, <2>2
<1>7. CASE Poll(r)
  <2>1. saga[r].step = "poll" /\ ~saga[r].failed
    BY <1>7 DEF Poll, HeldOf
  <2>2. PICK local \in {[saga[r] EXCEPT !.step = "confirm"], [saga[r] EXCEPT !.step = "compensate"],
                        Unanswered(saga[r])} : saga' = [saga EXCEPT ![r] = local]
    BY <1>1, <1>7 DEF Poll
  <2>3. local.step \in {"confirm", "compensate", "poll"} /\ ~local.failed
        /\ local.created = saga[r].created
    BY <1>1, <2>1, <2>2 DEF Unanswered, Locals
  <2>4. saga'[r] = local
    BY <1>1, <2>2
  <2> QED
    BY <1>3, <2>3, <2>4
<1>8. CASE RecordAccepted(r)
  <2>1. saga'[r].step = "next" /\ ~saga'[r].failed /\ saga'[r].created = saga[r].created
    BY <1>1, <1>8 DEF RecordAccepted, Locals, HeldOf
  <2> QED
    BY <1>3, <2>1
<1>9. CASE ResetUpdated(r) \/ EndRollback(r)
  <2>1. /\ saga'[r].step \in {"rollback", "settle"}
        /\ saga'[r].created = {} /\ saga'[r].created = saga[r].created
    BY <1>1, <1>9 DEF ResetUpdated, EndRollback, Locals
  <2> QED
    BY <1>3, <2>1
<1>10. CASE OtherTask(r)
  <2>1. Reapprove(r)
    BY <1>10 DEF OtherTask, Crash, AskManager, AnswersArrive
  <2>2. saga'[r].step = "idle" /\ ~saga'[r].failed
    BY <1>1, <2>1 DEF Reapprove, Resumed, Idle
  <2>3. \A k \in Keys : ~HeldBy(r, k)
    BY <2>1 DEF Reapprove, HeldOf
  <2> QED
    BY <1>3, <2>2, <2>3
<1> QED
  BY <1>4, <1>5, <1>6, <1>7, <1>8, <1>9, <1>10

\* A saga knows what it holds: the inductive step.
LEMMA HeldStep ==
  ASSUME AnswersArrive, TypeInv, Owned, HeldInv, [Next]_vars
  PROVE  HeldInv'
<1> SUFFICES ASSUME NEW q \in Runs PROVE HeldOf(q)'
  BY DEF HeldInv
<1>0. HeldOf(q)
  BY DEF HeldInv
<1>1. CASE saga'[q] = saga[q] /\ round'[q] = round[q] /\ outcome'[q] = outcome[q]
           /\ checkpoint'[q] = checkpoint[q] /\ ~(Call(q) /\ saga[q].step = "reserve")
  BY <1>0, <1>1, HeldOn DEF HeldOf
<1>2. CASE StartSaga(q) \/ SagaStep(q) \/ OtherTask(q)
  BY <1>0, <1>2, HeldAfterCall, HeldAfterCompensate, HeldAfterCancel, HeldAfterSettle,
     HeldAfterComplete, HeldAfterRest
  DEF SagaStep
<1>3. ASSUME NEW r \in Runs, StartSaga(r) \/ SagaStep(r) \/ OtherTask(r)
      PROVE  HeldOf(q)'
  <2>1. CASE r = q
    BY <1>2, <1>3, <2>1
  <2>2. CASE r # q
    <3>1. /\ saga'[q] = saga[q] /\ round'[q] = round[q] /\ outcome'[q] = outcome[q]
          /\ checkpoint'[q] = checkpoint[q]
      BY <1>3, <2>2, OthersStay DEF TypeInv
    <3> QED
      BY <1>1, <1>2, <3>1 DEF SagaStep
  <2> QED
    BY <2>1, <2>2
<1>4. ASSUME ServiceStep \/ UNCHANGED vars PROVE HeldOf(q)'
  <2>1. saga' = saga /\ round' = round /\ outcome' = outcome /\ checkpoint' = checkpoint
    BY <1>4
    DEF vars, results, ServiceStep, Respond, ExpireRequest, ExpireReservation, ResolveIncident,
        ReleaseWorkload
  <2> QED
    BY <1>1, <1>2, <2>1 DEF SagaStep
<1> QED
  BY <1>3, <1>4 DEF Next, OtherTask

\* Initially nothing is held.
LEMMA HeldInit == Init => HeldInv
BY NamesAssumption DEF Init, HeldInv, HeldOf, HeldBy, Idle, Absent, Active

\* When every answer arrives, every cancellation is made, the process runs on and
\* no task asks the manager between its rounds, a saga that failed holds no
\* reservation of its round: whatever services refuse, events are not written,
\* incidents are resolved or runs approved again.
THEOREM FailureReleases ==
  ASSUME AnswersArrive
  PROVE  Spec => []FailureReleasesRound
<1>1. TypeInv /\ ConsentInv /\ [Next]_vars => ConsentInv'
  BY ConsentStep
<1>2. TypeInv /\ ConsentInv /\ HeldInv /\ [Next]_vars => HeldInv'
  BY HeldStep DEF ConsentInv
<1>3. HeldInv => FailureReleasesRound
  BY DEF HeldInv, HeldOf, HeldBy, FailureReleasesRound
<1> QED
  BY <1>1, <1>2, <1>3, ConsentInit, HeldInit, TypeInvariant, PTL DEF Spec

=============================================================================
