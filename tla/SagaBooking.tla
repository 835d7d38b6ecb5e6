----------------------------- MODULE SagaBooking -----------------------------
(***************************************************************************)
(* The saga keeps its promises.  The booking promise is read off the       *)
(* records of the three services, the verdict off the locals of            *)
(* execute_saga and what it returns to the graph.                          *)
(***************************************************************************)
EXTENDS SagaExecution

StageOf(status) ==
  CASE status = "absent" -> "none"
    [] status = "TENTATIVE" -> "held"
    [] status = "CONFIRMED" -> "booked"
    [] status \in {"CANCELLED", "EXPIRED"} -> "released"

AnswerOf(status) ==
  CASE status = "absent" -> "none"
    [] status = "PENDING" -> "asked"
    [] status = "ACCEPTED" -> "yes"
    [] status \in {"REJECTED", "EXPIRED"} -> "no"

WorkOf(stored) == [run |-> stored.run, incident |-> stored.incident, specialist |-> stored.specialist]

NoWork == WorkOf(Absent)

Holds ==
  [k \in Keys |-> [stage |-> StageOf(reservation[k].status), work |-> WorkOf(reservation[k])]]
Offered ==
  [k \in Keys |-> [answer |-> AnswerOf(request[k].status), work |-> WorkOf(request[k])]]
Assignments ==
  [i \in Incidents |->
    IF incident[i].run = NoRun THEN NoWork
    ELSE [run |-> incident[i].run, incident |-> i, specialist |-> incident[i].specialist]]
Withdrawn == {i \in Incidents : resolution[i] = "over"}

Booking == INSTANCE BookingPromise WITH
  Offers <- Keys, Works <- [run : Runs, incident : Incidents, specialist : Specialists],
  hold <- Holds, offer <- Offered, assigned <- Assignments, withdrawn <- Withdrawn

\* Through every lost answer, crash, repetition and compensation, the services
\* move only as the booking promise allows: work is booked on a yes to that
\* work, and an incident is assigned only while its work is booked.
KeepsBookingPromise == Booking!BookingSpec

-----------------------------------------------------------------------------
Phase(r) ==
  CASE saga[r].step = "idle" -> "idle"
    [] saga[r].step = "complete" -> "settled"
    [] saga[r].step = "done" -> "done"
    [] OTHER -> "running"

PlanOf(r) == {<<saga[r].plan[i], i>> : i \in {j \in Incidents : saga[r].plan[j] # Nobody}}

Verdict == INSTANCE SagaVerdict WITH
  Pairs <- Specialists \X Incidents,
  at <- [r \in Runs |-> Phase(r)], plan <- [r \in Runs |-> PlanOf(r)], saved <- checkpoint

\* Whatever fails in between, a saga ends with one verdict on its plan: only a
\* plan with work fails or is refused, what a refusal adds to the exclusions is one
\* pair of that plan, with a round of its own, and a crash, a question or another
\* approval takes both back to one checkpoint together.
KeepsVerdict == Verdict!VerdictSpec

\* Towards the services the saga keeps the booking promise, towards the graph
\* that of its verdict.
KeepsPromises == KeepsBookingPromise /\ KeepsVerdict

\* Each round that a task counts has excluded one pair, never the same one twice:
\* the rounds of a task end when pairs run out, whatever the limit of replanning.
\* Through crashes the count and the exclusions stay together; a task that
\* starts from a checkpoint goes back in both.
EveryRoundExcludes ==
  \A r \in Runs : IsFiniteSet(excluded[r]) /\ Cardinality(excluded[r]) = round[r]
=============================================================================
