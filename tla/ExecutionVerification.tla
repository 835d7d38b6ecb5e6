------------------------ MODULE ExecutionVerification ------------------------
(***************************************************************************)
(* POST /runs/{run_id}/execution/verify of core-api: it asks the three     *)
(* services about one booking and recommends how the run goes on.          *)
(*                                                                         *)
(* The three questions are asked in parallel, so that their answers are of *)
(* three moments.  Meanwhile the services move as the booking promise      *)
(* allows, which the saga has been shown to keep, and operators close      *)
(* incidents.                                                              *)
(***************************************************************************)
EXTENDS BookingPromise

CONSTANT Verifiers  \* verification requests

VARIABLES
  check,   \* per verification: its booking and what the services have answered
  closed   \* incidents with status CLOSED

verificationVars == <<promise, check, closed>>

Parts == {"workforce", "incident", "communication"}
States == {"COMPLETED", "WAITING", "REPLAN", "FAILED"}
Results == {"verified", "pending", "inconsistent", "refused", "over", "not_found", "unavailable"}

NoOffer == "none"
Idle == [at |-> "idle", offer |-> NoOffer, work |-> NoWork,
         seen |-> [p \in Parts |-> "unread"], verdict |-> "none",
         sound |-> FALSE, undone |-> FALSE]

VerificationInit == BookingInit /\ check = [v \in Verifiers |-> Idle] /\ closed = {}

-----------------------------------------------------------------------------
(* What the services answer                                                *)

VerifyReservation(k, w) ==
  CASE hold[k].stage = "none" -> "not_found"
    [] hold[k].stage = "held" -> "pending"
    [] hold[k].stage = "released" -> "over"
    [] OTHER -> IF hold[k].work = w THEN "verified" ELSE "inconsistent"

\* An assigned incident that is closed fails the check of the assignment status.
VerifyIncident(w) ==
  CASE assigned[w.incident] = NoWork -> "pending"
    [] assigned[w.incident] = w /\ w.incident \notin closed -> "verified"
    [] OTHER -> "inconsistent"

\* A request that was rejected or has expired is refused.
VerifyAssignment(k, w) ==
  CASE offer[k].answer = "none" -> "not_found"
    [] offer[k].answer = "asked" -> "pending"
    [] offer[k].answer = "no" -> "refused"
    [] OTHER -> IF offer[k].work = w THEN "verified" ELSE "inconsistent"

Verified(part, k, w) ==
  CASE part = "workforce" -> VerifyReservation(k, w)
    [] part = "incident" -> VerifyIncident(w)
    [] part = "communication" -> VerifyAssignment(k, w)

\* Mutant: a reservation that is over asks for a new plan.
RecommendedAnyEnd(seen) ==
  CASE \A p \in Parts : seen[p] = "verified" -> "COMPLETED"
    [] \E p \in Parts : seen[p] = "unavailable" -> "WAITING"
    [] seen["communication"] = "pending" -> "WAITING"
    [] seen["communication"] = "refused" \/ seen["workforce"] = "over" -> "REPLAN"
    [] seen["workforce"] = "pending" \/ seen["incident"] = "pending" -> "WAITING"
    [] OTHER -> "FAILED"

\* Mutant: any() for all().
RecommendedOnAny(seen) ==
  CASE \E p \in Parts : seen[p] = "verified" -> "COMPLETED"
    [] \E p \in Parts : seen[p] = "unavailable" -> "WAITING"
    [] seen["communication"] = "pending" -> "WAITING"
    [] seen["communication"] = "refused" -> "REPLAN"
    [] seen["workforce"] = "pending" \/ seen["incident"] = "pending" -> "WAITING"
    [] OTHER -> "FAILED"

\* Mutant: an incident that is not assigned yet does not matter.
RecommendedWithoutIncident(seen) ==
  CASE \A p \in Parts \ {"incident"} : seen[p] = "verified" -> "COMPLETED"
    [] \E p \in Parts : seen[p] = "unavailable" -> "WAITING"
    [] seen["communication"] = "pending" -> "WAITING"
    [] seen["communication"] = "refused" -> "REPLAN"
    [] seen["workforce"] = "pending" \/ seen["incident"] = "pending" -> "WAITING"
    [] OTHER -> "FAILED"

\* Mutant: only the communication service may still be waited for.
RecommendedImpatient(seen) ==
  CASE \A p \in Parts : seen[p] = "verified" -> "COMPLETED"
    [] \E p \in Parts : seen[p] = "unavailable" -> "WAITING"
    [] seen["communication"] = "pending" -> "WAITING"
    [] seen["communication"] = "refused" -> "REPLAN"
    [] OTHER -> "FAILED"

\* _recommended_next_state; the first case that holds counts.
Recommended(seen) ==
  CASE \A p \in Parts : seen[p] = "verified" -> "COMPLETED"
    [] \E p \in Parts : seen[p] = "unavailable" -> "WAITING"
    [] /\ \A p \in Parts : seen[p] # "unavailable"
       /\ seen["communication"] = "pending" -> "WAITING"
    [] /\ \A p \in Parts : seen[p] # "unavailable"
       /\ seen["communication"] = "refused" -> "REPLAN"
    [] /\ \A p \in Parts : seen[p] # "unavailable"
       /\ seen["communication"] \notin {"pending", "refused"}
       /\ seen["workforce"] = "pending" \/ seen["incident"] = "pending" -> "WAITING"
    [] OTHER -> "FAILED"

-----------------------------------------------------------------------------
(* The verification                                                        *)

Matches(k, w) ==
  /\ hold[k].stage \in {"held", "booked"} /\ hold[k].work = w
  /\ offer[k].answer # "none" /\ offer[k].work = w
  /\ assigned[w.incident] \in {NoWork, w} /\ w.incident \notin closed

\* verify_execution; "sound" remembers that nothing contradicts the booking
\* when the verification begins.
Begin(v, k, w) ==
  /\ check[v].at = "idle"
  /\ check' = [check EXCEPT ![v] =
       [Idle EXCEPT !.at = "asking", !.offer = k, !.work = w, !.sound = Matches(k, w)]]
  /\ UNCHANGED <<promise, closed>>

\* One of the gathered calls is answered, or fails.
Read(v, part) ==
  /\ check[v].at = "asking" /\ check[v].seen[part] = "unread"
  /\ \E answer \in {Verified(part, check[v].offer, check[v].work), "unavailable"} :
       check' = [check EXCEPT ![v].seen[part] = answer]
  /\ UNCHANGED <<promise, closed>>

\* Mutant: the first answer is enough.
FirstAnswered(v) == \E p \in Parts : check[v].seen[p] # "unread"
\* asyncio.gather
AllAnswered(v) == \A p \in Parts : check[v].seen[p] # "unread"

Conclude(v) ==
  /\ check[v].at = "asking" /\ AllAnswered(v)
  /\ check' = [check EXCEPT ![v].at = "answered", ![v].verdict = Recommended(check[v].seen)]
  /\ UNCHANGED <<promise, closed>>

-----------------------------------------------------------------------------
(* The services go on                                                      *)

\* The step takes back something the booking k of work w rests on.
Undoes(k, w) ==
  \/ Live(k) /\ hold'[k].stage = "released"
  \/ assigned'[w.incident] \notin {assigned[w.incident], w}
  \/ w.incident \in closed' \ closed

Remember ==
  check' = [v \in Verifiers |->
    IF check[v].at # "idle" /\ Undoes(check[v].offer, check[v].work)
      THEN [check[v] EXCEPT !.undone = TRUE] ELSE check[v]]

ServicesStep == BookingNext /\ UNCHANGED closed /\ Remember

\* An operator closes the incident: update_incident_status.
Close(i) == closed' = closed \cup {i} /\ UNCHANGED promise /\ Remember

VerificationNext ==
  \/ \E v \in Verifiers :
       \/ \E k \in Offers, w \in Works : Begin(v, k, w)
       \/ \E p \in Parts : Read(v, p)
       \/ Conclude(v)
  \/ ServicesStep
  \/ \E i \in Incidents : Close(i)

VerificationSpec == VerificationInit /\ [][VerificationNext]_verificationVars

-----------------------------------------------------------------------------
\* A verification holds the values its handler can hold, and recommends only
\* after all three answers.
VerificationTypeOK ==
  /\ closed \subseteq Incidents
  /\ \A v \in Verifiers :
       /\ check[v].at \in {"idle", "asking", "answered"}
       /\ check[v].offer \in Offers \cup {NoOffer} /\ check[v].work \in Works \cup {NoWork}
       /\ check[v].seen \in [Parts -> Results \cup {"unread"}]
       /\ check[v].verdict \in States \cup {"none"}
       /\ check[v].verdict # "none" => \A p \in Parts : check[v].seen[p] # "unread"

\* A new plan is recommended only for a request that was refused, which nobody
\* can accept any more: the run does not abandon a booking that may still
\* succeed.
ReplanMeansRefused ==
  \A v \in Verifiers : check[v].verdict = "REPLAN" => offer[check[v].offer].answer = "no"

\* A run is recommended to complete only when the specialist has agreed to
\* exactly this work.
CompletedHadConsent ==
  \A v \in Verifiers : check[v].verdict = "COMPLETED" =>
    offer[check[v].offer] = [answer |-> "yes", work |-> check[v].work]

\* Although the three answers are of three moments, a recommendation to complete
\* that nothing was taken back from meanwhile is true of one moment: the
\* reservation, the consent and the assignment hold together.
CompletedTogether ==
  \A v \in Verifiers :
    check[v].verdict = "COMPLETED" /\ ~check[v].undone =>
      /\ hold[check[v].offer] = [stage |-> "booked", work |-> check[v].work]
      /\ offer[check[v].offer] = [answer |-> "yes", work |-> check[v].work]
      /\ assigned[check[v].work.incident] = check[v].work
      /\ check[v].work.incident \notin closed

\* A booking that is on its way when it is verified, and from which nothing is
\* taken back meanwhile, is never reported as failed, however its progress
\* falls between the three answers.
NoFalseAlarm ==
  \A v \in Verifiers : check[v].sound /\ ~check[v].undone => check[v].verdict # "FAILED"

\* What verify_execution recommends from three answers of three moments is true
\* of the booking: a new plan, or the end of the run, only where the bookings
\* justify it.
RecommendationTrue == ReplanMeansRefused /\ CompletedHadConsent /\ CompletedTogether
=============================================================================
