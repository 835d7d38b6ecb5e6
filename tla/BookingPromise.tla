---------------------------- MODULE BookingPromise ----------------------------
(***************************************************************************)
(* What an execution promises, whatever fails underneath.                  *)
(*                                                                         *)
(* Work (an incident, for a specialist, on behalf of a run) is held, then  *)
(* asked for, then answered; it is booked only on an answer of yes to the  *)
(* same work; an incident is assigned only for work that is booked at that *)
(* moment.  A hold can be given up at any time, an answer never changes,   *)
(* and no two live holds are for the same specialist and incident.  Only   *)
(* the simulation, which withdraws incidents, ends the last guarantee.     *)
(***************************************************************************)
CONSTANTS Offers, Incidents, Works, NoWork

VARIABLES
  hold,      \* per offer, the stage of its hold and the work
  offer,     \* per offer, what was asked and the answer
  assigned,  \* per incident, the work it is assigned for
  withdrawn  \* incidents whose holds the simulation has released

promise == <<hold, offer, assigned, withdrawn>>

BookingInit ==
  /\ hold = [k \in Offers |-> [stage |-> "none", work |-> NoWork]]
  /\ offer = [k \in Offers |-> [answer |-> "none", work |-> NoWork]]
  /\ assigned = [i \in Incidents |-> NoWork]
  /\ withdrawn = {}

Live(k) == hold[k].stage \in {"held", "booked"}
SamePair(v, w) == v.incident = w.incident /\ v.specialist = w.specialist

Hold(k, w) ==
  /\ hold[k].stage = "none"
  /\ \A j \in Offers : Live(j) => ~SamePair(hold[j].work, w)
  /\ hold' = [hold EXCEPT ![k] = [stage |-> "held", work |-> w]]
  /\ UNCHANGED <<offer, assigned, withdrawn>>

Ask(k) ==
  /\ hold[k].stage # "none" /\ offer[k].answer = "none"
  /\ offer' = [offer EXCEPT ![k] = [answer |-> "asked", work |-> hold[k].work]]
  /\ UNCHANGED <<hold, assigned, withdrawn>>

AnswerOffer(k, answer) ==
  /\ offer[k].answer = "asked"
  /\ offer' = [offer EXCEPT ![k].answer = answer]
  /\ UNCHANGED <<hold, assigned, withdrawn>>

Book(k) ==
  /\ hold[k].stage = "held"
  /\ offer[k] = [answer |-> "yes", work |-> hold[k].work]
  /\ hold' = [hold EXCEPT ![k].stage = "booked"]
  /\ UNCHANGED <<offer, assigned, withdrawn>>

Released(S) ==
  [k \in Offers |-> IF k \in S /\ Live(k) THEN [hold[k] EXCEPT !.stage = "released"] ELSE hold[k]]

Release(k) ==
  /\ hold' = Released({k})
  /\ UNCHANGED <<offer, assigned, withdrawn>>

Booked(w) == \E k \in Offers : hold[k] = [stage |-> "booked", work |-> w]

Assign(w) ==
  /\ Booked(w) \/ w.incident \in withdrawn
  /\ assigned' = [assigned EXCEPT ![w.incident] = w]
  /\ UNCHANGED <<hold, offer, withdrawn>>

\* The simulation resolves the incident ...
Unassign(i) ==
  /\ assigned' = [assigned EXCEPT ![i] = NoWork]
  /\ UNCHANGED <<hold, offer, withdrawn>>

\* ... and releases what is held for it.
Withdraw(i) ==
  /\ withdrawn' = withdrawn \cup {i}
  /\ hold' \in {hold, Released({k \in Offers : Live(k) /\ hold[k].work.incident = i})}
  /\ UNCHANGED <<offer, assigned>>

BookingNext ==
  \/ \E k \in Offers :
       \/ \E w \in Works : Hold(k, w)
       \/ Ask(k)
       \/ \E answer \in {"yes", "no"} : AnswerOffer(k, answer)
       \/ Book(k)
       \/ Release(k)
  \/ \E w \in Works : Assign(w)
  \/ \E i \in Incidents : Unassign(i) \/ Withdraw(i)

BookingSpec == BookingInit /\ [][BookingNext]_promise
=============================================================================
