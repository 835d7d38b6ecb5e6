----------------------------- MODULE CoreApiProofs -----------------------------
(***************************************************************************)
(* core-api beside the graph and its log: the verification of an           *)
(* execution, the preference memory and what it recommends, the            *)
(* language-model settings and the planner.  The parts share no state; a   *)
(* section proves about one of them, for any number of offers, decisions,  *)
(* candidates, administrators, incidents and specialists.                  *)
(*                                                                         *)
(* Verification: what an answer says goes on to hold until a step takes it *)
(* back, and such a step marks every verification under way.  Consent and  *)
(* refusal are never taken back, so that what rests on them alone needs no *)
(* mark.                                                                   *)
(*                                                                         *)
(* Preference memory: only the holder of the lock is between its load and  *)
(* its commit, so the memory that it has updated is still the memory of    *)
(* the row; a load that failed never commits.  The counters then bound     *)
(* what a rank can make up for.                                            *)
(*                                                                         *)
(* Settings: what waits to replace the snapshot is committed, and if it    *)
(* waits alone it is the row.  A disconnect that meets no other request    *)
(* is the only one that could bring its provider back.                     *)
(*                                                                         *)
(* Planner: the solver's plans are those of its constraints; a place that  *)
(* the greedy loop has found taken is not given back in the loop.  A plan  *)
(* that does more than the best one can be brought so close to it that it  *)
(* keeps all of it and adds one incident, and is then better.              *)
(***************************************************************************)
EXTENDS ExecutionVerification, PreferenceMemory, LlmSettings, Optimizer,
        FiniteSetTheorems, WellFoundedInduction, TLAPS

-----------------------------------------------------------------------------
(* The verification of an execution                                        *)

HoldType == [stage : {"none", "held", "booked", "released"}, work : Works \cup {NoWork}]
OfferType == [answer : {"none", "asked", "yes", "no"}, work : Works \cup {NoWork}]
CheckType ==
  [at : {"idle", "asking", "answered"}, offer : Offers \cup {NoOffer},
   work : Works \cup {NoWork}, seen : [Parts -> Results \cup {"unread"}],
   verdict : States \cup {"none"}, sound : BOOLEAN, undone : BOOLEAN]

VerificationTypeInv ==
  /\ hold \in [Offers -> HoldType]
  /\ offer \in [Offers -> OfferType]
  /\ check \in [Verifiers -> CheckType]
  /\ closed \subseteq Incidents

\* What is booked has been agreed to.
Consent ==
  \A k \in Offers :
    hold[k].stage = "booked" => offer[k] = [answer |-> "yes", work |-> hold[k].work]

\* What the verification c has been told, and what follows from it now.
Told(c) ==
  LET k == c.offer
      w == c.work IN
  /\ k \in Offers /\ w \in Works
  /\ c.seen["communication"] = "refused" => offer[k].answer = "no"
  /\ c.seen["communication"] = "verified" => offer[k] = [answer |-> "yes", work |-> w]
  /\ ~c.undone =>
       /\ c.seen["workforce"] = "verified" => hold[k] = [stage |-> "booked", work |-> w]
       /\ c.seen["incident"] = "verified" => assigned[w.incident] = w /\ w.incident \notin closed

\* The verification c began with a booking on its way, which nothing was taken
\* back from: it still is on its way, and no answer can say otherwise.
StillSound(c) ==
  c.sound /\ ~c.undone =>
    /\ Matches(c.offer, c.work)
    /\ c.seen["workforce"] \in {"unread", "pending", "verified", "unavailable"}
    /\ c.seen["incident"] \in {"unread", "pending", "verified", "unavailable"}
    /\ c.seen["communication"] \in {"unread", "pending", "verified", "refused", "unavailable"}

CheckInv(c) ==
  /\ c.at = "idle" => c.verdict = "none" /\ ~c.sound
  /\ c.at # "idle" => Told(c) /\ StillSound(c)
  /\ c.verdict # "none" =>
       /\ c.at = "answered" /\ c.verdict = Recommended(c.seen)
       /\ \A p \in Parts : c.seen[p] # "unread"

VerificationInv == VerificationTypeInv /\ Consent /\ \A v \in Verifiers : CheckInv(check[v])

-----------------------------------------------------------------------------
\* What a recommendation rests on, and when it cannot be that all has failed.
LEMMA RecommendedMeaning ==
  ASSUME NEW seen
  PROVE  /\ Recommended(seen) \in States
         /\ Recommended(seen) = "COMPLETED" => \A p \in Parts : seen[p] = "verified"
         /\ Recommended(seen) = "REPLAN" => seen["communication"] = "refused"
         /\ /\ seen["workforce"] \in {"pending", "verified", "unavailable"}
            /\ seen["incident"] \in {"pending", "verified", "unavailable"}
            /\ seen["communication"] \in {"pending", "verified", "refused", "unavailable"}
            => Recommended(seen) # "FAILED"
<1>1. \A p \in Parts : p \in {"workforce", "incident", "communication"}
  BY DEF Parts
<1>2. {"workforce", "incident", "communication"} \subseteq Parts
  BY DEF Parts
<1>3. CASE \A p \in Parts : seen[p] = "verified"
  BY <1>1, <1>2, <1>3 DEF Recommended, States
<1>4. CASE \E p \in Parts : seen[p] = "unavailable"
  BY <1>1, <1>2, <1>4 DEF Recommended, States
<1>5. CASE /\ ~\A p \in Parts : seen[p] = "verified"
           /\ ~\E p \in Parts : seen[p] = "unavailable"
  <2>1. CASE seen["communication"] = "pending"
    BY <1>1, <1>2, <1>5, <2>1 DEF Recommended, States
  <2>2. CASE seen["communication"] = "refused"
    BY <1>1, <1>2, <1>5, <2>2 DEF Recommended, States
  <2>3. CASE /\ seen["communication"] \notin {"pending", "refused"}
             /\ seen["workforce"] = "pending" \/ seen["incident"] = "pending"
    BY <1>1, <1>2, <1>5, <2>3 DEF Recommended, States
  <2>4. CASE /\ seen["communication"] \notin {"pending", "refused"}
             /\ seen["workforce"] # "pending" /\ seen["incident"] # "pending"
    BY <1>1, <1>2, <1>5, <2>4 DEF Recommended, States
  <2> QED
    BY <2>1, <2>2, <2>3, <2>4
<1> QED
  BY <1>3, <1>4, <1>5

\* What a step of the services never does: a hold loses its work or goes back,
\* an answer changes.
OfferKept(k) ==
  /\ Live(k) => hold'[k].work = hold[k].work /\ hold'[k].stage \in {"held", "booked", "released"}
  /\ hold[k].stage = "booked" => hold'[k].stage \in {"booked", "released"}
  /\ offer[k].answer # "none" => offer'[k].work = offer[k].work /\ offer'[k].answer # "none"
  /\ offer[k].answer \in {"yes", "no"} => offer'[k] = offer[k]

\* A step of the services keeps what is agreed, and OfferKept.
LEMMA BookingStep ==
  ASSUME hold \in [Offers -> HoldType], offer \in [Offers -> OfferType], Consent, BookingNext
  PROVE  /\ hold' \in [Offers -> HoldType] /\ offer' \in [Offers -> OfferType]
         /\ Consent'
         /\ \A k \in Offers : OfferKept(k)
<1>1. ASSUME NEW k \in Offers, NEW w \in Works, Hold(k, w)
      PROVE  /\ hold' \in [Offers -> HoldType] /\ offer' = offer /\ Consent'
             /\ \A j \in Offers : OfferKept(j)
  <2>1. /\ hold' = [hold EXCEPT ![k] = [stage |-> "held", work |-> w]]
        /\ hold[k].stage = "none" /\ offer' = offer
    BY <1>1 DEF Hold
  <2>2. [stage |-> "held", work |-> w] \in HoldType
    BY DEF HoldType
  <2>3. /\ hold'[k] = [stage |-> "held", work |-> w]
        /\ \A j \in Offers \ {k} : hold'[j] = hold[j]
    BY <2>1
  <2>4. \A j \in Offers : hold[j] \in HoldType /\ offer[j] \in OfferType
    OBVIOUS
  <2>5. Consent'
    BY <2>1, <2>3 DEF Consent
  <2> QED
    BY <2>1, <2>2, <2>3, <2>4, <2>5 DEF OfferKept, Live, HoldType, OfferType
<1>2. ASSUME NEW k \in Offers, Ask(k)
      PROVE  /\ offer' \in [Offers -> OfferType] /\ hold' = hold /\ Consent'
             /\ \A j \in Offers : OfferKept(j)
  <2>1. /\ offer' = [offer EXCEPT ![k] = [answer |-> "asked", work |-> hold[k].work]]
        /\ offer[k].answer = "none" /\ hold' = hold
    BY <1>2 DEF Ask
  <2>2. [answer |-> "asked", work |-> hold[k].work] \in OfferType
    BY DEF OfferType, HoldType
  <2>3. /\ offer'[k] = [answer |-> "asked", work |-> hold[k].work]
        /\ \A j \in Offers \ {k} : offer'[j] = offer[j]
    BY <2>1
  <2>4. \A j \in Offers : hold[j] \in HoldType /\ offer[j] \in OfferType
    OBVIOUS
  <2>5. hold[k].stage # "booked"
    BY <2>1 DEF Consent
  <2>6. Consent'
    BY <2>1, <2>3, <2>5 DEF Consent
  <2> QED
    BY <2>1, <2>2, <2>3, <2>4, <2>6 DEF OfferKept, Live, HoldType, OfferType
<1>3. ASSUME NEW k \in Offers, NEW answer \in {"yes", "no"}, AnswerOffer(k, answer)
      PROVE  /\ offer' \in [Offers -> OfferType] /\ hold' = hold /\ Consent'
             /\ \A j \in Offers : OfferKept(j)
  <2> DEFINE new == [offer[k] EXCEPT !.answer = answer]
  <2>1. /\ offer' = [offer EXCEPT ![k] = new]
        /\ offer[k].answer = "asked" /\ hold' = hold
    BY <1>3 DEF AnswerOffer
  <2>2. offer[k] \in OfferType
    OBVIOUS
  <2>3. new \in OfferType /\ new.work = offer[k].work /\ new.answer = answer
    BY <2>2 DEF OfferType
  <2> HIDE DEF new
  <2>4. offer'[k] = new /\ \A j \in Offers \ {k} : offer'[j] = offer[j]
    BY <2>1
  <2>5. \A j \in Offers : hold[j] \in HoldType /\ offer[j] \in OfferType
    OBVIOUS
  <2>6. hold[k].stage # "booked"
    BY <2>1 DEF Consent
  <2>7. Consent'
    BY <2>1, <2>4, <2>6 DEF Consent
  <2> QED
    BY <2>1, <2>3, <2>4, <2>5, <2>7 DEF OfferKept, Live, HoldType, OfferType
<1>4. ASSUME NEW k \in Offers, Book(k)
      PROVE  /\ hold' \in [Offers -> HoldType] /\ offer' = offer /\ Consent'
             /\ \A j \in Offers : OfferKept(j)
  <2> DEFINE new == [hold[k] EXCEPT !.stage = "booked"]
  <2>1. /\ hold' = [hold EXCEPT ![k] = new]
        /\ hold[k].stage = "held" /\ offer' = offer
        /\ offer[k] = [answer |-> "yes", work |-> hold[k].work]
    BY <1>4 DEF Book
  <2>2. hold[k] \in HoldType
    OBVIOUS
  <2>3. new \in HoldType /\ new.work = hold[k].work /\ new.stage = "booked"
    BY <2>2 DEF HoldType
  <2> HIDE DEF new
  <2>4. hold'[k] = new /\ \A j \in Offers \ {k} : hold'[j] = hold[j]
    BY <2>1
  <2>5. \A j \in Offers : hold[j] \in HoldType /\ offer[j] \in OfferType
    OBVIOUS
  <2>6. Consent'
    BY <2>1, <2>3, <2>4 DEF Consent
  <2> QED
    BY <2>1, <2>3, <2>4, <2>5, <2>6 DEF OfferKept, Live, HoldType, OfferType
<1>5. ASSUME NEW S, hold' = Released(S) \/ hold' = hold, offer' = offer
      PROVE  /\ hold' \in [Offers -> HoldType] /\ Consent' /\ \A j \in Offers : OfferKept(j)
  <2>1. \A j \in Offers : hold[j] \in HoldType /\ offer[j] \in OfferType
    OBVIOUS
  <2>2. ASSUME NEW j \in Offers
        PROVE  /\ hold'[j] \in HoldType /\ hold'[j].work = hold[j].work
               /\ hold'[j].stage \in {hold[j].stage, "released"}
               /\ hold'[j].stage = "booked" => hold'[j] = hold[j]
    <3> DEFINE new == [hold[j] EXCEPT !.stage = "released"]
    <3>1. new \in HoldType /\ new.work = hold[j].work /\ new.stage = "released"
      BY <2>1 DEF HoldType
    <3>2. hold'[j] = new \/ hold'[j] = hold[j]
      BY <1>5 DEF Released
    <3> HIDE DEF new
    <3> QED
      BY <2>1, <3>1, <3>2 DEF HoldType
  <2>3. hold' \in [Offers -> HoldType]
    BY <1>5, <2>2 DEF Released
  <2>4. Consent'
    BY <1>5, <2>2 DEF Consent
  <2> QED
    BY <1>5, <2>1, <2>2, <2>3, <2>4 DEF OfferKept, Live
<1>6. ASSUME NEW k \in Offers, Release(k) PROVE hold' = Released({k}) /\ offer' = offer
  BY <1>6 DEF Release
<1>7. ASSUME NEW i \in Incidents, Withdraw(i)
      PROVE  /\ \E S : hold' = Released(S) \/ hold' = hold
             /\ offer' = offer
  BY <1>7 DEF Withdraw
<1>8. ASSUME NEW w \in Works, Assign(w) PROVE hold' = hold /\ offer' = offer
  BY <1>8 DEF Assign
<1>9. ASSUME NEW i \in Incidents, Unassign(i) PROVE hold' = hold /\ offer' = offer
  BY <1>9 DEF Unassign
<1> QED
  BY <1>1, <1>2, <1>3, <1>4, <1>5, <1>6, <1>7, <1>8, <1>9 DEF BookingNext

-----------------------------------------------------------------------------
\* A step of the services, or the closing of an incident, keeps what a
\* verification knows, or marks it.
LEMMA ServicesKeepCheck ==
  ASSUME NEW v \in Verifiers, check[v] \in CheckType, CheckInv(check[v]),
         offer \in [Offers -> OfferType], hold \in [Offers -> HoldType],
         hold' \in [Offers -> HoldType], offer' \in [Offers -> OfferType],
         \A k \in Offers : OfferKept(k), closed \subseteq closed', Remember
  PROVE  check'[v] \in CheckType /\ CheckInv(check[v])'
<1> DEFINE c == check[v]
           d == [c EXCEPT !.undone = TRUE]
           k == c.offer
           w == c.work
<1>1. check'[v] = IF c.at # "idle" /\ Undoes(k, w) THEN d ELSE c
  BY DEF Remember
<1>2. /\ d \in CheckType /\ d.undone
      /\ d.at = c.at /\ d.offer = c.offer /\ d.work = c.work /\ d.seen = c.seen
      /\ d.verdict = c.verdict /\ d.sound = c.sound
  BY DEF CheckType
<1> HIDE DEF d
<1>3. /\ check'[v].at = c.at /\ check'[v].offer = k /\ check'[v].work = w
      /\ check'[v].seen = c.seen /\ check'[v].verdict = c.verdict /\ check'[v].sound = c.sound
      /\ check'[v] \in CheckType /\ (~check'[v].undone => ~c.undone)
  BY <1>1, <1>2
<1>4. CASE c.at = "idle"
  BY <1>3, <1>4 DEF CheckInv
<1>5. CASE c.at # "idle"
  <2>1. k \in Offers /\ w \in Works /\ Told(c) /\ StillSound(c)
    BY <1>5 DEF CheckInv, Told
  <2>2. OfferKept(k) /\ offer[k] \in OfferType /\ hold[k] \in HoldType
    BY <2>1
  <2>3. ~check'[v].undone => ~Undoes(k, w)
    BY <1>1, <1>2, <1>5
  <2>4. ASSUME ~check'[v].undone
        PROVE  /\ Live(k) => hold'[k].stage # "released"
               /\ assigned'[w.incident] \in {assigned[w.incident], w}
               /\ w.incident \notin closed' \ closed
    BY <2>3, <2>4 DEF Undoes
  <2>5. /\ offer[k].answer = "no" => offer'[k].answer = "no"
        /\ offer[k] = [answer |-> "yes", work |-> w] => offer'[k] = [answer |-> "yes", work |-> w]
    BY <2>2 DEF OfferKept
  <2>6. ASSUME hold[k] = [stage |-> "booked", work |-> w], ~check'[v].undone
        PROVE  hold'[k] = [stage |-> "booked", work |-> w]
    <3>1. hold'[k] \in HoldType
      BY <2>1
    <3>2. hold'[k].stage = "booked" /\ hold'[k].work = w
      BY <2>2, <2>4, <2>6 DEF OfferKept, Live
    <3> QED
      BY <3>1, <3>2 DEF HoldType
  <2>7. Told(check[v])'
    BY <1>3, <2>1, <2>4, <2>5, <2>6 DEF Told
  <2>8. ASSUME Matches(k, w), ~check'[v].undone PROVE Matches(k, w)'
    <3>1. hold'[k].stage \in {"held", "booked"} /\ hold'[k].work = w
      BY <2>2, <2>4, <2>8 DEF OfferKept, Live, Matches
    <3>2. offer'[k].answer # "none" /\ offer'[k].work = w
      BY <2>2, <2>8 DEF OfferKept, Matches
    <3>3. assigned'[w.incident] \in {NoWork, w} /\ w.incident \notin closed'
      BY <2>4, <2>8 DEF Matches
    <3> QED
      BY <1>3, <3>1, <3>2, <3>3 DEF Matches
  <2>9. StillSound(check[v])'
    <3> SUFFICES ASSUME check'[v].sound, ~check'[v].undone
                 PROVE  /\ Matches(k, w)'
                        /\ c.seen["workforce"] \in {"unread", "pending", "verified", "unavailable"}
                        /\ c.seen["incident"] \in {"unread", "pending", "verified", "unavailable"}
                        /\ c.seen["communication"]
                             \in {"unread", "pending", "verified", "refused", "unavailable"}
      BY <1>3 DEF StillSound, Matches
    <3>1. c.sound /\ ~c.undone
      BY <1>3
    <3> QED
      BY <2>1, <2>8, <3>1 DEF StillSound
  <2> QED
    BY <1>3, <1>5, <2>7, <2>9 DEF CheckInv
<1> QED
  BY <1>4, <1>5

\* One answer keeps what a verification knows: it is true when it is given.
LEMMA ReadKeepsCheck ==
  ASSUME VerificationInv, NEW v \in Verifiers, NEW part \in Parts, Read(v, part)
  PROVE  /\ check' \in [Verifiers -> CheckType]
         /\ CheckInv(check[v])'
         /\ \A u \in Verifiers \ {v} : check'[u] = check[u]
<1> DEFINE c == check[v]
           k == c.offer
           w == c.work
<1>1. PICK answer \in {Verified(part, k, w), "unavailable"} :
        check' = [check EXCEPT ![v].seen[part] = answer]
  BY DEF Read
<1> DEFINE d == [c EXCEPT !.seen[part] = answer]
<1>2. /\ c.at = "asking" /\ c.seen[part] = "unread" /\ UNCHANGED <<promise, closed>>
      /\ c \in CheckType /\ check \in [Verifiers -> CheckType]
  BY DEF Read, VerificationInv, VerificationTypeInv
<1>3. check' = [check EXCEPT ![v] = d]
  BY <1>1
<1>4. Told(c) /\ StillSound(c) /\ c.verdict = "none" /\ Consent
  BY <1>2 DEF VerificationInv, CheckInv
<1>5. k \in Offers /\ w \in Works /\ hold[k] \in HoldType /\ offer[k] \in OfferType
  BY <1>4 DEF Told, VerificationInv, VerificationTypeInv
<1>6. part = "workforce" =>
        /\ answer \in Results
        /\ answer = "verified" => hold[k] = [stage |-> "booked", work |-> w]
        /\ Matches(k, w) => answer \in {"pending", "verified", "unavailable"}
  BY <1>5 DEF Verified, VerifyReservation, Matches, HoldType, Results
<1>7. part = "incident" =>
        /\ answer \in Results
        /\ answer = "verified" => assigned[w.incident] = w /\ w.incident \notin closed
        /\ Matches(k, w) => answer \in {"pending", "verified", "unavailable"}
  BY <1>5 DEF Verified, VerifyIncident, Matches, Results
<1>8. part = "communication" =>
        /\ answer \in Results
        /\ answer = "refused" => offer[k].answer = "no"
        /\ answer = "verified" => offer[k] = [answer |-> "yes", work |-> w]
        /\ Matches(k, w) => answer \in {"pending", "verified", "refused", "unavailable"}
  BY <1>5 DEF Verified, VerifyAssignment, Matches, OfferType, Results
<1>9. answer \in Results
  BY <1>6, <1>7, <1>8 DEF Parts
<1>10. /\ d \in CheckType
       /\ d.at = "asking" /\ d.offer = k /\ d.work = w /\ d.verdict = "none"
       /\ d.sound = c.sound /\ d.undone = c.undone
       /\ d.seen = [c.seen EXCEPT ![part] = answer]
  BY <1>2, <1>4, <1>9 DEF CheckType
<1>11. d.seen[part] = answer /\ \A p \in Parts \ {part} : d.seen[p] = c.seen[p]
  BY <1>2, <1>10 DEF CheckType
<1> HIDE DEF d
<1>12. check'[v] = d /\ \A u \in Verifiers \ {v} : check'[u] = check[u]
  BY <1>2, <1>3
<1>13. {"workforce", "incident", "communication"} \subseteq Parts
  BY DEF Parts
<1>14. Told(d)
  BY <1>4, <1>6, <1>7, <1>8, <1>10, <1>11, <1>13 DEF Told
<1>15. StillSound(d)
  BY <1>4, <1>6, <1>7, <1>8, <1>10, <1>11, <1>13 DEF StillSound
<1>16. Told(check[v])' /\ StillSound(check[v])'
  BY <1>2, <1>12, <1>14, <1>15 DEF Told, StillSound, Matches, promise
<1> QED
  BY <1>2, <1>3, <1>10, <1>12, <1>16 DEF CheckInv

-----------------------------------------------------------------------------
\* Every step keeps what all verifications know.
LEMMA VerificationInvStep ==
  ASSUME VerificationInv, [VerificationNext]_verificationVars
  PROVE  VerificationInv'
<1> USE DEF VerificationInv
<1>1. ASSUME NEW v \in Verifiers, check' \in [Verifiers -> CheckType], CheckInv(check[v])',
             \A u \in Verifiers \ {v} : check'[u] = check[u], UNCHANGED <<promise, closed>>
      PROVE  VerificationInv'
  <2>1. ASSUME NEW u \in Verifiers \ {v} PROVE CheckInv(check[u])'
    <3>1. CheckInv(check[u]) /\ check'[u] = check[u]
      BY <1>1
    <3> QED
      BY <1>1, <3>1 DEF CheckInv, Told, StillSound, Matches, promise
  <2>2. \A u \in Verifiers : CheckInv(check[u])'
    BY <1>1, <2>1
  <2> QED
    BY <1>1, <2>2 DEF VerificationTypeInv, Consent, promise
<1>2. ASSUME NEW v \in Verifiers, NEW k \in Offers, NEW w \in Works, Begin(v, k, w)
      PROVE  VerificationInv'
  <2> DEFINE new == [Idle EXCEPT !.at = "asking", !.offer = k, !.work = w, !.sound = Matches(k, w)]
  <2>1. check' = [check EXCEPT ![v] = new] /\ UNCHANGED <<promise, closed>>
    BY <1>2 DEF Begin
  <2>2. Matches(k, w) \in BOOLEAN
    BY DEF Matches
  <2>3. /\ new \in CheckType
        /\ new.at = "asking" /\ new.offer = k /\ new.work = w /\ new.verdict = "none"
        /\ new.sound = Matches(k, w) /\ \A p \in Parts : new.seen[p] = "unread"
    BY <2>2 DEF Idle, CheckType
  <2> HIDE DEF new
  <2>4. /\ check' \in [Verifiers -> CheckType] /\ check'[v] = new
        /\ \A u \in Verifiers \ {v} : check'[u] = check[u]
    BY <2>1, <2>3 DEF VerificationTypeInv
  <2>5. {"workforce", "incident", "communication"} \subseteq Parts
    BY DEF Parts
  <2>6. Told(new) /\ StillSound(new)
    BY <2>3, <2>5 DEF Told, StillSound
  <2>7. Told(check[v])' /\ StillSound(check[v])'
    BY <2>1, <2>4, <2>6 DEF Told, StillSound, Matches, promise
  <2>8. CheckInv(check[v])'
    BY <2>3, <2>4, <2>7 DEF CheckInv
  <2> QED
    BY <1>1, <2>1, <2>4, <2>8
<1>3. ASSUME NEW v \in Verifiers, NEW part \in Parts, Read(v, part) PROVE VerificationInv'
  BY <1>1, <1>3, ReadKeepsCheck DEF Read
<1>4. ASSUME NEW v \in Verifiers, Conclude(v) PROVE VerificationInv'
  <2> DEFINE c == check[v]
             new == [c EXCEPT !.at = "answered", !.verdict = Recommended(c.seen)]
  <2>1. /\ check' = [check EXCEPT ![v].at = "answered", ![v].verdict = Recommended(c.seen)]
        /\ UNCHANGED <<promise, closed>>
        /\ c.at = "asking" /\ \A p \in Parts : c.seen[p] # "unread"
    BY <1>4 DEF Conclude, AllAnswered
  <2>2. c \in CheckType /\ Recommended(c.seen) \in States
    BY RecommendedMeaning DEF VerificationTypeInv
  <2>3. /\ new \in CheckType
        /\ new.at = "answered" /\ new.offer = c.offer /\ new.work = c.work
        /\ new.seen = c.seen /\ new.verdict = Recommended(c.seen)
        /\ new.sound = c.sound /\ new.undone = c.undone
    BY <2>2 DEF CheckType
  <2>4. check' = [check EXCEPT ![v] = new]
    BY <2>1, <2>2 DEF CheckType, VerificationTypeInv
  <2> HIDE DEF new
  <2>5. /\ check' \in [Verifiers -> CheckType] /\ check'[v] = new
        /\ \A u \in Verifiers \ {v} : check'[u] = check[u]
    BY <2>3, <2>4 DEF VerificationTypeInv
  <2>6. Told(c) /\ StillSound(c)
    BY <2>1 DEF CheckInv
  <2>7. Told(check[v])' /\ StillSound(check[v])'
    BY <2>1, <2>3, <2>5, <2>6 DEF Told, StillSound, Matches, promise
  <2>8. CheckInv(check[v])'
    BY <2>1, <2>3, <2>5, <2>7 DEF CheckInv
  <2> QED
    BY <1>1, <2>1, <2>5, <2>8
<1>5. ASSUME Remember, hold' \in [Offers -> HoldType], offer' \in [Offers -> OfferType],
             Consent', \A k \in Offers : OfferKept(k),
             closed \subseteq closed', closed' \subseteq Incidents
      PROVE  VerificationInv'
  <2>1. \A v \in Verifiers : check'[v] \in CheckType /\ CheckInv(check[v])'
    BY <1>5, ServicesKeepCheck DEF VerificationTypeInv
  <2>2. check' \in [Verifiers -> CheckType]
    BY <1>5, <2>1 DEF Remember
  <2> QED
    BY <1>5, <2>1, <2>2 DEF VerificationTypeInv
<1>6. ASSUME ServicesStep PROVE VerificationInv'
  BY <1>5, <1>6, BookingStep DEF ServicesStep, VerificationTypeInv
<1>7. ASSUME NEW i \in Incidents, Close(i) PROVE VerificationInv'
  <2>1. UNCHANGED promise /\ closed' = closed \cup {i} /\ Remember
    BY <1>7 DEF Close
  <2>2. \A k \in Offers : hold[k] \in HoldType /\ offer[k] \in OfferType
    BY DEF VerificationTypeInv
  <2>3. \A k \in Offers : OfferKept(k)
    BY <2>1, <2>2 DEF OfferKept, Live, promise, HoldType, OfferType
  <2> QED
    BY <1>5, <2>1, <2>3 DEF VerificationTypeInv, Consent, promise
<1>8. CASE UNCHANGED verificationVars
  BY <1>8 DEF verificationVars, VerificationTypeInv, Consent, CheckInv, Told, StillSound, Matches, promise
<1> QED
  BY <1>2, <1>3, <1>4, <1>6, <1>7, <1>8 DEF VerificationNext

\* What the inductive invariant says of a verdict.
LEMMA VerificationInvMeans ==
  ASSUME VerificationInv
  PROVE  /\ VerificationTypeOK /\ ReplanMeansRefused /\ CompletedHadConsent
         /\ CompletedTogether /\ NoFalseAlarm
<1>1. ASSUME NEW v \in Verifiers
      PROVE  /\ check[v] \in CheckType /\ CheckInv(check[v])
             /\ check[v].verdict # "none" =>
                  /\ Told(check[v]) /\ StillSound(check[v])
                  /\ check[v].verdict = Recommended(check[v].seen)
                  /\ \A p \in Parts : check[v].seen[p] # "unread"
  BY DEF VerificationInv, VerificationTypeInv, CheckInv
<1>2. {"workforce", "incident", "communication"} \subseteq Parts
  BY DEF Parts
<1>3. VerificationTypeOK
  BY <1>1 DEF VerificationTypeOK, CheckType, VerificationInv, VerificationTypeInv
<1>4. ASSUME NEW v \in Verifiers, check[v].verdict = "REPLAN"
      PROVE  offer[check[v].offer].answer = "no"
  <2>1. Told(check[v]) /\ check[v].seen["communication"] = "refused"
    BY <1>1, <1>4, RecommendedMeaning
  <2> QED
    BY <2>1 DEF Told
<1>5. ASSUME NEW v \in Verifiers, check[v].verdict = "COMPLETED"
      PROVE  /\ Told(check[v]) /\ \A p \in Parts : check[v].seen[p] = "verified"
  BY <1>1, <1>5, RecommendedMeaning
<1>6. CompletedHadConsent
  BY <1>2, <1>5 DEF CompletedHadConsent, Told
<1>7. CompletedTogether
  BY <1>2, <1>5 DEF CompletedTogether, Told
<1>8. NoFalseAlarm
  BY <1>1, <1>2, RecommendedMeaning DEF NoFalseAlarm, StillSound
<1>9. ReplanMeansRefused
  BY <1>4 DEF ReplanMeansRefused
<1> QED
  BY <1>3, <1>6, <1>7, <1>8, <1>9

\* In every reachable state all verifications know what is true.
THEOREM VerificationInvariant == VerificationSpec => []VerificationInv
<1>1. VerificationInit => VerificationInv
  <2> SUFFICES ASSUME VerificationInit PROVE VerificationInv
    OBVIOUS
  <2>1. hold \in [Offers -> HoldType] /\ offer \in [Offers -> OfferType]
    BY DEF VerificationInit, BookingInit, HoldType, OfferType
  <2>2. Idle \in CheckType /\ Idle.at = "idle" /\ Idle.verdict = "none" /\ Idle.sound = FALSE
    BY DEF Idle, CheckType
  <2>3. \A v \in Verifiers : CheckInv(check[v])
    BY <2>2 DEF VerificationInit, CheckInv
  <2> QED
    BY <2>1, <2>2, <2>3 DEF VerificationInv, VerificationTypeInv, Consent, VerificationInit, BookingInit
<1>2. VerificationInv /\ [VerificationNext]_verificationVars => VerificationInv'
  BY VerificationInvStep
<1> QED
  BY <1>1, <1>2, PTL DEF VerificationSpec

\* The values and the order of a verification are as its handler has them.
THEOREM VerificationTypes == VerificationSpec => []VerificationTypeOK
<1>1. VerificationInv => VerificationTypeOK
  BY VerificationInvMeans
<1> QED
  BY <1>1, VerificationInvariant, PTL

\* A recommendation is never wrong about consent: a new plan only after a
\* refusal, completion only after an agreement.
THEOREM RecommendationRight ==
  VerificationSpec => [](ReplanMeansRefused /\ CompletedHadConsent)
<1>1. VerificationInv => ReplanMeansRefused /\ CompletedHadConsent
  BY VerificationInvMeans
<1> QED
  BY <1>1, VerificationInvariant, PTL

\* Three answers of three moments amount to one: what is reported complete is
\* complete, unless something is taken back during the verification.
THEOREM CompletedAtOnce == VerificationSpec => []CompletedTogether
<1>1. VerificationInv => CompletedTogether
  BY VerificationInvMeans
<1> QED
  BY <1>1, VerificationInvariant, PTL

\* A booking on its way is not reported as failed.
THEOREM NoFailureReported == VerificationSpec => []NoFalseAlarm
<1>1. VerificationInv => NoFalseAlarm
  BY VerificationInvMeans
<1> QED
  BY <1>1, VerificationInvariant, PTL
\* What verify_execution recommends is true of the booking it was asked about.
THEOREM RecommendationsTrue == VerificationSpec => []RecommendationTrue
<1>1. ReplanMeansRefused /\ CompletedHadConsent /\ CompletedTogether => RecommendationTrue
  BY DEF RecommendationTrue
<1> QED
  BY <1>1, RecommendationRight, CompletedAtOnce, PTL

-----------------------------------------------------------------------------
(* The counters of the preference memory                                   *)

MemoryType ==
  [total : Nat, counts : [Profiles -> Nat], shown : Nat, accepted : Nat, rejected : Nat]
DecisionType ==
  [at : {"waiting", "locked", "loaded", "saved", "done", "failed"}, status : Statuses,
   selected : Profiles \cup {NoProfile}, recommended : Profiles \cup {NoProfile},
   memory : MemoryType, read : Reads]

MemoryTypeInv ==
  /\ memory \in MemoryType
  /\ decision \in [DecisionIds -> DecisionType]
  /\ holder \in DecisionIds \cup {NoOne}
  /\ lost \subseteq audited /\ audited \subseteq DecisionIds /\ IsFiniteSet(audited)

Inside(d) == decision[d].at \in {"locked", "loaded", "saved"}

\* The lock is held exactly by the decision whose transaction is open; what it
\* has counted is what its load answered with and itself, and one whose load broke
\* the transaction is not saved.
Progress(d) ==
  /\ Inside(d) <=> holder = d
  /\ d \in audited <=> decision[d].at = "done"
  /\ decision[d].at \in {"loaded", "saved"} =>
       decision[d].memory = Updated(LoadedMemory(decision[d].read), d)
  /\ decision[d].at = "saved" => decision[d].read # "broken"

CountsRight == EveryDecisionCounts /\ ConfidenceInRange

MemoryInv == MemoryTypeInv /\ (\A d \in DecisionIds : Progress(d)) /\ CountsRight

\* What a decision is does not change once it is taken.
SameDecision(d) ==
  /\ decision'[d].status = decision[d].status
  /\ decision'[d].selected = decision[d].selected
  /\ decision'[d].recommended = decision[d].recommended

-----------------------------------------------------------------------------
\* A set that gets one more element, or does not, has one more, or has not.
LEMMA OneMore ==
  ASSUME NEW A, IsFiniteSet(A), NEW d, d \notin A, NEW b \in BOOLEAN,
         NEW B, B = IF b THEN A \cup {d} ELSE A
  PROVE  Cardinality(A) \in Nat /\ Cardinality(B) = Cardinality(A) + One(b)
<1>1. Cardinality(A) \in Nat
  BY FS_CardinalityType
<1>2. CASE b
  BY <1>1, <1>2, FS_AddElement DEF One
<1>3. CASE ~b
  BY <1>1, <1>3 DEF One
<1> QED
  BY <1>1, <1>2, <1>3

\* The updated memory is a memory, and keeps the rates between 0 and 1.
LEMMA UpdatedType ==
  ASSUME NEW m \in MemoryType, NEW d
  PROVE  /\ Updated(m, d) \in MemoryType
         /\ m.accepted + m.rejected = m.shown =>
              Updated(m, d).accepted + Updated(m, d).rejected = Updated(m, d).shown
         /\ (\A p \in Profiles : m.counts[p] <= m.total) =>
              \A p \in Profiles : Updated(m, d).counts[p] <= Updated(m, d).total
<1>1. \A c \in BOOLEAN : One(c) \in {0, 1}
  BY DEF One
<1>2. /\ (Personalized(d) /\ Accepted(d)) \in BOOLEAN /\ (Personalized(d) /\ ~Accepted(d)) \in BOOLEAN
      /\ Personalized(d) \in BOOLEAN /\ EndsRun(d) \in BOOLEAN
      /\ \A p \in Profiles : Selects(d, p) \in BOOLEAN
  BY DEF Personalized, Accepted, EndsRun, Selects
<1>3. One(Personalized(d) /\ Accepted(d)) + One(Personalized(d) /\ ~Accepted(d)) = One(Personalized(d))
  BY DEF One, Personalized, Accepted
<1>4. \A p \in Profiles : One(Selects(d, p)) <= One(EndsRun(d))
  BY DEF One, Selects, EndsRun
<1>5. /\ m.total \in Nat /\ m.shown \in Nat /\ m.accepted \in Nat /\ m.rejected \in Nat
      /\ m.counts \in [Profiles -> Nat]
  BY DEF MemoryType
<1>6. /\ One(EndsRun(d)) \in {0, 1} /\ One(Personalized(d)) \in {0, 1}
      /\ One(Personalized(d) /\ Accepted(d)) \in {0, 1}
      /\ One(Personalized(d) /\ ~Accepted(d)) \in {0, 1}
      /\ \A p \in Profiles : One(Selects(d, p)) \in {0, 1}
  BY <1>1, <1>2
<1> DEFINE u == Updated(m, d)
<1>7. /\ u.total = m.total + One(EndsRun(d))
      /\ u.counts = [p \in Profiles |-> m.counts[p] + One(Selects(d, p))]
      /\ u.shown = m.shown + One(Personalized(d))
      /\ u.accepted = m.accepted + One(Personalized(d) /\ Accepted(d))
      /\ u.rejected = m.rejected + One(Personalized(d) /\ ~Accepted(d))
      /\ u = [total |-> u.total, counts |-> u.counts, shown |-> u.shown,
              accepted |-> u.accepted, rejected |-> u.rejected]
  BY DEF Updated
<1> HIDE DEF u
<1>8. \A p \in Profiles : m.counts[p] \in Nat /\ u.counts[p] = m.counts[p] + One(Selects(d, p))
  BY <1>5, <1>7
<1>9. u \in MemoryType
  <2>1. u.counts \in [Profiles -> Nat]
    BY <1>6, <1>7, <1>8
  <2>2. u.total \in Nat /\ u.shown \in Nat /\ u.accepted \in Nat /\ u.rejected \in Nat
    BY <1>5, <1>6, <1>7
  <2> QED
    BY <1>7, <2>1, <2>2 DEF MemoryType
<1>10. m.accepted + m.rejected = m.shown => u.accepted + u.rejected = u.shown
  BY <1>3, <1>5, <1>6, <1>7
<1>11. (\A p \in Profiles : m.counts[p] <= m.total) => \A p \in Profiles : u.counts[p] <= u.total
  BY <1>4, <1>5, <1>6, <1>7, <1>8
<1> QED
  BY <1>9, <1>10, <1>11 DEF u

-----------------------------------------------------------------------------
\* The update of a decision depends on what it is, not on how far it is.
LEMMA SameUpdate ==
  ASSUME NEW d, SameDecision(d), UNCHANGED memory
  PROVE  \A result : Updated(LoadedMemory(result), d)' = Updated(LoadedMemory(result), d)
BY DEF SameDecision, Updated, LoadedMemory, EndsRun, Selects, Personalized, Accepted

\* A step that commits nothing moves one decision and may take or give the lock.
LEMMA UncommittedStep ==
  ASSUME MemoryInv, NoOne \notin DecisionIds, NEW d \in DecisionIds, NEW new \in DecisionType,
         decision' = [decision EXCEPT ![d] = new], UNCHANGED <<memory, audited, lost>>,
         decision[d].at # "done", new.at # "done",
         holder \in {NoOne, d}, holder' \in {NoOne, d},
         new.at \in {"locked", "loaded", "saved"} <=> holder' = d,
         new.at \in {"loaded", "saved"} => new.memory = Updated(LoadedMemory(new.read), d)',
         new.at = "saved" => new.read # "broken"
  PROVE  MemoryInv'
<1>1. /\ decision' \in [DecisionIds -> DecisionType] /\ decision'[d] = new
      /\ \A e \in DecisionIds \ {d} : decision'[e] = decision[e]
  BY DEF MemoryInv, MemoryTypeInv
<1>2. MemoryTypeInv'
  BY <1>1 DEF MemoryInv, MemoryTypeInv
<1>3. d \notin audited
  BY DEF MemoryInv, Progress
<1>4. Progress(d)'
  BY <1>1, <1>3 DEF Progress, Inside
<1>5. ASSUME NEW e \in DecisionIds \ {d} PROVE Progress(e)'
  <2>1. Progress(e) /\ decision'[e] = decision[e] /\ SameDecision(e)
    BY <1>1 DEF MemoryInv, SameDecision
  <2>2. holder # e /\ holder' # e
    OBVIOUS
  <2>3. ~Inside(e) /\ ~Inside(e)'
    BY <2>1, <2>2 DEF Progress, Inside
  <2> QED
    BY <2>1, <2>2, <2>3 DEF Progress, Inside
<1>6. \A e \in Counted : decision'[e] = decision[e]
  BY <1>1, <1>3 DEF MemoryInv, MemoryTypeInv, Counted
<1>7. \A e \in Counted :
        /\ EndsRun(e)' = EndsRun(e) /\ Personalized(e)' = Personalized(e)
        /\ \A p \in Profiles : Selects(e, p)' = Selects(e, p)
  BY <1>6 DEF EndsRun, Personalized, Selects
<1>a. Counted' = Counted
  BY DEF Counted
<1>8. /\ {e \in Counted : EndsRun(e)}' = {e \in Counted : EndsRun(e)}
      /\ {e \in Counted : Personalized(e)}' = {e \in Counted : Personalized(e)}
      /\ \A p \in Profiles :
           {e \in Counted : Selects(e, p)}' = {e \in Counted : Selects(e, p)}
  BY <1>7, <1>a
<1>9. CountsRight'
  BY <1>8 DEF MemoryInv, CountsRight, EveryDecisionCounts, ConfidenceInRange, HowMany
<1> QED
  BY <1>2, <1>4, <1>5, <1>9 DEF MemoryInv

\* A commit counts one decision more, and what it writes is what its load answered
\* with and itself: the row, or nothing, and then the count starts afresh.
LEMMA CommitStep ==
  ASSUME MemoryInv, NoOne \notin DecisionIds, NEW d \in DecisionIds, CommitMemory(d)
  PROVE  MemoryInv'
<1> DEFINE new == [decision[d] EXCEPT !.at = "done", !.memory = EmptyMemory]
<1>1. /\ decision[d].at = "saved" /\ memory' = decision[d].memory
      /\ audited' = audited \cup {d} /\ lost' = IF decision[d].read = "nothing" THEN audited ELSE lost
      /\ decision' = [decision EXCEPT ![d].at = "done", ![d].memory = EmptyMemory]
      /\ decision[d] \in DecisionType /\ Progress(d)
  BY DEF CommitMemory, MemoryInv, MemoryTypeInv
<1> DEFINE base == LoadedMemory(decision[d].read)
           before == IF decision[d].read = "nothing" THEN {} ELSE Counted
<1>2. /\ holder = d /\ holder' = NoOne /\ d \notin audited /\ memory' = Updated(base, d)
      /\ decision[d].read \in {"row", "nothing"}
  BY <1>1 DEF Progress, Inside, CommitMemory, LockReleased, DecisionType, Reads
<1>3. EmptyMemory \in MemoryType
  BY DEF EmptyMemory, MemoryType
<1>4. /\ new \in DecisionType /\ new.at = "done" /\ new.status = decision[d].status
      /\ new.selected = decision[d].selected /\ new.recommended = decision[d].recommended
  BY <1>1, <1>3 DEF DecisionType
<1>5. decision' = [decision EXCEPT ![d] = new]
  BY <1>1
<1> HIDE DEF new
<1>6. /\ decision' \in [DecisionIds -> DecisionType] /\ decision'[d] = new
      /\ \A e \in DecisionIds \ {d} : decision'[e] = decision[e]
  BY <1>4, <1>5 DEF MemoryInv, MemoryTypeInv
<1>7. \A e \in DecisionIds : SameDecision(e)
  BY <1>4, <1>6 DEF SameDecision
<1>a. base \in MemoryType
  BY <1>3 DEF MemoryInv, MemoryTypeInv, LoadedMemory
<1> HIDE DEF base
<1>8. memory' \in MemoryType
  BY <1>2, <1>a, UpdatedType
<1>9. MemoryTypeInv'
  <2>1. /\ audited' \subseteq DecisionIds /\ lost' \subseteq audited'
    BY <1>1 DEF MemoryInv, MemoryTypeInv
  <2>2. IsFiniteSet(audited')
    BY <1>1, FS_AddElement DEF MemoryInv, MemoryTypeInv
  <2> QED
    BY <2>1, <2>2, <1>2, <1>6, <1>8 DEF MemoryInv, MemoryTypeInv
<1>10. ASSUME NEW e \in DecisionIds PROVE Progress(e)'
  <2>1. CASE e = d
    BY <1>1, <1>2, <1>4, <1>6, <2>1 DEF Progress, Inside
  <2>2. CASE e # d
    <3>1. Progress(e) /\ decision'[e] = decision[e] /\ holder # e /\ holder' # e
      BY <1>2, <1>6, <2>2 DEF MemoryInv
    <3>2. ~Inside(e) /\ ~Inside(e)'
      BY <3>1 DEF Progress, Inside
    <3> QED
      BY <1>1, <2>2, <3>1, <3>2 DEF Progress, Inside
  <2> QED
    BY <2>1, <2>2
<1>11. /\ before \subseteq DecisionIds /\ IsFiniteSet(before) /\ d \notin before
       /\ Counted' = before \cup {d}
  <2>1. Counted \subseteq audited /\ IsFiniteSet(Counted)
    BY FS_Subset DEF MemoryInv, MemoryTypeInv, Counted
  <2>2. before \subseteq audited /\ IsFiniteSet(before)
    BY <2>1, FS_EmptySet
  <2>3. Counted' = before \cup {d}
    BY <1>1, <1>2 DEF Counted, MemoryInv, MemoryTypeInv
  <2> QED
    BY <2>2, <2>3, <1>2 DEF MemoryInv, MemoryTypeInv
<1>12. \A e \in DecisionIds :
         /\ EndsRun(e)' = EndsRun(e) /\ Personalized(e)' = Personalized(e)
         /\ \A p \in Profiles : Selects(e, p)' = Selects(e, p)
  BY <1>7 DEF SameDecision, EndsRun, Personalized, Selects
<1>13. /\ base.total = Cardinality({e \in before : EndsRun(e)})
       /\ base.shown = Cardinality({e \in before : Personalized(e)})
       /\ \A p \in Profiles : base.counts[p] = Cardinality({e \in before : Selects(e, p)})
       /\ base.accepted + base.rejected = base.shown
       /\ \A p \in Profiles : base.counts[p] <= base.total
  <2>1. CASE decision[d].read = "row"
    BY <2>1 DEF base, LoadedMemory, MemoryInv, CountsRight, EveryDecisionCounts, ConfidenceInRange, HowMany
  <2>2. CASE decision[d].read = "nothing"
    <3>1. base = EmptyMemory /\ before = {}
      BY <2>2 DEF base, LoadedMemory
    <3>2. /\ {e \in before : EndsRun(e)} = {} /\ {e \in before : Personalized(e)} = {}
          /\ \A p \in Profiles : {e \in before : Selects(e, p)} = {}
      BY <3>1
    <3> HIDE DEF before
    <3> QED
      BY <3>1, <3>2, FS_EmptySet DEF EmptyMemory
  <2> QED
    BY <2>1, <2>2, <1>2
<1> HIDE DEF before
<1>14. /\ memory'.total = base.total + One(EndsRun(d))
       /\ memory'.shown = base.shown + One(Personalized(d))
       /\ \A p \in Profiles : memory'.counts[p] = base.counts[p] + One(Selects(d, p))
  BY <1>2 DEF Updated
<1>15. memory'.total = Cardinality({e \in Counted' : EndsRun(e)'})
  <2> DEFINE A == {e \in before : EndsRun(e)}
             B == {e \in Counted' : EndsRun(e)'}
  <2>1. B = IF EndsRun(d) THEN A \cup {d} ELSE A
    BY <1>11, <1>12
  <2>2. IsFiniteSet(A) /\ d \notin A /\ EndsRun(d) \in BOOLEAN
    BY <1>11, FS_Subset DEF EndsRun
  <2> HIDE DEF A, B
  <2>3. Cardinality(B) = Cardinality(A) + One(EndsRun(d))
    BY <2>1, <2>2, OneMore
  <2> QED
    BY <1>13, <1>14, <2>3 DEF A, B
<1>16. memory'.shown = Cardinality({e \in Counted' : Personalized(e)'})
  <2> DEFINE A == {e \in before : Personalized(e)}
             B == {e \in Counted' : Personalized(e)'}
  <2>1. B = IF Personalized(d) THEN A \cup {d} ELSE A
    BY <1>11, <1>12
  <2>2. IsFiniteSet(A) /\ d \notin A /\ Personalized(d) \in BOOLEAN
    BY <1>11, FS_Subset DEF Personalized
  <2> HIDE DEF A, B
  <2>3. Cardinality(B) = Cardinality(A) + One(Personalized(d))
    BY <2>1, <2>2, OneMore
  <2> QED
    BY <1>13, <1>14, <2>3 DEF A, B
<1>17. ASSUME NEW p \in Profiles
       PROVE  memory'.counts[p] = Cardinality({e \in Counted' : Selects(e, p)'})
  <2> DEFINE A == {e \in before : Selects(e, p)}
             B == {e \in Counted' : Selects(e, p)'}
  <2>1. B = IF Selects(d, p) THEN A \cup {d} ELSE A
    BY <1>11, <1>12
  <2>2. IsFiniteSet(A) /\ d \notin A /\ Selects(d, p) \in BOOLEAN
    BY <1>11, FS_Subset DEF Selects
  <2> HIDE DEF A, B
  <2>3. Cardinality(B) = Cardinality(A) + One(Selects(d, p))
    BY <2>1, <2>2, OneMore
  <2> QED
    BY <1>13, <1>14, <2>3 DEF A, B
<1>18. EveryDecisionCounts'
  BY <1>15, <1>16, <1>17 DEF EveryDecisionCounts, HowMany
<1>19. ConfidenceInRange'
  BY <1>2, <1>a, <1>13, UpdatedType DEF ConfidenceInRange
<1> QED
  BY <1>9, <1>10, <1>18, <1>19 DEF MemoryInv, CountsRight

-----------------------------------------------------------------------------
\* Every step keeps the invariant.
LEMMA MemoryInvStep ==
  ASSUME MemoryInv, NoOne \notin DecisionIds, [MemoryNext]_memoryVars
  PROVE  MemoryInv'
<1>1. \A d \in DecisionIds : decision[d] \in DecisionType /\ Progress(d)
  BY DEF MemoryInv, MemoryTypeInv
<1>2. memory \in MemoryType /\ EmptyMemory \in MemoryType
  BY DEF MemoryInv, MemoryTypeInv, EmptyMemory, MemoryType
<1>3. ASSUME NEW d \in DecisionIds, Acquire(d) PROVE MemoryInv'
  <2>1. PICK status \in Statuses, p \in Profiles \cup {NoProfile}, q \in Profiles \cup {NoProfile} :
          decision' = [decision EXCEPT ![d].at = "locked", ![d].status = status,
                                       ![d].selected = p, ![d].recommended = q]
    BY <1>3 DEF Acquire
  <2> DEFINE new == [decision[d] EXCEPT !.at = "locked", !.status = status,
                                        !.selected = p, !.recommended = q]
  <2>2. new \in DecisionType /\ new.at = "locked"
    BY <1>1 DEF DecisionType
  <2>3. decision' = [decision EXCEPT ![d] = new]
    BY <2>1
  <2> HIDE DEF new
  <2>4. /\ decision[d].at = "waiting" /\ holder = NoOne /\ holder' = d
        /\ UNCHANGED <<memory, audited, lost>>
    BY <1>3 DEF Acquire
  <2> QED
    BY <2>2, <2>3, <2>4, UncommittedStep
<1>4. ASSUME NEW d \in DecisionIds, Load(d) PROVE MemoryInv'
  <2>1. /\ decision[d].at = "locked" /\ holder' = holder /\ holder = d
        /\ UNCHANGED <<memory, audited, lost>>
    BY <1>1, <1>4 DEF Load, Progress, Inside
  <2>2. PICK result \in Reads :
          decision' = [decision EXCEPT ![d].at = "loaded", ![d].read = result,
                                       ![d].memory = Updated(LoadedMemory(result), d)]
    BY <1>4 DEF Load
  <2>b. PICK new : new = [decision[d] EXCEPT !.at = "loaded", !.read = result,
                                             !.memory = Updated(LoadedMemory(result), d)]
    OBVIOUS
  <2>3. decision' = [decision EXCEPT ![d] = new]
    BY <2>2, <2>b
  <2>a. Updated(LoadedMemory(result), d) \in MemoryType
    BY <1>2, UpdatedType DEF LoadedMemory
  <2>4. /\ new \in DecisionType /\ new.at = "loaded" /\ new.read = result
        /\ new.status = decision[d].status /\ new.selected = decision[d].selected
        /\ new.recommended = decision[d].recommended
        /\ new.memory = Updated(LoadedMemory(result), d)
    BY <1>1, <2>a, <2>b DEF DecisionType
  <2>5. decision'[d] = new
    BY <2>3 DEF MemoryInv, MemoryTypeInv
  <2>6. Updated(LoadedMemory(new.read), d)' = Updated(LoadedMemory(new.read), d)
    BY <2>1, <2>4, <2>5, SameUpdate DEF SameDecision
  <2> QED
    BY <2>1, <2>3, <2>4, <2>6, UncommittedStep
<1>5. ASSUME NEW d \in DecisionIds, SaveMemory(d) PROVE MemoryInv'
  <2>a. PICK new : new = [decision[d] EXCEPT !.at = "saved"]
    OBVIOUS
  <2>1. /\ decision[d].at = "loaded" /\ decision[d].read # "broken"
        /\ holder' = holder /\ holder = d
        /\ decision[d].memory = Updated(LoadedMemory(decision[d].read), d)
        /\ UNCHANGED <<memory, audited, lost>>
    BY <1>1, <1>5 DEF SaveMemory, Saved, LockAfterSave, Progress, Inside
  <2>2. decision' = [decision EXCEPT ![d] = new]
    BY <1>5, <2>a DEF SaveMemory
  <2>3. /\ new \in DecisionType /\ new.at = "saved" /\ new.read # "broken"
        /\ new.read = decision[d].read
        /\ new.memory = decision[d].memory
        /\ new.status = decision[d].status /\ new.selected = decision[d].selected
        /\ new.recommended = decision[d].recommended
    BY <1>1, <2>1, <2>a DEF DecisionType
  <2>4. decision'[d] = new
    BY <2>2 DEF MemoryInv, MemoryTypeInv
  <2>5. Updated(LoadedMemory(new.read), d)' = Updated(LoadedMemory(new.read), d)
    BY <2>1, <2>3, <2>4, SameUpdate DEF SameDecision
  <2> QED
    BY <2>1, <2>2, <2>3, <2>5, UncommittedStep
<1>6. ASSUME NEW d \in DecisionIds, Abort(d) PROVE MemoryInv'
  <2> DEFINE new == [decision[d] EXCEPT !.at = "failed", !.memory = EmptyMemory]
  <2>1. /\ decision[d].at \in {"locked", "loaded", "saved"}
        /\ holder = d /\ holder' = NoOne
        /\ UNCHANGED <<memory, audited, lost>>
    BY <1>1, <1>6 DEF Abort, Progress, Inside, LockReleased
  <2>2. decision' = [decision EXCEPT ![d] = new]
    BY <1>6 DEF Abort
  <2>3. new \in DecisionType /\ new.at = "failed"
    BY <1>1, <1>2 DEF DecisionType
  <2> HIDE DEF new
  <2> QED
    BY <2>1, <2>2, <2>3, UncommittedStep
<1>7. ASSUME UNCHANGED <<memory, decision, holder, audited, lost>> PROVE MemoryInv'
  BY <1>7 DEF MemoryInv, MemoryTypeInv, Progress, Inside, Updated, LoadedMemory, EndsRun, Selects,
     Personalized, Accepted, Counted, CountsRight, EveryDecisionCounts, ConfidenceInRange, HowMany
<1>8. ASSUME NEW plans \in PlanSets, NEW m \in {memory, EmptyMemory}, Recommend(plans, m)
      PROVE  UNCHANGED <<memory, decision, holder, audited, lost>>
  BY <1>8 DEF Recommend
<1> QED
  BY <1>3, <1>4, <1>5, <1>6, <1>7, <1>8, CommitStep DEF MemoryNext, memoryVars

\* The invariant holds at the start, where nothing is counted.
LEMMA MemoryInvInit ==
  ASSUME MemoryInit, NoOne \notin DecisionIds
  PROVE  MemoryInv
<1>1. EmptyMemory \in MemoryType /\ Waiting \in DecisionType
  BY DEF EmptyMemory, MemoryType, Waiting, DecisionType, Statuses, Reads
<1>2. MemoryTypeInv
  BY <1>1, FS_EmptySet DEF MemoryInit, MemoryTypeInv
<1>3. \A d \in DecisionIds : Progress(d)
  BY DEF MemoryInit, Progress, Inside, Waiting
<1>4. CountsRight
  BY FS_EmptySet DEF MemoryInit, EmptyMemory, CountsRight, EveryDecisionCounts, ConfidenceInRange, HowMany,
                     Counted
<1> QED
  BY <1>2, <1>3, <1>4 DEF MemoryInv

\* Memory and audit log agree: every decision whose event is committed is
\* counted once, whatever overlaps and fails, back to the last load that failed
\* without breaking its transaction.
THEOREM DecisionsCount == MemorySpec => []EveryDecisionCounts
<1>1. MemoryInit => MemoryInv
  BY MemoryInvInit, MemoryAssumption
<1>2. MemoryInv /\ [MemoryNext]_memoryVars => MemoryInv'
  BY MemoryInvStep, MemoryAssumption
<1>3. MemoryInv => EveryDecisionCounts
  BY DEF MemoryInv, CountsRight
<1> QED
  BY <1>1, <1>2, <1>3, PTL DEF MemorySpec

\* The acceptance rate and every selection frequency stay between 0 and 1.
THEOREM RatesInRange == MemorySpec => []ConfidenceInRange
<1>1. MemoryInit => MemoryInv
  BY MemoryInvInit, MemoryAssumption
<1>2. MemoryInv /\ [MemoryNext]_memoryVars => MemoryInv'
  BY MemoryInvStep, MemoryAssumption
<1>3. MemoryInv => ConfidenceInRange
  BY DEF MemoryInv, CountsRight
<1> QED
  BY <1>1, <1>2, <1>3, PTL DEF MemorySpec
\* The counters of the manager's preferences, the audit audited and the rates agree.
THEOREM CountersHold == MemorySpec => []CountersAgree
<1>1. MemorySpec => []EveryDecisionCounts
  BY DecisionsCount
<1>2. MemorySpec => []ConfidenceInRange
  BY RatesInRange
<1>3. EveryDecisionCounts /\ ConfidenceInRange => CountersAgree
  BY DEF CountersAgree
<1> QED
  BY <1>1, <1>2, <1>3, PTL

-----------------------------------------------------------------------------
(* The recommendation                                                      *)

\* A finite set of numbers has a largest one: else the sets of the numbers above
\* a number would shrink for ever.
LEMMA LargestExists ==
  ASSUME NEW S \in SUBSET Int, IsFiniteSet(S), S # {}
  PROVE  Largest(S) \in S /\ \A y \in S : y <= Largest(S)
<1> DEFINE Above(x) == {y \in S : y > x}
           T == {Above(x) : x \in S}
<1>1. T \subseteq FiniteSubsetsOf(S)
  BY FS_Subset DEF FiniteSubsetsOf
<1>2. T # {}
  OBVIOUS
<1>3. IsWellFoundedOn(StrictSubsetOrdering(S), FiniteSubsetsOf(S))
  BY FS_StrictSubsetOrderingWellFounded
<1> HIDE DEF T
<1>4. \E U \in T : \A V \in T : ~(<<V, U>> \in StrictSubsetOrdering(S))
  BY <1>1, <1>2, <1>3, WFMin
<1>5. PICK x \in S : \A V \in T : ~(<<V, Above(x)>> \in StrictSubsetOrdering(S))
  BY <1>4 DEF T
<1>6. ASSUME NEW y \in S, y > x PROVE FALSE
  <2>1. Above(y) \subseteq Above(x) /\ y \in Above(x) /\ y \notin Above(y)
    <3>1. x \in Int /\ y \in Int /\ \A z \in S : z \in Int
      OBVIOUS
    <3>2. \A z \in S : z > y => z > x
      BY <1>6, <3>1
    <3>3. ~(y > y)
      BY <3>1
    <3> QED
      BY <1>6, <3>2, <3>3
  <2>2. Above(y) \in T /\ Above(y) \in SUBSET S /\ Above(x) \in SUBSET S
    BY DEF T
  <2>3. <<Above(y), Above(x)>> \in StrictSubsetOrdering(S)
    BY <2>1, <2>2 DEF StrictSubsetOrdering
  <2> QED
    BY <1>5, <2>2, <2>3
<1>7. \A y \in S : y <= x
  BY <1>6
<1> QED
  BY <1>7 DEF Largest

\* A plan with the best objective is there.
LEMMA BestExists ==
  ASSUME NEW plans \in PlanSets
  PROVE  /\ Best(plans) \in Int
         /\ \E option \in plans : option.objective = Best(plans)
         /\ \A option \in plans : option.objective <= Best(plans)
<1> DEFINE S == {option.objective : option \in plans}
<1>1. /\ IsFiniteSet(plans) /\ plans # {}
      /\ \A option \in plans : option.objective \in Int
  BY MemoryAssumption
<1>2. IsFiniteSet(S)
  <2> DEFINE f == [option \in plans |-> option.objective]
  <2>1. f \in Surjection(plans, S)
    BY DEF Surjection
  <2> QED
    BY <1>1, <2>1, FS_Surjection
<1>3. S # {} /\ S \in SUBSET Int
  BY <1>1
<1> HIDE DEF S
<1>4. Largest(S) \in S /\ \A y \in S : y <= Largest(S)
  BY <1>2, <1>3, LargestExists
<1> QED
  BY <1>3, <1>4 DEF S, Best

\* What is multiplied by a positive number and not above as often a hundred.
LEMMA Divided ==
  ASSUME NEW t \in Nat \ {0}, NEW d \in Int, t * d <= 100 * t
  PROVE  d <= 100
<1>1. SUFFICES ASSUME d >= 101 PROVE FALSE
  OBVIOUS
<1>2. t * (d - 100) >= t
  BY <1>1, SMTT(30)
<1>3. t * (d - 100) = t * d - t * 100
  BY SMTT(30)
<1> QED
  BY <1>2, <1>3

\* A plan that is chosen is behind the best one by at most the largest score, and
\* in the cold start by nothing.
LEMMA ChosenIsClose ==
  ASSUME NEW plans \in PlanSets, NEW m \in MemoryType,
         \A p \in Profiles : m.counts[p] <= m.total, NEW option \in Chosen(m, plans)
  PROVE  /\ Best(plans) - option.objective \in Int
         /\ Best(plans) - option.objective <= MaxPreference
         /\ m.total < ColdStartRuns => Best(plans) - option.objective = 0
<1>1. /\ Best(plans) \in Int /\ \E best \in plans : best.objective = Best(plans)
      /\ \A best \in plans : best.objective <= Best(plans)
  BY BestExists
<1>2. option \in plans
  BY DEF Chosen
<1>3. \A p \in plans : p.profile \in Profiles /\ p.objective \in Int /\ p.similar \in BOOLEAN
  BY MemoryAssumption
<1>4. m.total \in Nat /\ \A p \in Profiles : m.counts[p] \in Nat
  BY DEF MemoryType
<1>5. ColdStartRuns \in Nat \ {0}
  BY MemoryAssumption
<1>6. CASE m.total < ColdStartRuns
  <2>1. option.objective = Best(plans)
    BY <1>6 DEF Chosen
  <2> QED
    BY <1>1, <2>1 DEF MaxPreference
<1>7. CASE ~(m.total < ColdStartRuns)
  <2>1. PICK best \in plans : best.objective = Best(plans)
    BY <1>1
  <2> DEFINE t == m.total
             c(p) == m.counts[p.profile]
             n(p) == t * One(p.similar)
             d == best.objective - option.objective
  <2>2. Rank(m, best) <= Rank(m, option)
    BY <1>7 DEF Chosen
  <2>3. t \in Nat \ {0}
    BY <1>4, <1>5, <1>7
  <2>4. \A p \in plans : c(p) \in 0..t /\ n(p) \in 0..t
    <3>1. \A p \in plans : One(p.similar) \in {0, 1}
      BY <1>3 DEF One
    <3>2. t * 0 = 0 /\ t * 1 = t
      BY <2>3
    <3> QED
      BY <1>3, <1>4, <2>3, <3>1, <3>2
  <2>5. \A p \in plans : Rank(m, p) = 100 * (t * p.objective) + 7000 * c(p) + 3000 * n(p)
    <3> TAKE p \in plans
    <3>1. /\ Rank(m, p) = t * 100 * p.objective + 100 * (70 * c(p) + 30 * t * One(p.similar))
      BY DEF Rank, MaxPreference, ProfileWeight, SimilarityWeight
    <3>2. p.objective \in Int /\ One(p.similar) \in Int /\ c(p) \in Int /\ t \in Int
      BY <1>3, <2>3, <2>4 DEF One
    <3> HIDE DEF c, t
    <3>3. t * 100 * p.objective = 100 * (t * p.objective)
      BY <3>2
    <3>4. 30 * t * One(p.similar) = 30 * (t * One(p.similar)) /\ t * One(p.similar) \in Int
      BY <3>2
    <3> QED
      BY <3>1, <3>2, <3>3, <3>4
  <2>6. t * best.objective \in Int /\ t * option.objective \in Int /\ d \in Int
        /\ t * d = t * best.objective - t * option.objective
    BY <1>2, <1>3, <2>3
  <2>7. t * d <= 100 * t
    <3> HIDE DEF c, n, d
    <3>1. 100 * (t * best.objective) + 7000 * c(best) + 3000 * n(best)
            <= 100 * (t * option.objective) + 7000 * c(option) + 3000 * n(option)
      BY <1>2, <2>2, <2>5
    <3>2. c(best) \in 0..t /\ n(best) \in 0..t /\ c(option) \in 0..t /\ n(option) \in 0..t
      BY <1>2, <2>4
    <3> DEFINE x == t * best.objective
               y == t * option.objective
               z == t * d
    <3>3. x \in Int /\ y \in Int /\ z = x - y
          /\ 100 * x + 7000 * c(best) + 3000 * n(best) <= 100 * y + 7000 * c(option) + 3000 * n(option)
      BY <2>6, <3>1
    <3> HIDE DEF x, y, z
    <3>4. z <= 100 * t
      BY <2>3, <3>2, <3>3
    <3> QED
      BY <3>4 DEF z
  <2>8. d <= 100
    BY <2>3, <2>6, <2>7, Divided
  <2> QED
    BY <1>7, <2>1, <2>6, <2>8 DEF MaxPreference
<1> QED
  BY <1>6, <1>7

\* However often a profile was chosen and whatever overlaps and fails, the
\* personalized plan gives up at most MAX_PREF_SCORE, and nothing before
\* COLD_START_RUNS.  It rests on the counters: no profile is counted more often
\* than the runs that the rank divides by.
THEOREM PreferenceOutweighs == MemorySpec => []PreferenceOutweighsAtMost
<1> DEFINE Near == advice.behind \in Int /\ PreferenceOutweighsAtMost
<1>1. MemoryInit => MemoryInv /\ Near
  BY MemoryInvInit, MemoryAssumption DEF MemoryInit, PreferenceOutweighsAtMost, MaxPreference
<1>2. MemoryInv /\ Near /\ [MemoryNext]_memoryVars => MemoryInv' /\ Near'
  <2> SUFFICES ASSUME MemoryInv, Near, [MemoryNext]_memoryVars PROVE MemoryInv' /\ Near'
    OBVIOUS
  <2>1. MemoryInv'
    BY MemoryInvStep, MemoryAssumption
  <2>2. ASSUME NEW plans \in PlanSets, NEW m \in {memory, EmptyMemory}, Recommend(plans, m)
        PROVE  Near'
    <3>1. PICK option \in Chosen(m, plans) :
            advice' = [behind |-> Best(plans) - option.objective, cold |-> m.total < ColdStartRuns]
      BY <2>2 DEF Recommend
    <3>2. m \in MemoryType /\ \A p \in Profiles : m.counts[p] <= m.total
      BY DEF MemoryInv, MemoryTypeInv, CountsRight, ConfidenceInRange, EmptyMemory, MemoryType
    <3>3. advice'.behind = Best(plans) - option.objective /\ (advice'.cold <=> m.total < ColdStartRuns)
      BY <3>1
    <3> QED
      BY <3>2, <3>3, ChosenIsClose DEF PreferenceOutweighsAtMost
  <2>3. ASSUME UNCHANGED advice PROVE Near'
    BY <2>3 DEF PreferenceOutweighsAtMost
  <2> QED
    BY <2>1, <2>2, <2>3 DEF MemoryNext, memoryVars, Acquire, Load, SaveMemory, CommitMemory, Abort
<1>3. Near => PreferenceOutweighsAtMost
  OBVIOUS
<1> QED
  BY <1>1, <1>2, <1>3, PTL DEF MemorySpec

-----------------------------------------------------------------------------
(* The language-model settings                                             *)

Stored == Settings(row.active, row.keys)
Publishing(a) == request[a].at = "publishing"

SettingsType ==
  /\ row \in [active : Providers \cup {NoProvider}, keys : [Providers -> Keys \cup {NoKey}],
              secret : Secrets \cup {NoRow.secret}]
  /\ row = NoRow \/ row.secret \in Secrets
  /\ secret \in Secrets
  /\ request \in [Admins -> [at : {"quiet", "selecting", "writing", "publishing"}, new : AllSettings,
                             removed : SUBSET Providers, found : BOOLEAN, alone : BOOLEAN]]
  /\ off \subseteq Providers /\ raced \in BOOLEAN

\* Everything that is used, stored or on its way is well formed; what is used or
\* stored, or is waiting to be used, was committed.
SettingsKnown ==
  /\ WellFormed(runtime) /\ WellFormed(Stored)
  /\ \A a \in Admins : WellFormed(request[a].new)
  /\ runtime \in saved \cup {Environment}
  /\ row = NoRow \/ Stored \in saved
  /\ \A a \in Admins : Publishing(a) => request[a].new \in saved

\* The environment is in use because the row does not validate.
FellBack == ~Validates(Stored) /\ runtime = Environment

\* Who waits alone to replace the snapshot will replace it with the row.
RowIsNext ==
  ~raced =>
    /\ \A a \in Admins : Publishing(a) =>
         /\ \A b \in Admins : Publishing(b) => b = a
         /\ request[a].new = Stored /\ row.secret = secret
    /\ row.secret = secret /\ (\A a \in Admins : ~Publishing(a)) => runtime = Stored \/ FellBack

SettingsInv == SettingsType /\ SettingsKnown /\ RowIsNext

\* A disconnected provider is in no settings on the way; a request that has met
\* no other is the only one, and once it has written the row is its own.
KeptOff ==
  /\ off \cap (Connected(runtime) \cup Connected(row)) = {}
  /\ \A a \in Admins : request[a].at # "quiet" =>
       /\ (off \cup request[a].removed) \cap Connected(request[a].new) = {}
       /\ request[a].alone =>
            /\ \A b \in Admins : request[b].at # "quiet" => b = a
            /\ Publishing(a) => row.keys = request[a].new.keys

\* A disconnect whose result validates leaves settings as a payload is, without
\* the providers removed.
LEMMA WithoutWellFormed ==
  ASSUME NEW s, WellFormed(s), NEW removed \in SUBSET Providers, Validates(Without(s, removed))
  PROVE  /\ WellFormed(Without(s, removed))
         /\ Connected(Without(s, removed)) = Connected(s) \ removed
<1> DEFINE w == Without(s, removed)
           rest == Connected(s) \ removed
<1>1. w.active = Active(s, rest) /\ w.keys = [p \in Providers |-> IF p \in removed THEN NoKey ELSE s.keys[p]]
  BY DEF Without, Settings
<1>2. w \in AllSettings
  <2>1. w.keys \in [Providers -> Keys \cup {NoKey}]
    BY <1>1 DEF WellFormed, AllSettings
  <2>2. Active(s, rest) \in Providers \cup {NoProvider}
    BY DEF Active, Connected, WellFormed, AllSettings
  <2> QED
    BY <1>1, <2>1, <2>2 DEF AllSettings, Without, Settings
<1>3. Connected(w) = rest
  BY <1>1 DEF Connected
<1>4. IF rest = {} THEN Active(s, rest) = NoProvider ELSE Active(s, rest) \in rest
  BY DEF Active
<1> QED
  BY <1>1, <1>2, <1>3, <1>4 DEF WellFormed, Validates

\* The rows and the chat that are there at the start are sound.
LEMMA SettingsInitially == SettingsInit => SettingsInv /\ KeptOff
<1> SUFFICES ASSUME SettingsInit PROVE SettingsInv /\ KeptOff
  OBVIOUS
<1>1. WellFormed(Environment) /\ NoRow.secret \notin Secrets
  BY SettingsAssumption
<1>2. /\ NoRow.active = NoProvider /\ NoRow.secret = "none"
      /\ NoRow.keys = [p \in Providers |-> NoKey]
  BY DEF NoRow
<1>3. /\ NoRow \in [active : Providers \cup {NoProvider}, keys : [Providers -> Keys \cup {NoKey}],
                    secret : Secrets \cup {NoRow.secret}]
  BY DEF NoRow
<1>4. Quiet \in [at : {"quiet", "selecting", "writing", "publishing"}, new : AllSettings,
                 removed : SUBSET Providers, found : BOOLEAN, alone : BOOLEAN]
  BY <1>1 DEF Quiet, WellFormed
<1>5. SettingsType
  BY <1>3, <1>4 DEF SettingsInit, SettingsType
<1>6. WellFormed(Settings(NoRow.active, NoRow.keys))
  BY <1>2 DEF WellFormed, Settings, AllSettings, Connected
<1>7. \A a \in Admins : request[a].at = "quiet" /\ request[a].new = Environment
  BY DEF SettingsInit, Quiet
<1>8. SettingsKnown
  BY <1>1, <1>6, <1>7 DEF SettingsInit, SettingsKnown, Stored, Publishing
<1>9. RowIsNext
  BY <1>1, <1>7 DEF SettingsInit, RowIsNext, Publishing, Stored
<1>10. KeptOff
  BY <1>7 DEF SettingsInit, KeptOff
<1> QED
  BY <1>5, <1>8, <1>9, <1>10 DEF SettingsInv

\* No save, disconnection or chat makes the rows or the chat unsound.
LEMMA SettingsStep == SettingsInv /\ KeptOff /\ [SettingsNext]_settingsVars => SettingsInv' /\ KeptOff'
<1> SUFFICES ASSUME SettingsInv, KeptOff, [SettingsNext]_settingsVars PROVE SettingsInv' /\ KeptOff'
  OBVIOUS
<1> DEFINE RequestType == [at : {"quiet", "selecting", "writing", "publishing"}, new : AllSettings,
                           removed : SUBSET Providers, found : BOOLEAN, alone : BOOLEAN]
<1>0. /\ SettingsType /\ SettingsKnown /\ RowIsNext
      /\ request \in [Admins -> RequestType]
      /\ \A s \in Payloads \cup {Environment} : WellFormed(s)
      /\ NoRow.secret \notin Secrets
  BY SettingsAssumption DEF SettingsInv, SettingsType
<1>1. ASSUME NEW a \in Admins, NEW r \in RequestType, Begins(a, r), WellFormed(r.new),
             r.at = "selecting", off' \subseteq off, (off' \cup r.removed) \cap Connected(r.new) = {}
      PROVE  SettingsInv' /\ KeptOff'
  <2> DEFINE mine == [r EXCEPT !.alone = (Others(a) = {})]
  <2>1. mine \in RequestType /\ mine.at = "selecting" /\ mine.new = r.new /\ mine.removed = r.removed
        /\ (mine.alone <=> Others(a) = {})
    BY <1>1
  <2>2. \A b \in Admins : LET his == [request[b] EXCEPT !.alone = FALSE] IN
          /\ his \in RequestType /\ his.at = request[b].at /\ his.new = request[b].new
          /\ his.removed = request[b].removed /\ his.alone = FALSE
    BY <1>0
  <2>3. request' = [b \in Admins |-> IF b = a THEN mine ELSE [request[b] EXCEPT !.alone = FALSE]]
    BY <1>1 DEF Begins
  <2> HIDE DEF mine
  <2>4. request' \in [Admins -> RequestType]
    BY <2>1, <2>2, <2>3
  <2>5. /\ request'[a] = mine /\ request[a].at = "quiet"
        /\ \A b \in Admins \ {a} :
             /\ request'[b].at = request[b].at /\ request'[b].new = request[b].new
             /\ request'[b].removed = request[b].removed /\ request'[b].alone = FALSE
    BY <1>1, <2>2, <2>3 DEF Begins
  <2>6. UNCHANGED <<row, runtime, secret, saved, raced>>
    BY <1>1 DEF Begins
  <2>7. UNCHANGED <<Stored, FellBack>>
    BY <2>6 DEF Stored, FellBack, Validates, Connected
  <2>8. \A b \in Admins : Publishing(b)' <=> Publishing(b)
    BY <2>1, <2>5 DEF Publishing
  <2>9. SettingsType'
    BY <1>0, <1>1, <2>4, <2>6 DEF SettingsType
  <2>10. SettingsKnown'
    <3>1. \A b \in Admins : WellFormed(request'[b].new)
      BY <1>0, <1>1, <2>1, <2>5 DEF SettingsKnown
    <3>2. \A b \in Admins : Publishing(b) => b # a
      BY <2>5 DEF Publishing
    <3> QED
      BY <1>0, <2>5, <2>6, <2>7, <2>8, <3>1, <3>2 DEF SettingsKnown
  <2>11. RowIsNext'
    BY <1>0, <2>5, <2>6, <2>7, <2>8 DEF RowIsNext, Publishing
  <2>12. KeptOff'
    <3>1. off' \cap (Connected(runtime) \cup Connected(row)) = {}
      BY <1>1 DEF KeptOff
    <3>2. ASSUME NEW b \in Admins, request'[b].at # "quiet"
          PROVE  /\ (off' \cup request'[b].removed) \cap Connected(request'[b].new) = {}
                 /\ request'[b].alone =>
                      /\ \A c \in Admins : request'[c].at # "quiet" => c = b
                      /\ Publishing(b)' => row.keys = request'[b].new.keys
      <4>1. CASE b = a
        BY <1>1, <2>1, <2>5, <4>1 DEF Others, Publishing
      <4>2. CASE b # a
        <5>1. /\ (off \cup request[b].removed) \cap Connected(request[b].new) = {}
          BY <2>5, <3>2, <4>2 DEF KeptOff
        <5> QED
          BY <1>1, <2>5, <4>2, <5>1
      <4> QED
        BY <4>1, <4>2
    <3>3. UNCHANGED <<Connected(runtime), Connected(row)>>
      BY <2>6 DEF Connected
    <3>4. \A b \in Admins : Connected(request[b].new)' = Connected(request'[b].new)
      BY DEF Connected
    <3> QED
      BY <2>6, <3>1, <3>2, <3>3, <3>4 DEF KeptOff
  <2> QED
    BY <2>9, <2>10, <2>11, <2>12 DEF SettingsInv
<1>2. ASSUME NEW a \in Admins, NEW s \in Payloads, Submit(a, s)
      PROVE  SettingsInv' /\ KeptOff'
  <2> DEFINE r == [Quiet EXCEPT !.at = "selecting", !.new = s]
  <2>1. r.at = "selecting" /\ r.new = s /\ r.removed = {} /\ r \in RequestType
    BY <1>0 DEF Quiet, WellFormed
  <2>2. Begins(a, r) /\ off' = off \ Connected(s) /\ WellFormed(s)
    BY <1>0, <1>2 DEF Submit
  <2> HIDE DEF r
  <2> QED
    BY <1>1, <2>1, <2>2
<1>3. ASSUME NEW a \in Admins, NEW removed \in SUBSET Providers, DisconnectProviders(a, removed)
      PROVE  SettingsInv' /\ KeptOff'
  <2> DEFINE new == Without(runtime, removed)
             r == [Quiet EXCEPT !.at = "selecting", !.new = new, !.removed = removed]
  <2>2. Begins(a, r) /\ off' = off /\ Validates(new)
    BY <1>3 DEF DisconnectProviders
  <2>1. WellFormed(new) /\ Connected(new) = Connected(runtime) \ removed
    BY <1>0, <2>2, WithoutWellFormed DEF SettingsKnown
  <2> HIDE DEF new
  <2>3. r.at = "selecting" /\ r.new = new /\ r.removed = removed /\ r \in RequestType
    BY <1>0, <2>1 DEF Quiet, WellFormed
  <2>4. (off' \cup removed) \cap Connected(new) = {}
    BY <2>1, <2>2 DEF KeptOff
  <2> HIDE DEF r
  <2> QED
    BY <1>1, <2>1, <2>2, <2>3, <2>4
<1>4. ASSUME NEW a \in Admins, NEW r \in RequestType, Becomes(a, r), WellFormed(r.new),
             ~Publishing(a), r.at # "publishing", r.at = "quiet" \/ (request[a].at # "quiet"
               /\ r.new = request[a].new /\ r.removed = request[a].removed /\ r.alone = request[a].alone)
      PROVE  SettingsInv' /\ KeptOff'
  <2>1. request' \in [Admins -> RequestType] /\ request'[a] = r
        /\ \A b \in Admins \ {a} : request'[b] = request[b]
    BY <1>0, <1>4 DEF Becomes
  <2>2. UNCHANGED <<row, runtime, secret, saved, off, raced>>
    BY <1>4 DEF Becomes
  <2>3. \A b \in Admins : (Publishing(b)' <=> Publishing(b)) /\ (Publishing(b) => b # a)
    BY <1>4, <2>1 DEF Publishing
  <2>4. SettingsType'
    BY <1>0, <2>1, <2>2 DEF SettingsType
  <2>5. UNCHANGED <<Stored, Connected(runtime), Connected(row), FellBack>>
    BY <2>2 DEF Stored, Connected, FellBack, Validates
  <2>6. SettingsKnown'
    <3>1. \A b \in Admins : WellFormed(request'[b].new)
      BY <1>0, <1>4, <2>1 DEF SettingsKnown
    <3> QED
      BY <1>0, <2>1, <2>2, <2>3, <2>5, <3>1 DEF SettingsKnown
  <2>7. RowIsNext'
    BY <1>0, <2>1, <2>2, <2>3, <2>5 DEF RowIsNext
  <2>8. KeptOff'
    <3>1. ASSUME NEW b \in Admins, request'[b].at # "quiet"
          PROVE  /\ (off \cup request'[b].removed) \cap Connected(request'[b].new) = {}
                 /\ request'[b].alone =>
                      /\ \A c \in Admins : request'[c].at # "quiet" => c = b
                      /\ Publishing(b)' => row.keys = request'[b].new.keys
      <4>1. /\ request[b].at # "quiet" /\ request'[b].new = request[b].new
            /\ request'[b].removed = request[b].removed /\ request'[b].alone = request[b].alone
        BY <1>4, <2>1, <3>1
      <4>2. \A c \in Admins : request'[c].at # "quiet" => request[c].at # "quiet"
        BY <1>4, <2>1
      <4> QED
        BY <2>3, <4>1, <4>2 DEF KeptOff
    <3>2. \A b \in Admins : Connected(request[b].new)' = Connected(request'[b].new)
      BY DEF Connected
    <3> QED
      BY <2>2, <2>5, <3>1, <3>2 DEF KeptOff
  <2> QED
    BY <2>4, <2>6, <2>7, <2>8 DEF SettingsInv
<1>5. ASSUME NEW a \in Admins, SelectRow(a)
      PROVE  SettingsInv' /\ KeptOff'
  <2> DEFINE r == [request[a] EXCEPT !.at = "writing", !.found = (row # NoRow)]
  <2>1. r \in RequestType /\ r.at = "writing" /\ r.new = request[a].new
        /\ r.removed = request[a].removed /\ r.alone = request[a].alone
    BY <1>0
  <2>2. Becomes(a, r) /\ request[a].at = "selecting"
    BY <1>5 DEF SelectRow
  <2> HIDE DEF r
  <2>3. WellFormed(r.new)
    BY <1>0, <2>1 DEF SettingsKnown
  <2> QED
    BY <1>4, <2>1, <2>2, <2>3 DEF Publishing
<1>6. ASSUME NEW a \in Admins, Fail(a)
      PROVE  SettingsInv' /\ KeptOff'
  <2>1. Quiet \in RequestType /\ Quiet.at = "quiet" /\ Quiet.new = Environment
    BY <1>0 DEF Quiet, WellFormed
  <2>2. Becomes(a, Quiet) /\ ~Publishing(a)
    BY <1>6 DEF Fail, Publishing
  <2> QED
    BY <1>0, <1>4, <2>1, <2>2
<1>7. ASSUME NEW a \in Admins, CommitRow(a)
      PROVE  SettingsInv' /\ KeptOff'
  <2> DEFINE new == request[a].new
  <2>1. /\ request[a].at = "writing"
        /\ row' = [active |-> new.active, keys |-> new.keys, secret |-> secret]
        /\ saved' = {new} \cup (saved \cap ({runtime} \cup {request[b].new : b \in Admins}))
        /\ raced' = (\E b \in Admins : Publishing(b))
        /\ UNCHANGED <<runtime, secret, off>>
    BY <1>7 DEF CommitRow, Publishing
  <2>2. /\ request' \in [Admins -> RequestType]
        /\ request'[a] = [request[a] EXCEPT !.at = "publishing"]
        /\ \A b \in Admins \ {a} : request'[b] = request[b]
    BY <1>0, <1>7 DEF CommitRow
  <2>3. /\ request'[a].at = "publishing" /\ request'[a].new = new
        /\ request'[a].removed = request[a].removed /\ request'[a].alone = request[a].alone
    BY <1>0, <2>2
  <2>4. \A b \in Admins : (Publishing(b)' <=> b = a \/ Publishing(b)) /\ request'[b].new = request[b].new
    BY <2>2, <2>3 DEF Publishing
  <2>5. WellFormed(new) /\ new \in AllSettings /\ Connected(new) = Connected(row')
    BY <1>0, <2>1 DEF SettingsKnown, WellFormed, Connected
  <2>6. Stored' = new
    BY <2>1, <2>5 DEF Stored, Settings, AllSettings
  <2>7. secret \in Secrets /\ row'.secret = secret /\ row'.keys = new.keys
    BY <1>0, <2>1 DEF SettingsType
  <2> HIDE DEF new
  <2>8. SettingsType'
    <3>1. row' \in [active : Providers \cup {NoProvider}, keys : [Providers -> Keys \cup {NoKey}],
                    secret : Secrets \cup {NoRow.secret}]
      BY <2>1, <2>5, <2>7 DEF AllSettings
    <3> QED
      BY <1>0, <2>1, <2>2, <2>7, <3>1 DEF SettingsType
  <2>9. SettingsKnown'
    <3>1. \A b \in Admins : Publishing(b)' => request'[b].new \in saved'
      BY <1>0, <2>1, <2>2, <2>3, <2>4 DEF SettingsKnown
    <3>2. runtime \in saved' \cup {Environment}
      BY <1>0, <2>1 DEF SettingsKnown
    <3>3. Stored' \in saved'
      BY <2>1, <2>6
    <3> QED
      BY <1>0, <2>1, <2>4, <2>5, <2>6, <3>1, <3>2, <3>3 DEF SettingsKnown
  <2>10. RowIsNext'
    BY <2>1, <2>3, <2>4, <2>6, <2>7 DEF RowIsNext
  <2>11. KeptOff'
    <3>1. request[a].at # "quiet" /\ off \cap Connected(row') = {}
      BY <2>1, <2>5 DEF KeptOff, new
    <3>2. ASSUME NEW b \in Admins, request'[b].at # "quiet"
          PROVE  /\ (off \cup request'[b].removed) \cap Connected(request'[b].new) = {}
                 /\ request'[b].alone =>
                      /\ \A c \in Admins : request'[c].at # "quiet" => c = b
                      /\ Publishing(b)' => row'.keys = request'[b].new.keys
      <4>1. /\ request[b].at # "quiet" /\ request'[b].new = request[b].new
            /\ request'[b].removed = request[b].removed /\ request'[b].alone = request[b].alone
        BY <2>1, <2>2, <2>3, <3>2 DEF new
      <4>2. \A c \in Admins : request'[c].at # "quiet" => request[c].at # "quiet"
        BY <2>1, <2>2
      <4>3. request[b].alone => b = a
        BY <3>1, <4>1 DEF KeptOff
      <4>4. (off \cup request[b].removed) \cap Connected(request[b].new) = {}
        BY <4>1 DEF KeptOff
      <4>5. request[b].alone => \A c \in Admins : request[c].at # "quiet" => c = b
        BY <4>1 DEF KeptOff
      <4> QED
        BY <2>3, <2>7, <4>1, <4>2, <4>3, <4>4, <4>5
    <3>3. UNCHANGED Connected(runtime) /\ Connected(row)' = Connected(row')
      BY <2>1 DEF Connected
    <3>4. \A b \in Admins : Connected(request[b].new)' = Connected(request'[b].new)
      BY DEF Connected
    <3>5. off \cap Connected(runtime) = {}
      BY DEF KeptOff
    <3> QED
      BY <2>1, <3>1, <3>2, <3>3, <3>4, <3>5 DEF KeptOff
  <2> QED
    BY <2>8, <2>9, <2>10, <2>11 DEF SettingsInv
<1>8. ASSUME NEW a \in Admins, Publish(a)
      PROVE  SettingsInv' /\ KeptOff'
  <2>1. /\ Publishing(a) /\ request[a].at # "quiet"
        /\ runtime' = request[a].new
        /\ off' = IF request[a].alone THEN off \cup request[a].removed ELSE off
        /\ UNCHANGED <<row, secret, saved, raced>>
    BY <1>8 DEF Publish, InUse, Publishing
  <2>2. Quiet \in RequestType /\ Quiet.at = "quiet" /\ Quiet.new = Environment
    BY <1>0 DEF Quiet, WellFormed
  <2>3. /\ request' \in [Admins -> RequestType] /\ request'[a] = Quiet
        /\ \A b \in Admins \ {a} : request'[b] = request[b]
    BY <1>0, <1>8, <2>2 DEF Publish
  <2>4. \A b \in Admins : Publishing(b)' <=> Publishing(b) /\ b # a
    BY <2>2, <2>3 DEF Publishing
  <2>5. UNCHANGED <<Stored, Connected(row)>> /\ Connected(runtime)' = Connected(request[a].new)
    BY <2>1 DEF Stored, Connected
  <2>6. SettingsType'
    <3>1. off' \subseteq Providers
      BY <1>0, <2>1 DEF SettingsType
    <3> QED
      BY <1>0, <2>1, <2>3, <3>1 DEF SettingsType
  <2>7. SettingsKnown'
    <3>1. \A b \in Admins : WellFormed(request'[b].new)
      BY <1>0, <2>2, <2>3 DEF SettingsKnown
    <3> QED
      BY <1>0, <2>1, <2>3, <2>4, <2>5, <3>1 DEF SettingsKnown
  <2>8. RowIsNext'
    BY <1>0, <2>1, <2>3, <2>4, <2>5 DEF RowIsNext
  <2>9. KeptOff'
    <3>1. off' \cap (Connected(request[a].new) \cup Connected(row)) = {}
      <4>1. (off \cup request[a].removed) \cap Connected(request[a].new) = {}
        BY <2>1 DEF KeptOff
      <4>2. request[a].alone => Connected(row) = Connected(request[a].new)
        BY <2>1 DEF KeptOff, Connected
      <4>3. off \cap Connected(row) = {}
        BY DEF KeptOff
      <4> QED
        BY <2>1, <4>1, <4>2, <4>3
    <3>2. ASSUME NEW b \in Admins, request'[b].at # "quiet"
          PROVE  /\ (off' \cup request'[b].removed) \cap Connected(request'[b].new) = {}
                 /\ request'[b].alone =>
                      /\ \A c \in Admins : request'[c].at # "quiet" => c = b
                      /\ Publishing(b)' => row.keys = request'[b].new.keys
      <4>1. b # a /\ request'[b] = request[b] /\ request[b].at # "quiet"
        BY <2>2, <2>3, <3>2
      <4>2. ~request[a].alone
        BY <2>1, <4>1 DEF KeptOff
      <4>3. ~request[b].alone
        BY <2>1, <4>1 DEF KeptOff
      <4> QED
        BY <2>1, <4>1, <4>2, <4>3 DEF KeptOff
    <3>3. \A b \in Admins : Connected(request[b].new)' = Connected(request'[b].new)
      BY DEF Connected
    <3> QED
      BY <2>1, <2>5, <3>1, <3>2, <3>3 DEF KeptOff
  <2> QED
    BY <2>6, <2>7, <2>8, <2>9 DEF SettingsInv
<1>9. ASSUME NEW key \in Secrets, Restart(key)
      PROVE  SettingsInv' /\ KeptOff'
  <2>1. /\ secret' = key /\ runtime' = Loaded(row, key)
        /\ off' = (IF Readable(row, key) THEN off ELSE off \ Connected(Environment))
        /\ raced' = FALSE /\ UNCHANGED <<row, saved>>
    BY <1>9 DEF Restart
  <2>2. Quiet \in RequestType /\ Quiet.at = "quiet" /\ Quiet.new = Environment
    BY <1>0 DEF Quiet, WellFormed
  <2>3. request' \in [Admins -> RequestType]
        /\ \A b \in Admins : request'[b].at = "quiet" /\ request'[b].new = Environment
    BY <1>9, <2>2 DEF Restart
  <2>4. /\ Readable(row, key) => runtime' = Stored /\ row # NoRow /\ row.secret = key
        /\ ~Readable(row, key) => runtime' = Environment
        /\ Readable(row, key) <=> row.secret = key /\ Validates(Stored)
    BY <1>0, <2>1 DEF Loaded, Stored, Readable
  <2>5. UNCHANGED <<Stored, Connected(row)>> /\ Validates(Stored)' = Validates(Stored)
    BY <2>1 DEF Stored, Connected, Validates
  <2>6. SettingsType'
    <3>1. off' \subseteq Providers
      BY <1>0, <2>1 DEF SettingsType
    <3> QED
      BY <1>0, <2>1, <2>3, <3>1 DEF SettingsType
  <2>7. SettingsKnown'
    <3>1. WellFormed(runtime)' = WellFormed(runtime') /\ \A b \in Admins : ~Publishing(b)'
      BY <2>3 DEF WellFormed, Connected, Publishing
    <3>2. WellFormed(runtime') /\ runtime' \in saved \cup {Environment}
      BY <1>0, <2>4 DEF SettingsKnown
    <3> QED
      BY <1>0, <2>1, <2>3, <2>5, <3>1, <3>2 DEF SettingsKnown
  <2>8. RowIsNext'
    BY <2>1, <2>3, <2>4, <2>5 DEF RowIsNext, Publishing, FellBack
  <2>9. KeptOff'
    <3>1. off \cap Connected(row) = {}
      BY DEF KeptOff
    <3>2. Connected(row) = Connected(Stored)
      BY DEF Connected, Stored, Settings
    <3>3. CASE Readable(row, key)
      <4>1. Connected(runtime)' = Connected(row) /\ off' = off
        BY <2>1, <2>4, <3>2, <3>3 DEF Connected
      <4> QED
        BY <2>3, <2>5, <3>1, <4>1 DEF KeptOff
    <3>4. CASE ~Readable(row, key)
      <4>1. Connected(runtime)' = Connected(Environment) /\ off' = off \ Connected(Environment)
        BY <2>1, <2>4, <3>4 DEF Connected
      <4> QED
        BY <2>3, <2>5, <3>1, <4>1 DEF KeptOff
    <3> QED
      BY <3>3, <3>4
  <2> QED
    BY <2>6, <2>7, <2>8, <2>9 DEF SettingsInv
<1>10. CASE UNCHANGED settingsVars
  BY <1>0, <1>10 DEF settingsVars, SettingsInv, SettingsType, SettingsKnown, RowIsNext, KeptOff,
     Publishing, Stored, FellBack, Validates, WellFormed, Connected
<1>11. CASE SettingsNext
  <2>1. Providers \in SUBSET Providers /\ \A p \in Providers : {p} \in SUBSET Providers
    OBVIOUS
  <2> QED
    BY <1>2, <1>3, <1>5, <1>6, <1>7, <1>8, <1>9, <1>11, <2>1 DEF SettingsNext
<1> QED
  BY <1>10, <1>11

\* Both hold of every reachable state of the settings.
LEMMA SettingsInvariant == SettingsSpec => [](SettingsInv /\ KeptOff)
BY SettingsInitially, SettingsStep, PTL DEF SettingsSpec

\* Whatever requests overlap, fail or are cut off by a restart, with the same
\* secret or another: the settings in use are well formed, were committed or come
\* from the environment, and are those of the row once no commit is waiting, or of
\* the environment where the row does not validate.
THEOREM SettingsStaySound == SettingsSpec => []SettingsSound
<1>1. SettingsInv => SettingsSound
  <2> SUFFICES ASSUME SettingsInv PROVE SettingsSound
    OBVIOUS
  <2>1. SettingsTypeOK
    <3>1. Settings(row.active, row.keys) \in AllSettings
      BY DEF SettingsInv, SettingsKnown, WellFormed, Stored
    <3> QED
      BY <3>1 DEF SettingsInv, SettingsType, SettingsKnown, SettingsTypeOK
  <2>2. OnlySavedInUse /\ SnapshotFollowsRow
    BY DEF SettingsInv, SettingsKnown, RowIsNext, OnlySavedInUse, SnapshotFollowsRow, Publishing, Stored,
       FellBack
  <2> QED
    BY <2>1, <2>2 DEF SettingsSound
<1> QED
  BY <1>1, SettingsInvariant, PTL

\* A provider disconnected by a request that met no other is neither used nor
\* stored until it is submitted again, or until a restart cannot read the row and
\* finds the provider in the environment.
THEOREM DisconnectedStay == SettingsSpec => []DisconnectedStaysOff
<1>1. KeptOff => DisconnectedStaysOff
  BY DEF KeptOff, DisconnectedStaysOff
<1> QED
  BY <1>1, SettingsInvariant, PTL

-----------------------------------------------------------------------------
(* The planner                                                             *)

Placing == outcome \in {"Balanced", "SLA-First"}
Full(s) == LoadUnder(plan, s) >= input.capacity[s]

PlannerType ==
  /\ PlannerTypeOK /\ todo \subseteq Backlog
  /\ outcome \in {"none", "Balanced", "SLA-First", "OPTIMAL", "FEASIBLE", "INFEASIBLE",
                  "TIME_LIMIT", "GREEDY"}
  /\ outcome = "none" => todo = {} /\ plan = NoPlan

\* What the greedy loop has passed by had no room, and there is never more room
\* later in the loop.
PassedByFull ==
  Placing \/ outcome = "GREEDY" =>
    \A i \in Backlog \ (todo \cup Planned(plan)), s \in Specialists :
      input.status[i] = "OPEN" /\ Allowed(i, s) => Full(s)

PlannerInv ==
  /\ PlannerType /\ PlanFits /\ ConfirmedNotPlannedAgain
  /\ PassedByFull /\ InfeasibleOnlyIfOverloaded

\* How many incidents a specialist has in a plan is a number.
LEMMA PlannedCount ==
  ASSUME NEW p, NEW s
  PROVE  Cardinality({i \in Backlog : p[i] = s}) \in Nat
BY PlannerAssumption, FS_Subset, FS_CardinalityType

\* The plan without any assignment plans nobody and adds nothing to the load.
LEMMA EmptyPlan ==
  /\ NoPlan \in Plans /\ Planned(NoPlan) = {}
  /\ \A s \in Specialists : LoadUnder(NoPlan, s) = input.load[s] + 0
<1>1. \A s \in Specialists : {i \in Backlog : NoPlan[i] = s} = {}
  BY PlannerAssumption DEF NoPlan
<1>2. \A s \in Specialists : Cardinality({i \in Backlog : NoPlan[i] = s}) = 0
  BY <1>1, FS_EmptySet
<1> QED
  BY <1>2 DEF NoPlan, Plans, Planned, LoadUnder

\* One more incident for a specialist is one more in his load and leaves the
\* others' as they are.
LEMMA PlaceLoad ==
  ASSUME input \in InputShape, plan \in Plans, NEW i \in Backlog, plan[i] = Nobody,
         NEW s \in Specialists, plan' = [plan EXCEPT ![i] = s]
  PROVE  /\ plan' \in Plans /\ Planned(plan') = Planned(plan) \cup {i}
         /\ LoadUnder(plan', s) = LoadUnder(plan, s) + 1
         /\ \A t \in Specialists \ {s} : LoadUnder(plan', t) = LoadUnder(plan, t)
         /\ \A t \in Specialists : LoadUnder(plan, t) \in Nat
<1> DEFINE p == plan'
           Of(q, t) == {j \in Backlog : q[j] = t}
<1>1. p \in Plans /\ p[i] = s /\ \A j \in Backlog \ {i} : p[j] = plan[j]
  BY DEF Plans
<1>2. s # Nobody /\ IsFiniteSet(Backlog)
  BY PlannerAssumption
<1>3. Planned(p) = Planned(plan) \cup {i}
  BY <1>1, <1>2 DEF Planned
<1>4. Of(p, s) = Of(plan, s) \cup {i} /\ i \notin Of(plan, s)
  BY <1>1, <1>2
<1>5. \A t \in Specialists \ {s} : Of(p, t) = Of(plan, t)
  BY <1>1, PlannerAssumption
<1>6. IsFiniteSet(Of(plan, s)) /\ \A t \in Specialists : Cardinality(Of(plan, t)) \in Nat
  <2>1. \A t : Of(plan, t) \in SUBSET Backlog
    OBVIOUS
  <2> HIDE DEF Of
  <2> QED
    BY <1>2, <2>1, FS_Subset, FS_CardinalityType
<1>7. Cardinality(Of(p, s)) = Cardinality(Of(plan, s)) + 1
  BY <1>4, <1>6, FS_AddElement
<1>8. \A t \in Specialists : input.load[t] \in Nat
  BY DEF InputShape
<1>10. LoadUnder(p, s) = LoadUnder(plan, s) + 1
  <2>1. /\ LoadUnder(plan, s) = input.load[s] + Cardinality(Of(plan, s))
        /\ LoadUnder(p, s) = input.load[s] + Cardinality(Of(p, s))
    BY DEF LoadUnder
  <2>2. input.load[s] \in Nat /\ Cardinality(Of(plan, s)) \in Nat
    BY <1>6, <1>8
  <2> QED
    BY <1>7, <2>1, <2>2
<1>11. ASSUME NEW t \in Specialists PROVE LoadUnder(plan, t) \in Nat
  <2>1. LoadUnder(plan, t) = input.load[t] + Cardinality(Of(plan, t))
    BY DEF LoadUnder
  <2>2. input.load[t] \in Nat /\ Cardinality(Of(plan, t)) \in Nat
    BY <1>6, <1>8
  <2> QED
    BY <2>1, <2>2
<1>12. ASSUME NEW t \in Specialists \ {s} PROVE LoadUnder(p, t) = LoadUnder(plan, t)
  <2>1. Of(p, t) = Of(plan, t)
    BY <1>5
  <2> QED
    BY <2>1 DEF LoadUnder
<1> QED
  BY <1>1, <1>3, <1>10, <1>11, <1>12

\* Before the first plan nothing is assigned.
LEMMA PlannerInitially == PlannerInit => PlannerInv
<1> SUFFICES ASSUME PlannerInit PROVE PlannerInv
  OBVIOUS
<1>1. plan = NoPlan /\ outcome = "none" /\ todo = {} /\ excluded = {} /\ round = 0 /\ input \in InputShape
  BY PlannerAssumption DEF PlannerInit
<1>2. plan \in Plans /\ Planned(plan) = {} /\ 0 \in 0..MaxReplan
  BY <1>1, EmptyPlan, PlannerAssumption
<1>3. PlannerTypeOK
  BY <1>1, <1>2 DEF PlannerTypeOK
<1> QED
  BY <1>1, <1>2, <1>3 DEF PlannerInv, PlannerType, PlanFits, ConfirmedNotPlannedAgain, PassedByFull, Placing,
     InfeasibleOnlyIfOverloaded

\* Every decision of the greedy planner, and what the solver may return, is sound.
LEMMA PlannerStep == PlannerInv /\ [PlannerNext]_plannerVars => PlannerInv'
<1> SUFFICES ASSUME PlannerInv, [PlannerNext]_plannerVars PROVE PlannerInv'
  OBVIOUS
<1>0. /\ input \in InputShape /\ excluded \subseteq Backlog \X Specialists
      /\ round \in 0..MaxReplan /\ plan \in Plans /\ MaxReplan \in Nat
      /\ todo \subseteq Backlog /\ todo \cap Planned(plan) = {} /\ (Ready => todo = {})
      /\ outcome = "none" => todo = {} /\ plan = NoPlan
      /\ outcome \in {"none", "Balanced", "SLA-First", "OPTIMAL", "FEASIBLE", "INFEASIBLE",
                      "TIME_LIMIT", "GREEDY"}
  BY PlannerAssumption DEF PlannerInv, PlannerType, PlannerTypeOK
<1>1. ASSUME outcome = "none", UNCHANGED <<input, excluded, round, todo>>, plan' = NoPlan,
             outcome' \in {"INFEASIBLE", "TIME_LIMIT"},
             outcome' = "INFEASIBLE" => FeasiblePlans = {}
      PROVE  PlannerInv'
  <2>1. plan' \in Plans /\ Planned(plan') = {}
    BY <1>1, EmptyPlan
  <2>2. Planned(plan)' = {} /\ todo' = {}
    BY <1>0, <1>1, <2>1 DEF Planned
  <2>3. PlannerType'
    BY <1>0, <1>1, <2>1, <2>2 DEF PlannerType, PlannerTypeOK
  <2>4. ASSUME FeasiblePlans = {} PROVE Overloaded # {}
    <3>1. ~Feasible(NoPlan)
      BY <2>4, EmptyPlan DEF FeasiblePlans
    <3>2. PICK s \in Specialists : ~(LoadUnder(NoPlan, s) <= input.capacity[s])
      BY <3>1, EmptyPlan DEF Feasible, MayLeaveOut
    <3>3. input.load[s] \in Nat /\ input.capacity[s] \in Int /\ LoadUnder(NoPlan, s) = input.load[s] + 0
      BY <1>0, EmptyPlan DEF InputShape
    <3>4. input.load[s] > input.capacity[s]
      BY <3>2, <3>3
    <3> QED
      BY <3>4 DEF Overloaded
  <2>5. InfeasibleOnlyIfOverloaded'
    BY <1>1, <2>4 DEF InfeasibleOnlyIfOverloaded, Overloaded
  <2> QED
    BY <1>1, <2>2, <2>3, <2>5 DEF PlannerInv, PlanFits, ConfirmedNotPlannedAgain, PassedByFull, Placing
<1>2. ASSUME outcome = "none", NEW p \in FeasiblePlans, NEW status \in {"OPTIMAL", "FEASIBLE"}, Solved(status, p)
      PROVE  PlannerInv'
  <2>1. /\ outcome' = status /\ plan' = p /\ UNCHANGED <<input, excluded, round, todo>>
        /\ p \in Plans /\ Feasible(p) /\ todo = {}
    BY <1>0, <1>2 DEF Solved, FeasiblePlans
  <2>2. /\ \A i \in Planned(p) : i \in OpenForSolver /\ Allowed(i, p[i])
        /\ \A s \in Specialists : LoadUnder(p, s) <= input.capacity[s]
    BY <2>1 DEF Feasible
  <2>3. Planned(plan)' = Planned(p) /\ \A s : LoadUnder(plan, s)' = LoadUnder(p, s)
    BY <2>1 DEF Planned, LoadUnder
  <2>4. PlannerType'
    BY <1>0, <2>1 DEF PlannerType, PlannerTypeOK
  <2>5. PlanFits'
    <3> SUFFICES ASSUME NEW i \in Planned(p)
                 PROVE  <<i, p[i]>> \in input.able \ excluded /\ LoadUnder(p, p[i]) <= input.capacity[p[i]]
      BY <2>1, <2>3 DEF PlanFits
    <3>1. p[i] \in Specialists
      BY <2>1 DEF Planned, Plans
    <3> QED
      BY <2>2, <3>1 DEF Allowed
  <2>6. ConfirmedNotPlannedAgain'
    BY <2>1, <2>2, <2>3 DEF ConfirmedNotPlannedAgain, OpenForSolver
  <2>7. Overloaded = {}
    <3> SUFFICES ASSUME NEW s \in Specialists PROVE ~(input.load[s] > input.capacity[s])
      BY DEF Overloaded
    <3>1. input.load[s] \in Nat /\ input.capacity[s] \in Int
      BY <1>0 DEF InputShape
    <3>2. Cardinality({i \in Backlog : p[i] = s}) \in Nat
      BY PlannedCount
    <3>3. input.load[s] + Cardinality({i \in Backlog : p[i] = s}) <= input.capacity[s]
      BY <2>2 DEF LoadUnder
    <3> QED
      BY <3>1, <3>2, <3>3
  <2>8. InfeasibleOnlyIfOverloaded'
    BY <2>1, <2>7 DEF InfeasibleOnlyIfOverloaded, Overloaded
  <2> QED
    BY <2>1, <2>4, <2>5, <2>6, <2>8 DEF PlannerInv, PassedByFull, Placing
<1>3. ASSUME NEW w \in Weights, Solve(w) PROVE PlannerInv'
  <2>1. outcome = "none"
    BY <1>3 DEF Solve
  <2>2. CASE \E p \in LargestOf(LAMBDA q : Objective(w, q), FeasiblePlans) : Solved("OPTIMAL", p)
    <3>1. PICK p \in FeasiblePlans : Solved("OPTIMAL", p)
      BY <2>2 DEF LargestOf
    <3> QED
      BY <1>2, <2>1, <3>1
  <2>3. CASE \E p \in FeasiblePlans : Solved("FEASIBLE", p)
    BY <1>2, <2>1, <2>3
  <2>4. CASE FeasiblePlans = {} /\ Solved("INFEASIBLE", NoPlan)
    BY <1>1, <2>1, <2>4 DEF Solved
  <2>5. CASE Solved("TIME_LIMIT", NoPlan)
    BY <1>1, <2>1, <2>5 DEF Solved
  <2> QED
    BY <1>3, <2>2, <2>3, <2>4, <2>5 DEF Solve
<1>4. ASSUME StartGreedy PROVE PlannerInv'
  <2>1. /\ outcome = "none" /\ outcome' \in {"Balanced", "SLA-First"}
        /\ todo' = {i \in Backlog : input.status[i] = "OPEN"}
        /\ UNCHANGED <<input, excluded, round, plan>> /\ plan = NoPlan
    BY <1>0, <1>4 DEF StartGreedy
  <2>2. Planned(plan) = {} /\ Planned(plan)' = {}
    BY <2>1, EmptyPlan DEF Planned
  <2>3. PlannerType'
    BY <1>0, <2>1, <2>2 DEF PlannerType, PlannerTypeOK, Ready
  <2> QED
    BY <2>1, <2>2, <2>3 DEF PlannerInv, PlanFits, ConfirmedNotPlannedAgain, PassedByFull, Placing,
       InfeasibleOnlyIfOverloaded
<1>5. ASSUME NEW i \in Backlog, Place(i) PROVE PlannerInv'
  <2>1. i \in todo
    BY <1>5 DEF Place, NextIncidents, LargestOf
  <2>2. Placing /\ plan[i] = Nobody
    BY <1>0, <2>1 DEF Placing, Ready, Planned
  <2>3. /\ todo' = todo \ {i} /\ UNCHANGED <<input, excluded, round, outcome>>
    BY <1>5 DEF Place
  <2>4. \A j \in Backlog, s \in Specialists : Allowed(j, s)' <=> Allowed(j, s)
    BY <2>3 DEF Allowed
  <2>5. CASE plan' = plan /\ Candidates(i) = {}
    <3>1. Planned(plan)' = Planned(plan) /\ \A s : LoadUnder(plan, s)' = LoadUnder(plan, s)
      BY <2>3, <2>5 DEF Planned, LoadUnder
    <3>2. PlannerType'
      BY <1>0, <2>2, <2>3, <2>5, <3>1 DEF PlannerType, PlannerTypeOK, Ready, Placing
    <3>3. PlanFits'
      BY <2>3, <2>5, <3>1 DEF PlannerInv, PlanFits
    <3>4. \A s \in Specialists : Allowed(i, s) => Full(s)
      <4> SUFFICES ASSUME NEW s \in Specialists, Allowed(i, s) PROVE Full(s)
        OBVIOUS
      <4>1. ~(LoadUnder(plan, s) < input.capacity[s])
        BY <2>5 DEF Candidates, HasRoom
      <4>2. input.load[s] \in Nat /\ input.capacity[s] \in Int
        BY <1>0 DEF InputShape
      <4>3. LoadUnder(plan, s) \in Nat
        <5>1. Cardinality({j \in Backlog : plan[j] = s}) \in Nat
          BY PlannedCount
        <5> QED
          BY <4>2, <5>1 DEF LoadUnder
      <4> QED
        BY <4>1, <4>2, <4>3 DEF Full
    <3>5. PassedByFull'
      <4> SUFFICES ASSUME NEW j \in Backlog \ (todo' \cup Planned(plan)'), NEW s \in Specialists,
                          input'.status[j] = "OPEN", Allowed(j, s)'
                   PROVE  Full(s)'
        BY DEF PassedByFull
      <4>1. Full(s)' = Full(s)
        BY <2>3, <3>1 DEF Full
      <4>2. input.status[j] = "OPEN" /\ Allowed(j, s)
        BY <2>3, <2>4
      <4>3. CASE j = i
        BY <3>4, <4>1, <4>2, <4>3
      <4>4. CASE j # i
        <5>1. j \in Backlog \ (todo \cup Planned(plan))
          BY <2>3, <3>1, <4>4
        <5> QED
          BY <2>2, <4>1, <4>2, <5>1 DEF PlannerInv, PassedByFull
      <4> QED
        BY <4>3, <4>4
    <3> QED
      BY <2>2, <2>3, <3>2, <3>3, <3>5 DEF PlannerInv, Placing, ConfirmedNotPlannedAgain, InfeasibleOnlyIfOverloaded
  <2>6. ASSUME NEW s \in Preferred(Candidates(i)), plan' = [plan EXCEPT ![i] = s] PROVE PlannerInv'
    <3>1. s \in Specialists /\ Allowed(i, s) /\ LoadUnder(plan, s) < input.capacity[s]
      BY <2>6 DEF Preferred, LargestOf, Candidates, HasRoom
    <3>2. /\ plan' \in Plans /\ Planned(plan') = Planned(plan) \cup {i}
          /\ LoadUnder(plan', s) = LoadUnder(plan, s) + 1
          /\ \A t \in Specialists \ {s} : LoadUnder(plan', t) = LoadUnder(plan, t)
          /\ \A t \in Specialists : LoadUnder(plan, t) \in Nat
      BY <1>0, <2>2, <2>6, <3>1, PlaceLoad
    <3>3. /\ Planned(plan)' = Planned(plan')
          /\ \A t \in Specialists : LoadUnder(plan, t)' = LoadUnder(plan', t)
      BY <2>3 DEF Planned, LoadUnder
    <3>4. \A t \in Specialists : input.capacity[t] \in Int
      BY <1>0 DEF InputShape
    <3>5. PlannerType'
      BY <1>0, <2>2, <2>3, <3>2, <3>3 DEF PlannerType, PlannerTypeOK, Ready, Placing
    <3>6. PlanFits'
      <4> SUFFICES ASSUME NEW j \in Planned(plan')
                   PROVE  /\ <<j, plan'[j]>> \in input.able \ excluded
                          /\ LoadUnder(plan', plan'[j]) <= input.capacity[plan'[j]]
        <5>1. \A j \in Planned(plan') : plan'[j] \in Specialists
          BY <3>2 DEF Planned, Plans
        <5> QED
          BY <2>3, <3>3, <5>1 DEF PlanFits
      <4>1. CASE j = i
        <5>1. plan'[j] = s
          BY <1>0, <2>6, <4>1 DEF Plans
        <5> QED
          BY <3>1, <3>2, <3>4, <4>1, <5>1 DEF Allowed
      <4>2. CASE j # i
        <5>1. j \in Planned(plan) /\ plan'[j] = plan[j] /\ plan[j] \in Specialists
          BY <1>0, <2>6, <3>2, <4>2 DEF Planned, Plans
        <5>2. <<j, plan[j]>> \in input.able \ excluded /\ LoadUnder(plan, plan[j]) <= input.capacity[plan[j]]
          BY <5>1 DEF PlannerInv, PlanFits
        <5>3. CASE plan[j] = s
          BY <3>1, <3>2, <3>4, <5>1, <5>2, <5>3
        <5>4. CASE plan[j] # s
          BY <3>2, <5>1, <5>2, <5>4
        <5> QED
          BY <5>3, <5>4
      <4> QED
        BY <4>1, <4>2
    <3>7. PassedByFull'
      <4> SUFFICES ASSUME NEW j \in Backlog \ (todo' \cup Planned(plan)'), NEW t \in Specialists,
                          input'.status[j] = "OPEN", Allowed(j, t)'
                   PROVE  Full(t)'
        BY DEF PassedByFull
      <4>1. j \in Backlog \ (todo \cup Planned(plan))
        BY <2>3, <3>2, <3>3
      <4>2. Full(t)
        BY <2>2, <2>3, <2>4, <4>1 DEF PlannerInv, PassedByFull
      <4>3. Full(t)' <=> LoadUnder(plan', t) >= input.capacity[t]
        BY <2>3, <3>3 DEF Full
      <4>4. LoadUnder(plan', t) \in {LoadUnder(plan, t), LoadUnder(plan, t) + 1}
        BY <3>2
      <4> QED
        BY <3>2, <3>4, <4>2, <4>3, <4>4 DEF Full
    <3> QED
      BY <2>2, <2>3, <3>5, <3>6, <3>7 DEF PlannerInv, Placing, ConfirmedNotPlannedAgain, InfeasibleOnlyIfOverloaded
  <2> QED
    BY <1>5, <2>5, <2>6 DEF Place
<1>6. ASSUME FinishGreedy PROVE PlannerInv'
  <2>1. /\ Placing /\ todo = {} /\ outcome' = "GREEDY"
        /\ UNCHANGED <<input, excluded, round, todo, plan>>
    BY <1>6 DEF FinishGreedy, Placing
  <2>2. Planned(plan)' = Planned(plan) /\ (\A s : LoadUnder(plan, s)' = LoadUnder(plan, s))
        /\ \A i, s : Allowed(i, s)' = Allowed(i, s)
    BY <2>1 DEF Planned, LoadUnder, Allowed
  <2>3. PlannerType'
    BY <1>0, <2>1, <2>2 DEF PlannerType, PlannerTypeOK
  <2>4. PlanFits'
    BY <2>1, <2>2 DEF PlannerInv, PlanFits
  <2>5. PassedByFull'
    BY <2>1, <2>2 DEF PlannerInv, PassedByFull, Full
  <2> QED
    BY <2>1, <2>3, <2>4, <2>5 DEF PlannerInv, ConfirmedNotPlannedAgain, InfeasibleOnlyIfOverloaded
<1>7. ASSUME NEW refused \in Planned(plan), NEW confirmed \in SUBSET Planned(plan), Replan(refused, confirmed)
      PROVE  PlannerInv'
  <2>1. /\ Ready /\ round < MaxReplan
        /\ excluded' = excluded \cup {<<refused, plan[refused]>>}
        /\ input' = [input EXCEPT !.assigned = @ \cup confirmed, !.load = LoadAfter(confirmed)]
        /\ round' = round + 1 /\ outcome' = "none" /\ plan' = NoPlan /\ todo' = todo
    BY <1>7 DEF Replan
  <2>2. Planned(plan) \subseteq Backlog /\ refused \in Backlog /\ plan[refused] \in Specialists
    BY <1>0 DEF Planned, Plans
  <2>3. LoadAfter(confirmed) \in [Specialists -> Nat]
    <3>1. confirmed \subseteq Backlog
      BY <2>2
    <3>2. \A s \in Specialists : Share(confirmed, s) \in Nat
      BY <3>1, PlannerAssumption, FS_Subset, FS_CardinalityType DEF Share
    <3>3. \A s \in Specialists : input.load[s] \in Nat
      BY <1>0 DEF InputShape
    <3> QED
      BY <3>2, <3>3 DEF LoadAfter
  <2>4. input' \in InputShape
    <3>1. input.assigned \cup confirmed \in SUBSET Backlog
      BY <1>0, <2>2 DEF InputShape
    <3> QED
      BY <1>0, <2>1, <2>3, <3>1 DEF InputShape
  <2>5. plan' \in Plans /\ Planned(plan)' = {}
    BY <2>1, EmptyPlan DEF Planned
  <2>6. excluded' \subseteq Backlog \X Specialists /\ round' \in 0..MaxReplan /\ todo' = {}
    BY <1>0, <2>1, <2>2
  <2>7. PlannerType'
    BY <1>0, <2>1, <2>4, <2>5, <2>6 DEF PlannerType, PlannerTypeOK
  <2> QED
    BY <2>1, <2>5, <2>7 DEF PlannerInv, PlanFits, ConfirmedNotPlannedAgain, PassedByFull, Placing,
       InfeasibleOnlyIfOverloaded
<1>8. CASE UNCHANGED plannerVars
  BY <1>8 DEF plannerVars, PlannerInv, PlannerType, PlannerTypeOK, PlanFits, ConfirmedNotPlannedAgain,
     PassedByFull, Placing, Full, InfeasibleOnlyIfOverloaded, Ready, Planned, LoadUnder, Allowed, Overloaded
<1> QED
  BY <1>3, <1>4, <1>5, <1>6, <1>7, <1>8 DEF PlannerNext

\* The plan that is being built is sound in every reachable state.
LEMMA PlannerInvariant == PlannerSpec => []PlannerInv
BY PlannerInitially, PlannerStep, PTL DEF PlannerSpec

\* Whichever optimizer made it, in whichever round: a plan fits the skills, the
\* refusals and the capacities, and the solver plans nothing that is confirmed.
THEOREM PlansStaySound == PlannerSpec => []PlanSound
<1>1. PlannerInv => PlanSound
  BY DEF PlannerInv, PlannerType, PlanSound
<1> QED
  BY <1>1, PlannerInvariant, PTL

-----------------------------------------------------------------------------
(* What the best plan leaves out                                           *)

\* A family of subsets of a finite set has one that contains no other.
LEMMA SmallestSubset ==
  ASSUME NEW S, IsFiniteSet(S), NEW T \in SUBSET SUBSET S, T # {}
  PROVE  \E U \in T : \A V \in T : V \subseteq U => V = U
<1>1. T \subseteq FiniteSubsetsOf(S)
  BY FS_Subset DEF FiniteSubsetsOf
<1>2. IsWellFoundedOn(StrictSubsetOrdering(S), FiniteSubsetsOf(S))
  BY FS_StrictSubsetOrderingWellFounded
<1>3. PICK U \in T : \A V \in T : ~(<<V, U>> \in StrictSubsetOrdering(S))
  BY <1>1, <1>2, WFMin
<1>4. ASSUME NEW V \in T, V \subseteq U, V # U PROVE FALSE
  <2>1. <<V, U>> \in StrictSubsetOrdering(S)
    BY <1>4 DEF StrictSubsetOrdering
  <2> QED
    BY <1>3, <2>1
<1> QED
  BY <1>4

\* A family of subsets that has the empty set, and every set that is one element
\* larger than one of its own, has the whole set.
LEMMA SubsetInduction ==
  ASSUME NEW S, IsFiniteSet(S), NEW T \in SUBSET SUBSET S, {} \in T,
         \A U \in T, x \in S : U \cup {x} \in T
  PROVE  S \in T
<1> DEFINE F == (SUBSET S) \ T
<1> SUFFICES ASSUME S \notin T PROVE FALSE
  OBVIOUS
<1>1. F \in SUBSET SUBSET S /\ F # {}
  OBVIOUS
<1> HIDE DEF F
<1>2. PICK U \in F : \A V \in F : V \subseteq U => V = U
  BY <1>1, SmallestSubset
<1>3. U \in SUBSET S /\ U \notin T
  BY DEF F
<1>4. PICK x \in U : TRUE
  BY <1>3
<1>5. U \ {x} \in SUBSET S /\ U \ {x} # U /\ U = (U \ {x}) \cup {x} /\ x \in S
  BY <1>3, <1>4
<1>6. U \ {x} \in T
  BY <1>2, <1>5 DEF F
<1> QED
  BY <1>3, <1>5, <1>6

\* What adds up over the subsets of S: nothing for the empty set, and for every
\* other set what an element of it brings and the rest.
Adds(w, S, f) ==
  /\ f \in [SUBSET S -> Int] /\ f[{}] = 0
  /\ \A U \in SUBSET S : \A i \in U : f[U] = Gain(w, i) + f[U \ {i}]

LEMMA GainIsNumber ==
  ASSUME NEW w \in Weights, NEW i \in Backlog
  PROVE  Gain(w, i) \in Int
<1>1. w \in ProfileWeights /\ Worth[i] \in Int /\ Priority[i] \in Int
  BY PlannerAssumption
<1>2. /\ w.arr \in Int /\ w.sla \in Int /\ w.skills \in Int
  BY <1>1 DEF ProfileWeights
<1>3. w.arr * Worth[i] \in Int /\ w.sla * Priority[i] \in Int
  BY <1>1, <1>2
<1> QED
  BY <1>2, <1>3 DEF Gain

\* Such a sum is there.
LEMMA SumExists ==
  ASSUME NEW w \in Weights
  PROVE  \E f : Adds(w, Backlog, f)
<1> DEFINE T == {S \in SUBSET Backlog : \E f : Adds(w, S, f)}
<1>1. {} \in T
  <2>1. Adds(w, {}, [U \in SUBSET {} |-> 0])
    BY DEF Adds
  <2> QED
    BY <2>1
<1>2. ASSUME NEW S \in T, NEW x \in Backlog PROVE S \cup {x} \in T
  <2>1. PICK f : Adds(w, S, f)
    OBVIOUS
  <2>2. CASE x \in S
    <3>1. S \cup {x} = S
      BY <2>2
    <3> QED
      BY <3>1
  <2>3. CASE x \notin S
    <3> DEFINE g == [U \in SUBSET (S \cup {x}) |-> IF x \in U THEN Gain(w, x) + f[U \ {x}] ELSE f[U]]
    <3>0. S \subseteq Backlog
      OBVIOUS
    <3>1. /\ f \in [SUBSET S -> Int] /\ f[{}] = 0
          /\ \A U \in SUBSET S : \A i \in U : f[U] = Gain(w, i) + f[U \ {i}]
      BY <2>1 DEF Adds
    <3>2. \A i \in Backlog : Gain(w, i) \in Int
      BY GainIsNumber
    <3>3. \A U \in SUBSET (S \cup {x}) : (U \ {x}) \in SUBSET S /\ f[U \ {x}] \in Int
      BY <3>1
    <3>4. \A U \in SUBSET (S \cup {x}) : x \notin U => U \in SUBSET S
      OBVIOUS
    <3>5. g \in [SUBSET (S \cup {x}) -> Int]
      BY <3>1, <3>2, <3>3, <3>4
    <3>6. g[{}] = 0
      BY <3>1
    <3>7. ASSUME NEW U \in SUBSET (S \cup {x}), NEW i \in U PROVE g[U] = Gain(w, i) + g[U \ {i}]
      <4>1. U \ {i} \in SUBSET (S \cup {x}) /\ i \in Backlog
        BY <3>0
      <4>2. CASE i = x
        BY <4>1, <4>2
      <4>3. CASE x \notin U
        <5>1. U \in SUBSET S
          BY <4>3
        <5> QED
          BY <3>1, <4>1, <4>3, <5>1
      <4>4. CASE i # x /\ x \in U
        <5>1. g[U] = Gain(w, x) + f[U \ {x}] /\ g[U \ {i}] = Gain(w, x) + f[(U \ {i}) \ {x}]
          BY <4>1, <4>4
        <5>2. (U \ {i}) \ {x} = (U \ {x}) \ {i} /\ U \ {x} \in SUBSET S /\ i \in U \ {x}
          BY <4>4
        <5>3. f[U \ {x}] = Gain(w, i) + f[(U \ {x}) \ {i}]
          BY <3>1, <5>2
        <5>4. f[(U \ {x}) \ {i}] \in Int
          <6>1. (U \ {x}) \ {i} \in SUBSET S
            BY <5>2
          <6> QED
            BY <3>1, <6>1
        <5>5. Gain(w, x) \in Int /\ Gain(w, i) \in Int
          BY <3>2, <4>1
        <5>6. f[(U \ {i}) \ {x}] = f[(U \ {x}) \ {i}]
          BY <5>2
        <5> HIDE DEF g
        <5> QED
          BY <5>1, <5>3, <5>4, <5>5, <5>6
      <4> QED
        BY <4>2, <4>3, <4>4
    <3>8. Adds(w, S \cup {x}, g)
      BY <3>5, <3>6, <3>7 DEF Adds
    <3> HIDE DEF g
    <3> QED
      BY <3>0, <3>8
  <2> QED
    BY <2>2, <2>3
<1>3. T \in SUBSET SUBSET Backlog
  OBVIOUS
<1> HIDE DEF T
<1>4. Backlog \in T
  BY <1>1, <1>2, <1>3, PlannerAssumption, SubsetInduction
<1> QED
  BY <1>4 DEF T

\* The fold over a set of incidents is that sum.
LEMMA EarnedAdds ==
  ASSUME NEW w \in Weights, NEW f, Adds(w, Backlog, f), NEW S \in SUBSET Backlog
  PROVE  Earned(w, S) = f[S]
<1> DEFINE pick(s) == CHOOSE i \in s : TRUE
           Rec(h) == h = [s \in SUBSET S |-> IF s = {} THEN 0
                                              ELSE Gain(w, pick(s)) + h[s \ {pick(s)}]]
           iter == CHOOSE h : Rec(h)
           fS == [U \in SUBSET S |-> f[U]]
<1>1. Earned(w, S) = iter[S]
  BY DEF Earned, MapThenSumSet, MapThenFoldSet
<1>2. Rec(fS)
  <2>1. \A s \in SUBSET S : s # {} => pick(s) \in s /\ s \ {pick(s)} \in SUBSET S
    OBVIOUS
  <2>2. f[{}] = 0 /\ \A U \in SUBSET S : \A i \in U : f[U] = Gain(w, i) + f[U \ {i}]
    BY DEF Adds
  <2> QED
    BY <2>1, <2>2
<1>3. Rec(iter)
  BY <1>2
<1>4. /\ iter[{}] = 0
      /\ \A U \in SUBSET S : U # {} => iter[U] = Gain(w, pick(U)) + iter[U \ {pick(U)}]
  <2> DEFINE body(s) == IF s = {} THEN 0 ELSE Gain(w, pick(s)) + iter[s \ {pick(s)}]
  <2>1. \A U \in SUBSET S : iter[U] = body(U)
    BY <1>3
  <2> HIDE DEF iter
  <2>2. {} \in SUBSET S
    OBVIOUS
  <2> QED
    BY <2>1, <2>2
<1> HIDE DEF iter, Rec
<1>5. /\ f[{}] = 0
      /\ \A U \in SUBSET S : \A i \in U : f[U] = Gain(w, i) + f[U \ {i}]
  BY DEF Adds
<1> DEFINE F == {U \in SUBSET S : iter[U] # f[U]}
<1>6. ASSUME F # {} PROVE FALSE
  <2>1. IsFiniteSet(S) /\ F \in SUBSET SUBSET S
    BY PlannerAssumption, FS_Subset
  <2> HIDE DEF F
  <2>2. PICK U \in F : \A V \in F : V \subseteq U => V = U
    BY <1>6, <2>1, SmallestSubset
  <2>3. U \in SUBSET S /\ iter[U] # f[U]
    BY DEF F
  <2>4. U # {}
    BY <1>4, <1>5, <2>3
  <2>5. pick(U) \in U /\ U \ {pick(U)} \in SUBSET S /\ U \ {pick(U)} # U
    BY <2>3, <2>4
  <2> HIDE DEF pick
  <2>6. iter[U \ {pick(U)}] = f[U \ {pick(U)}]
    BY <2>2, <2>5 DEF F
  <2>7. iter[U] = Gain(w, pick(U)) + iter[U \ {pick(U)}] /\ f[U] = Gain(w, pick(U)) + f[U \ {pick(U)}]
    BY <1>4, <1>5, <2>3, <2>4, <2>5
  <2> QED
    BY <2>3, <2>6, <2>7
<1> QED
  BY <1>1, <1>6

\* What is earned is a number, and an incident more brings what it is worth.
LEMMA EarnedIsNumber ==
  ASSUME NEW w \in Weights, NEW S \in SUBSET Backlog
  PROVE  Earned(w, S) \in Int
<1>1. PICK f : Adds(w, Backlog, f)
  BY SumExists
<1> QED
  <2>1. Earned(w, S) = f[S]
    BY <1>1, EarnedAdds
  <2>2. f[S] \in Int
    BY <1>1 DEF Adds
  <2> QED
    BY <2>1, <2>2

LEMMA EarnedMore ==
  ASSUME NEW w \in Weights, NEW S \in SUBSET Backlog, NEW i \in Backlog \ S
  PROVE  Earned(w, S \cup {i}) = Earned(w, S) + Gain(w, i)
<1>1. PICK f : Adds(w, Backlog, f)
  BY SumExists
<1>2. S \cup {i} \in SUBSET Backlog /\ i \in S \cup {i} /\ (S \cup {i}) \ {i} = S
  OBVIOUS
<1>3. f[S \cup {i}] = Gain(w, i) + f[S] /\ f[S] \in Int /\ Gain(w, i) \in Int
  BY <1>1, <1>2, GainIsNumber DEF Adds
<1>4. Earned(w, S) = f[S] /\ Earned(w, S \cup {i}) = f[S \cup {i}]
  BY <1>1, <1>2, EarnedAdds
<1> QED
  BY <1>3, <1>4

\* The incidents that a plan gives to one of N.
Of(p, N) == {i \in Backlog : p[i] \in N}
\* The incidents that a plan gives to t.
Has(p, t) == {i \in Backlog : p[i] = t}
\* Where two plans differ.
Differ(p, q) == {i \in Backlog : p[i] # q[i]}

\* Whatever is planned is a finite set.
LEMMA OfFinite ==
  ASSUME NEW p, NEW N
  PROVE  /\ IsFiniteSet(Of(p, N)) /\ Cardinality(Of(p, N)) \in Nat
         /\ IsFiniteSet(Has(p, N)) /\ Cardinality(Has(p, N)) \in Nat
<1>1. Of(p, N) \in SUBSET Backlog /\ Has(p, N) \in SUBSET Backlog
  BY DEF Of, Has
<1> QED
  BY <1>1, PlannerAssumption, FS_Subset, FS_CardinalityType

\* The load under a plan and the planned incidents, as sets of this form.
LEMMA LoadAsSet ==
  ASSUME input \in InputShape, NEW p \in Plans
  PROVE  /\ Planned(p) = Of(p, Specialists)
         /\ \A s \in Specialists :
              /\ LoadUnder(p, s) = input.load[s] + Cardinality(Has(p, s))
              /\ input.load[s] \in Nat /\ input.capacity[s] \in Int /\ LoadUnder(p, s) \in Nat
<1>1. Planned(p) = Of(p, Specialists)
  BY PlannerAssumption DEF Planned, Of, Plans
<1>2. ASSUME NEW s \in Specialists
      PROVE  /\ LoadUnder(p, s) = input.load[s] + Cardinality(Has(p, s))
             /\ input.load[s] \in Nat /\ input.capacity[s] \in Int /\ LoadUnder(p, s) \in Nat
  <2>2. LoadUnder(p, s) = input.load[s] + Cardinality(Has(p, s))
    BY DEF LoadUnder, Has
  <2>3. input.load[s] \in Nat /\ input.capacity[s] \in Int
    BY DEF InputShape
  <2>4. Cardinality(Has(p, s)) \in Nat
    BY OfFinite
  <2> QED
    BY <2>2, <2>3, <2>4
<1> QED
  BY <1>1, <1>2

\* If nobody of N has more in p than in q, they have no more together.
LEMMA NoMoreTogether ==
  ASSUME NEW p \in Plans, NEW q \in Plans, NEW N \in SUBSET Specialists,
         \A s \in N : Cardinality(Has(p, s)) <= Cardinality(Has(q, s))
  PROVE  Cardinality(Of(p, N)) <= Cardinality(Of(q, N))
<1> DEFINE T == {M \in SUBSET N : Cardinality(Of(p, M)) <= Cardinality(Of(q, M))}
<1>1. IsFiniteSet(N) /\ T \in SUBSET SUBSET N
  BY PlannerAssumption, FS_Subset
<1>2. {} \in T
  <2>1. Of(p, {}) = {} /\ Of(q, {}) = {}
    BY DEF Of
  <2>2. Cardinality(Of(p, {})) = 0 /\ Cardinality(Of(q, {})) = 0
    BY <2>1, FS_EmptySet
  <2> QED
    BY <2>2
<1>3. ASSUME NEW M \in T, NEW s \in N PROVE M \cup {s} \in T
  <2>1. CASE s \in M
    <3>1. M \cup {s} = M
      BY <2>1
    <3> QED
      BY <3>1
  <2>2. CASE s \notin M
    <3>1. ASSUME NEW r \in Plans
          PROVE  Cardinality(Of(r, M \cup {s})) = Cardinality(Of(r, M)) + Cardinality(Has(r, s))
      <4>1. Of(r, M \cup {s}) = Of(r, M) \cup Has(r, s) /\ Of(r, M) \cap Has(r, s) = {}
        BY <2>2 DEF Of, Has
      <4> DEFINE A == Of(r, M)
                 B == Has(r, s)
      <4>2. /\ IsFiniteSet(A) /\ Cardinality(A) \in Nat
            /\ IsFiniteSet(B) /\ Cardinality(B) \in Nat
        BY OfFinite
      <4> HIDE DEF A, B
      <4>3. Cardinality(A \cup B) = Cardinality(A) + Cardinality(B) - Cardinality(A \cap B)
        BY <4>2, FS_Union
      <4>4. Cardinality(A \cap B) = 0
        BY <4>1, FS_EmptySet DEF A, B
      <4> DEFINE both == Cardinality(A \cup B)
                 none == Cardinality(A \cap B)
      <4> HIDE DEF both, none
      <4>5. both = Cardinality(A) + Cardinality(B)
        BY <4>2, <4>3, <4>4 DEF both, none
      <4> QED
        BY <4>1, <4>5 DEF A, B, both
    <3>2. Cardinality(Of(p, M)) <= Cardinality(Of(q, M)) /\ Cardinality(Has(p, s)) <= Cardinality(Has(q, s))
      OBVIOUS
    <3>3. /\ Cardinality(Of(p, M)) \in Nat /\ Cardinality(Of(q, M)) \in Nat
          /\ Cardinality(Has(p, s)) \in Nat /\ Cardinality(Has(q, s)) \in Nat
      BY OfFinite
    <3>4. Cardinality(Of(p, M \cup {s})) <= Cardinality(Of(q, M \cup {s}))
      BY <3>1, <3>2, <3>3
    <3> QED
      BY <3>4
  <2> QED
    BY <2>1, <2>2
<1> HIDE DEF T
<1>4. N \in T
  BY <1>1, <1>2, <1>3, SubsetInduction
<1> QED
  BY <1>4 DEF T

\* In r, i has gone from one to another.
Moves(q, r, i, from, to) ==
  q[i] = from /\ r[i] = to /\ from # to /\ \A j \in Backlog : j # i => r[j] = q[j]

\* To give one incident to s changes what s has and what its holder had by one,
\* and nothing else.
LEMMA Moved ==
  ASSUME NEW q \in Plans, NEW r \in Plans, NEW i \in Backlog,
         NEW from, NEW to, Moves(q, r, i, from, to)
  PROVE  /\ Cardinality(Has(r, to)) = Cardinality(Has(q, to)) + 1
         /\ Cardinality(Has(r, from)) = Cardinality(Has(q, from)) - 1
         /\ \A t : t # to /\ t # from => Cardinality(Has(r, t)) = Cardinality(Has(q, t))
<1>1. q[i] = from /\ r[i] = to /\ from # to /\ \A j \in Backlog : j # i => r[j] = q[j]
  BY DEF Moves
<1>2. /\ Has(r, to) = Has(q, to) \cup {i} /\ i \notin Has(q, to)
      /\ Has(r, from) = Has(q, from) \ {i} /\ i \in Has(q, from)
  BY <1>1 DEF Has
<1>3. \A t : t # to /\ t # from => Cardinality(Has(r, t)) = Cardinality(Has(q, t))
  <2>1. \A t : t # to /\ t # from => Has(r, t) = Has(q, t)
    BY <1>1 DEF Has
  <2> QED
    BY <2>1, Zenon
<1>4. Cardinality(Has(r, to)) = Cardinality(Has(q, to)) + 1
  <2> DEFINE A == Has(q, to)
  <2>1. IsFiniteSet(A) /\ i \notin A /\ Has(r, to) = A \cup {i}
    BY <1>2, OfFinite
  <2> HIDE DEF A
  <2>2. Cardinality(A \cup {i}) = Cardinality(A) + 1
    BY <2>1, FS_AddElement
  <2> QED
    BY <2>1, <2>2 DEF A
<1>5. Cardinality(Has(r, from)) = Cardinality(Has(q, from)) - 1
  <2> DEFINE A == Has(q, from)
  <2>1. IsFiniteSet(A) /\ i \in A /\ Has(r, from) = A \ {i}
    BY <1>2, OfFinite
  <2> HIDE DEF A
  <2>2. Cardinality(A \ {i}) = Cardinality(A) - 1
    BY <2>1, FS_RemoveElement
  <2> QED
    BY <2>1, <2>2 DEF A
<1> QED
  BY <1>3, <1>4, <1>5

\* An incident may be given to nobody, or to somebody who may do it and has room.
MayGive(q, i, s) ==
  \/ s = Nobody
  \/ /\ s \in Specialists /\ i \in OpenForSolver /\ Allowed(i, s)
     /\ LoadUnder(q, s) < input.capacity[s]

\* With that, a feasible plan stays feasible.
LEMMA StillFeasible ==
  ASSUME input \in InputShape, NEW q \in FeasiblePlans, NEW i \in Backlog, NEW s, q[i] # s,
         MayGive(q, i, s), NEW r, r = [q EXCEPT ![i] = s]
  PROVE  /\ r \in FeasiblePlans
         /\ Planned(r) = IF s = Nobody THEN Planned(q) \ {i} ELSE Planned(q) \cup {i}
<1>0. /\ s \in Specialists \cup {Nobody}
      /\ s # Nobody => /\ i \in OpenForSolver /\ Allowed(i, s)
                       /\ LoadUnder(q, s) < input.capacity[s]
  BY DEF MayGive
<1>1. /\ q \in Plans
      /\ \A j \in Planned(q) : j \in OpenForSolver /\ Allowed(j, q[j])
      /\ \A t \in Specialists : LoadUnder(q, t) <= input.capacity[t]
  BY DEF FeasiblePlans, Feasible
<1> DEFINE o == q[i]
<1> HIDE DEF o
<1>2. q[i] = o /\ o # s /\ r \in Plans /\ r[i] = s /\ \A j \in Backlog : j # i => r[j] = q[j]
  BY <1>0, <1>1 DEF Plans, o
<1>6. /\ Cardinality(Has(r, s)) = Cardinality(Has(q, s)) + 1
      /\ Cardinality(Has(r, o)) = Cardinality(Has(q, o)) - 1
      /\ \A t : t # s /\ t # o => Cardinality(Has(r, t)) = Cardinality(Has(q, t))
  <2>1. Moves(q, r, i, o, s)
    BY <1>2 DEF Moves
  <2> QED
    <3>1. Cardinality(Has(r, s)) = Cardinality(Has(q, s)) + 1
      BY <1>1, <1>2, <2>1, Moved
    <3>2. Cardinality(Has(r, o)) = Cardinality(Has(q, o)) - 1
      BY <1>1, <1>2, <2>1, Moved
    <3>3. \A t : t # s /\ t # o => Cardinality(Has(r, t)) = Cardinality(Has(q, t))
      BY <1>1, <1>2, <2>1, Moved
    <3> QED
      BY <3>1, <3>2, <3>3, Zenon
<1>3. Planned(r) = IF s = Nobody THEN Planned(q) \ {i} ELSE Planned(q) \cup {i}
  BY <1>2 DEF Planned
<1>4. \A j \in Planned(r) : j \in OpenForSolver /\ Allowed(j, r[j])
  BY <1>0, <1>1, <1>2 DEF Planned
<1>5. ASSUME NEW t \in Specialists PROVE LoadUnder(r, t) <= input.capacity[t]
  <2>1. /\ LoadUnder(r, t) = input.load[t] + Cardinality(Has(r, t))
        /\ LoadUnder(q, t) = input.load[t] + Cardinality(Has(q, t))
        /\ input.load[t] \in Nat /\ input.capacity[t] \in Int
    BY <1>1, <1>2, LoadAsSet
  <2>2. Cardinality(Has(q, t)) \in Nat /\ Cardinality(Has(r, t)) \in Nat
    BY OfFinite
  <2>3. CASE t = s
    <3>1. LoadUnder(q, t) < input.capacity[t]
      BY <1>0, <2>3, PlannerAssumption
    <3>2. Cardinality(Has(r, t)) = Cardinality(Has(q, t)) + 1
      BY <1>6, <2>3
    <3> QED
      BY <2>1, <2>2, <3>1, <3>2
  <2>4. CASE t # s
    <3>1. Cardinality(Has(r, t)) <= Cardinality(Has(q, t))
      <4>1. CASE t = o
        BY <1>6, <2>2, <4>1
      <4>2. CASE t # o
        <5>1. Cardinality(Has(r, t)) = Cardinality(Has(q, t))
          BY <1>6, <2>4, <4>2, Zenon
        <5> QED
          BY <2>2, <5>1
      <4> QED
        BY <4>1, <4>2
    <3>2. LoadUnder(q, t) <= input.capacity[t]
      BY <1>1
    <3> QED
      BY <2>1, <2>2, <3>1, <3>2
  <2> QED
    BY <2>3, <2>4
<1> QED
  BY <1>2, <1>3, <1>4, <1>5 DEF FeasiblePlans, Feasible, MayLeaveOut

\* The plans that leave less undone than p.
Better(p) == {q \in FeasiblePlans : Cardinality(Planned(q)) > Cardinality(Planned(p))}

\* One of them that is as close to p as any: no other differs from p in less.
Closest(p, q) ==
  /\ q \in Better(p)
  /\ \A r \in Better(p) : Differ(p, r) \subseteq Differ(p, q) => Differ(p, r) = Differ(p, q)

LEMMA ClosestExists ==
  ASSUME NEW p, Better(p) # {}
  PROVE  \E q : Closest(p, q)
<1> DEFINE T == {Differ(p, q) : q \in Better(p)}
<1>1. T \in SUBSET SUBSET Backlog /\ T # {}
  <2>1. \A q : Differ(p, q) \in SUBSET Backlog
    BY DEF Differ
  <2> QED
    BY <2>1
<1> HIDE DEF T
<1>2. PICK U \in T : \A V \in T : V \subseteq U => V = U
  BY <1>1, PlannerAssumption, SmallestSubset
<1>3. PICK q \in Better(p) : U = Differ(p, q)
  BY DEF T
<1>4. \A r \in Better(p) : Differ(p, r) \in T
  BY DEF T
<1> QED
  BY <1>2, <1>3, <1>4 DEF Closest

\* What is planned is counted by a number.
LEMMA PlannedFinite ==
  ASSUME NEW p
  PROVE  IsFiniteSet(Planned(p)) /\ Cardinality(Planned(p)) \in Nat /\ Planned(p) \in SUBSET Backlog
<1>1. Planned(p) \in SUBSET Backlog
  BY DEF Planned
<1> QED
  BY <1>1, PlannerAssumption, FS_Subset, FS_CardinalityType

\* In r, i is planned as in p and not as in q, and nothing else is taken from p.
Follows(p, q, r, i) ==
  /\ p[i] # q[i] /\ r[i] = p[i]
  /\ \A j \in Backlog : p[j] = q[j] => r[j] = p[j]

\* A plan as large as the closest one that follows p in one incident more, and
\* goes its own way in no other, cannot be.
LEMMA NoneCloser ==
  ASSUME NEW p, NEW q, Closest(p, q), NEW r \in FeasiblePlans,
         Cardinality(Planned(r)) >= Cardinality(Planned(q)),
         NEW i \in Backlog, Follows(p, q, r, i)
  PROVE  FALSE
<1>1. r \in Better(p)
  <2>1. Cardinality(Planned(q)) > Cardinality(Planned(p))
    BY DEF Closest, Better
  <2>2. /\ Cardinality(Planned(p)) \in Nat /\ Cardinality(Planned(q)) \in Nat
        /\ Cardinality(Planned(r)) \in Nat
    BY PlannedFinite
  <2> QED
    BY <2>1, <2>2 DEF Better
<1>2. Differ(p, r) \subseteq Differ(p, q) /\ i \in Differ(p, q) /\ i \notin Differ(p, r)
  BY DEF Differ, Follows
<1> QED
  BY <1>1, <1>2 DEF Closest

\* Where the closest plan does not follow p, the specialist of p has no room left.
LEMMA ElsewhereFull ==
  ASSUME input \in InputShape, NEW p \in FeasiblePlans, NEW q, Closest(p, q),
         NEW i \in Planned(p), q[i] # p[i]
  PROVE  LoadUnder(q, p[i]) = input.capacity[p[i]]
<1> DEFINE s == p[i]
           r == [q EXCEPT ![i] = s]
<1>1. /\ p \in Plans /\ q \in Plans /\ q \in FeasiblePlans /\ i \in Backlog
      /\ s \in Specialists /\ s # Nobody /\ i \in OpenForSolver /\ Allowed(i, s)
      /\ \A t \in Specialists : LoadUnder(q, t) <= input.capacity[t]
  BY PlannerAssumption DEF FeasiblePlans, Feasible, Closest, Better, Planned, Plans
<1>2. LoadUnder(q, s) \in Nat /\ input.capacity[s] \in Int
  BY <1>1, LoadAsSet
<1>3. ASSUME LoadUnder(q, s) < input.capacity[s] PROVE FALSE
  <2> HIDE DEF r, s
  <2>1. q[i] # s /\ r = [q EXCEPT ![i] = s]
    BY DEF r, s
  <2>2. r \in FeasiblePlans /\ Planned(r) = Planned(q) \cup {i}
    <3>1. MayGive(q, i, s)
      BY <1>1, <1>3 DEF MayGive
    <3> QED
      BY <1>1, <2>1, <3>1, StillFeasible
  <2>3. Cardinality(Planned(r)) >= Cardinality(Planned(q))
    <3>1. IsFiniteSet(Planned(r)) /\ Planned(q) \in SUBSET Planned(r)
      BY <2>2, PlannedFinite
    <3>2. Cardinality(Planned(q)) <= Cardinality(Planned(r))
      BY <3>1, FS_Subset
    <3>3. Cardinality(Planned(q)) \in Nat /\ Cardinality(Planned(r)) \in Nat
      BY PlannedFinite
    <3> QED
      BY <3>2, <3>3
  <2>4. Follows(p, q, r, i)
    BY <1>1 DEF r, s, Plans, Follows
  <2> QED
    BY <1>1, <2>2, <2>3, <2>4, NoneCloser
<1>4. LoadUnder(q, s) <= input.capacity[s]
  BY <1>1
<1> QED
  BY <1>2, <1>3, <1>4

\* Everybody has at least as much in the closest plan as in p.
LEMMA NobodyHasLess ==
  ASSUME input \in InputShape, NEW p \in FeasiblePlans, NEW q, Closest(p, q), NEW s \in Specialists
  PROVE  Cardinality(Has(p, s)) <= Cardinality(Has(q, s))
<1>1. /\ p \in Plans /\ q \in Plans /\ q \in FeasiblePlans
      /\ LoadUnder(p, s) <= input.capacity[s]
  BY DEF FeasiblePlans, Feasible, Closest, Better
<1>2. IsFiniteSet(Has(q, s)) /\ Cardinality(Has(p, s)) \in Nat /\ Cardinality(Has(q, s)) \in Nat
  BY OfFinite
<1>3. CASE Has(p, s) \subseteq Has(q, s)
  BY <1>2, <1>3, FS_Subset
<1>4. CASE ~(Has(p, s) \subseteq Has(q, s))
  <2>1. PICK i \in Backlog : p[i] = s /\ q[i] # s
    BY <1>4 DEF Has
  <2>2. i \in Planned(p)
    BY <2>1, PlannerAssumption DEF Planned
  <2>3. LoadUnder(q, s) = input.capacity[s]
    BY <2>1, <2>2, ElsewhereFull
  <2>4. /\ LoadUnder(p, s) = input.load[s] + Cardinality(Has(p, s))
        /\ LoadUnder(q, s) = input.load[s] + Cardinality(Has(q, s))
        /\ input.load[s] \in Nat /\ input.capacity[s] \in Int
    BY <1>1, LoadAsSet
  <2> QED
    BY <1>1, <1>2, <2>3, <2>4
<1> QED
  BY <1>3, <1>4

\* What p plans is planned in the closest plan as well: else somebody has an
\* incident there that he has not in p, and could change it for this one.
LEMMA AllKept ==
  ASSUME input \in InputShape, NEW p \in FeasiblePlans, NEW q, Closest(p, q)
  PROVE  Planned(p) \subseteq Planned(q)
<1> SUFFICES ASSUME NEW i \in Planned(p), i \notin Planned(q) PROVE FALSE
  OBVIOUS
<1> DEFINE s == p[i]
<1>1. /\ p \in Plans /\ q \in Plans /\ q \in FeasiblePlans /\ i \in Backlog /\ q[i] = Nobody
      /\ s \in Specialists /\ s # Nobody /\ i \in OpenForSolver /\ Allowed(i, s)
      /\ \A t \in Specialists : LoadUnder(q, t) <= input.capacity[t]
  BY PlannerAssumption DEF FeasiblePlans, Feasible, Closest, Better, Planned, Plans
<1> HIDE DEF s
<1>2. PICK j \in Backlog : q[j] = s /\ p[j] # s
  <2>1. i \in Has(p, s) /\ i \notin Has(q, s)
    BY <1>1 DEF Has, s
  <2>2. ASSUME Has(q, s) \subseteq Has(p, s) PROVE FALSE
    <3>1. IsFiniteSet(Has(p, s)) /\ Has(q, s) \in SUBSET Has(p, s)
      BY <2>2, OfFinite
    <3>2. /\ Cardinality(Has(q, s)) <= Cardinality(Has(p, s))
          /\ Cardinality(Has(p, s)) = Cardinality(Has(q, s)) => Has(p, s) = Has(q, s)
      BY <3>1, FS_Subset
    <3>3. Cardinality(Has(p, s)) <= Cardinality(Has(q, s))
      BY <1>1, NobodyHasLess
    <3>4. Cardinality(Has(p, s)) \in Nat /\ Cardinality(Has(q, s)) \in Nat
      BY OfFinite
    <3>5. Has(p, s) = Has(q, s)
      BY <3>2, <3>3, <3>4
    <3> QED
      BY <2>1, <3>5
  <2> QED
    BY <2>2 DEF Has
<1> DEFINE m == [q EXCEPT ![j] = Nobody]
           r == [m EXCEPT ![i] = s]
<1>3. i # j /\ q[j] # Nobody
  BY <1>1, <1>2
<1> HIDE DEF m
<1>4. m \in FeasiblePlans /\ Planned(m) = Planned(q) \ {j}
  <2>1. MayGive(q, j, Nobody)
    BY DEF MayGive
  <2> QED
    BY <1>1, <1>3, <2>1, StillFeasible DEF m
<1>5. m \in Plans /\ m[j] = Nobody /\ \A k \in Backlog : k # j => m[k] = q[k]
  BY <1>1, <1>4 DEF m, Plans
<1>6. LoadUnder(m, s) < input.capacity[s]
  <2>1. Moves(q, m, j, s, Nobody)
    BY <1>1, <1>2, <1>5 DEF Moves
  <2>2. Cardinality(Has(m, s)) = Cardinality(Has(q, s)) - 1
    BY <1>1, <1>5, <2>1, Moved
  <2>3. /\ LoadUnder(q, s) = input.load[s] + Cardinality(Has(q, s))
        /\ LoadUnder(m, s) = input.load[s] + Cardinality(Has(m, s))
        /\ input.load[s] \in Nat /\ input.capacity[s] \in Int
    BY <1>1, <1>5, LoadAsSet
  <2>4. Cardinality(Has(q, s)) \in Nat
    BY OfFinite
  <2>5. LoadUnder(q, s) <= input.capacity[s]
    BY <1>1
  <2> QED
    BY <2>2, <2>3, <2>4, <2>5
<1>7. m[i] # s
  BY <1>1, <1>3, <1>5
<1> HIDE DEF r
<1>8. r = [m EXCEPT ![i] = s]
  BY DEF r
<1>9. r \in FeasiblePlans /\ Planned(r) = Planned(m) \cup {i}
  <2>1. MayGive(m, i, s)
    BY <1>1, <1>6 DEF MayGive
  <2> QED
    BY <1>1, <1>4, <1>7, <1>8, <2>1, StillFeasible
<1>10. Cardinality(Planned(r)) >= Cardinality(Planned(q))
  <2>1. /\ j \in Planned(q) /\ i \notin Planned(m)
    BY <1>3, <1>4 DEF Planned
  <2> DEFINE A == Planned(q)
             B == Planned(m)
             C == Planned(r)
  <2>2. IsFiniteSet(A) /\ IsFiniteSet(B) /\ Cardinality(A) \in Nat /\ j \in A /\ i \notin B
        /\ B = A \ {j} /\ C = B \cup {i}
    BY <1>4, <1>9, <2>1, PlannedFinite
  <2> HIDE DEF A, B, C
  <2>3. Cardinality(B) = Cardinality(A) - 1
    BY <2>2, FS_RemoveElement
  <2>4. Cardinality(C) = Cardinality(B) + 1
    BY <2>2, FS_AddElement
  <2> QED
    BY <2>2, <2>3, <2>4 DEF A, C
<1>11. Follows(p, q, r, i)
  <2>1. r[i] = s /\ \A k \in Backlog : k # i => r[k] = m[k]
    BY <1>1, <1>5, <1>8 DEF Plans
  <2> QED
    BY <1>1, <1>2, <1>5, <2>1 DEF Follows, s
<1> QED
  BY <1>1, <1>9, <1>10, <1>11, NoneCloser

\* The closest plan does exactly one incident more.
LEMMA OneIncidentMore ==
  ASSUME input \in InputShape, NEW p \in FeasiblePlans, NEW q, Closest(p, q)
  PROVE  \E i \in OpenForSolver \ Planned(p) : Planned(q) = Planned(p) \cup {i}
<1>1. /\ p \in Plans /\ q \in Plans /\ q \in FeasiblePlans
      /\ Cardinality(Planned(q)) > Cardinality(Planned(p))
      /\ \A i \in Planned(q) : i \in OpenForSolver
  BY DEF FeasiblePlans, Feasible, Closest, Better
<1>2. Planned(p) \subseteq Planned(q)
  BY AllKept
<1>3. /\ Cardinality(Planned(p)) \in Nat /\ Cardinality(Planned(q)) \in Nat
      /\ IsFiniteSet(Planned(p)) /\ IsFiniteSet(Planned(q))
  BY PlannedFinite
<1>4. PICK i \in Planned(q) : i \notin Planned(p)
  <2>1. Planned(p) # Planned(q)
    <3>1. ASSUME Planned(p) = Planned(q) PROVE FALSE
      <4>1. Cardinality(Planned(p)) = Cardinality(Planned(q))
        BY <3>1, Zenon
      <4> QED
        BY <1>1, <1>3, <4>1
    <3> QED
      BY <3>1
  <2> QED
    BY <1>2, <2>1
<1> DEFINE r == [q EXCEPT ![i] = Nobody]
<1>5. i \in Backlog /\ q[i] # Nobody /\ p[i] = Nobody
  BY <1>4 DEF Planned
<1> HIDE DEF r
<1>6. r = [q EXCEPT ![i] = Nobody]
  BY DEF r
<1>7. r \in FeasiblePlans /\ Planned(r) = Planned(q) \ {i}
  <2>1. MayGive(q, i, Nobody)
    BY DEF MayGive
  <2> QED
    BY <1>1, <1>5, <1>6, <2>1, StillFeasible
<1>8. Follows(p, q, r, i)
  <2>1. r[i] = Nobody /\ \A k \in Backlog : k # i => r[k] = q[k]
    BY <1>1, <1>5, <1>6 DEF Plans
  <2> QED
    BY <1>5, <2>1 DEF Follows
<1> DEFINE A == Planned(p)
           B == Planned(q)
           C == Planned(r)
<1>9. Cardinality(C) \in Nat /\ IsFiniteSet(C)
  BY PlannedFinite
<1>10. ~(Cardinality(C) > Cardinality(A))
  <2>1. ASSUME r \in Better(p) PROVE FALSE
    <3>1. Differ(p, r) \subseteq Differ(p, q) /\ i \in Differ(p, q) /\ i \notin Differ(p, r)
      BY <1>5, <1>8 DEF Differ, Follows
    <3> QED
      BY <2>1, <3>1 DEF Closest
  <2> QED
    BY <1>7, <2>1 DEF Better
<1>11. A \in SUBSET C
  BY <1>2, <1>4, <1>7
<1>12. Cardinality(A) <= Cardinality(C) /\ (Cardinality(C) = Cardinality(A) => C = A)
  BY <1>9, <1>11, FS_Subset
<1>13. C = A
  BY <1>3, <1>9, <1>10, <1>12
<1>14. i \in OpenForSolver \ Planned(p) /\ Planned(q) = Planned(p) \cup {i}
  BY <1>1, <1>4, <1>7, <1>13
<1> QED
  BY <1>14

\* So the specialists of N have at most one incident more there together.
LEMMA AtMostOneMore ==
  ASSUME input \in InputShape, NEW p \in FeasiblePlans, NEW q, Closest(p, q),
         NEW N \in SUBSET Specialists
  PROVE  Cardinality(Of(q, N)) <= Cardinality(Of(p, N)) + 1
<1>1. p \in Plans /\ q \in Plans
  BY DEF FeasiblePlans, Closest, Better
<1> DEFINE M == Specialists \ N
<1>2. Cardinality(Of(p, M)) <= Cardinality(Of(q, M))
  <2>1. \A s \in M : Cardinality(Has(p, s)) <= Cardinality(Has(q, s))
    BY NobodyHasLess
  <2> QED
    BY <1>1, <2>1, NoMoreTogether
<1>3. ASSUME NEW r \in Plans
      PROVE  Cardinality(Planned(r)) = Cardinality(Of(r, M)) + Cardinality(Of(r, N))
  <2> DEFINE A == Of(r, M)
             B == Of(r, N)
             all == Cardinality(A \cup B)
             none == Cardinality(A \cap B)
  <2>1. Planned(r) = A \cup B /\ A \cap B = {}
    BY PlannerAssumption DEF Planned, Plans, Of
  <2>2. /\ IsFiniteSet(A) /\ Cardinality(A) \in Nat
        /\ IsFiniteSet(B) /\ Cardinality(B) \in Nat
    BY OfFinite
  <2> HIDE DEF A, B
  <2>3. all = Cardinality(A) + Cardinality(B) - none
    BY <2>2, FS_Union
  <2>4. none = 0
    BY <2>1, FS_EmptySet
  <2> HIDE DEF all, none
  <2>5. all = Cardinality(A) + Cardinality(B)
    BY <2>2, <2>3, <2>4
  <2> QED
    BY <2>1, <2>5 DEF A, B, all
<1>4. Cardinality(Planned(q)) = Cardinality(Planned(p)) + 1
  <2>1. PICK i \in OpenForSolver \ Planned(p) : Planned(q) = Planned(p) \cup {i}
    BY OneIncidentMore
  <2> DEFINE A == Planned(p)
             B == Planned(q)
  <2>2. IsFiniteSet(A) /\ i \notin A /\ B = A \cup {i}
    BY <2>1, PlannedFinite
  <2> HIDE DEF A, B
  <2>3. Cardinality(B) = Cardinality(A) + 1
    BY <2>2, FS_AddElement
  <2> QED
    BY <2>3 DEF A, B
<1>5. /\ Cardinality(Of(p, M)) \in Nat /\ Cardinality(Of(q, M)) \in Nat
      /\ Cardinality(Of(p, N)) \in Nat /\ Cardinality(Of(q, N)) \in Nat
  BY OfFinite
<1>6. /\ Cardinality(Planned(p)) = Cardinality(Of(p, M)) + Cardinality(Of(p, N))
      /\ Cardinality(Planned(q)) = Cardinality(Of(q, M)) + Cardinality(Of(q, N))
  BY <1>1, <1>3
<1> HIDE DEF M
<1> QED
  BY <1>2, <1>4, <1>5, <1>6

\* The largest load is a number that somebody has, or nothing.
LEMMA MaxLoadIs ==
  ASSUME input \in InputShape, NEW p \in Plans
  PROVE  /\ MaxLoad(p) \in Nat
         /\ \A s \in Specialists : LoadUnder(p, s) <= MaxLoad(p)
         /\ MaxLoad(p) = 0 \/ \E s \in Specialists : MaxLoad(p) = LoadUnder(p, s)
<1> DEFINE f == [s \in Specialists |-> LoadUnder(p, s)]
           R == {LoadUnder(p, s) : s \in Specialists}
           S == {0} \cup R
<1>1. \A s \in Specialists : LoadUnder(p, s) \in Nat
  BY LoadAsSet
<1>2. IsFiniteSet(S)
  <2>1. f \in Surjection(Specialists, R)
    BY DEF Surjection
  <2>2. IsFiniteSet(R)
    BY <2>1, PlannerAssumption, FS_Surjection
  <2> HIDE DEF R
  <2>3. IsFiniteSet(R \cup {0}) /\ S = R \cup {0}
    BY <2>2, FS_AddElement
  <2> QED
    BY <2>3
<1>3. S \in SUBSET Int /\ S # {}
  BY <1>1
<1>4. MaxLoad(p) = Max(S)
  BY DEF MaxLoad
<1>5. 0 \in S /\ \A s \in Specialists : LoadUnder(p, s) \in S
  OBVIOUS
<1>6. \A x \in S : x = 0 \/ \E s \in Specialists : x = LoadUnder(p, s)
  OBVIOUS
<1> HIDE DEF S
<1>7. Max(S) \in S /\ \A y \in S : Max(S) >= y
  <2>1. Largest(S) \in S /\ \A y \in S : y <= Largest(S)
    BY <1>2, <1>3, LargestExists
  <2>2. Largest(S) \in S /\ \A y \in S : Largest(S) >= y
    BY <1>3, <2>1
  <2> QED
    BY <2>2 DEF Max
<1>8. MaxLoad(p) \in S /\ MaxLoad(p) \in Int /\ \A y \in S : y <= MaxLoad(p)
  BY <1>3, <1>4, <1>7
<1>9. MaxLoad(p) \in Nat
  BY <1>5, <1>8
<1> QED
  BY <1>5, <1>6, <1>8, <1>9

\* What a profile charges is a number times what is charged for.
LEMMA ChargesGrow ==
  ASSUME NEW c \in Int, c >= 0, NEW m \in Nat, NEW n \in Nat, m <= n + 1
  PROVE  c * m \in Int /\ c * n \in Int /\ c * m <= c * n + c
<1>1. c * (n + 1) = c * n + c
  BY SMTT(30)
<1>2. c * m <= c * (n + 1)
  BY SMTT(30)
<1> QED
  BY <1>1, <1>2

\* The objective of a plan is a number.
LEMMA ObjectiveIsNumber ==
  ASSUME input \in InputShape, NEW w \in Weights, NEW p \in Plans
  PROVE  Objective(w, p) \in Int
<1>1. MaxLoad(p) \in Int
  BY MaxLoadIs
<1>2. Cardinality(Switches(p)) \in Int
  <2>1. Switches(p) \in SUBSET Backlog
    BY DEF Switches, Planned
  <2> QED
    BY <2>1, PlannerAssumption, FS_Subset, FS_CardinalityType
<1>3. Cardinality(OpenForSolver \ Planned(p)) \in Int
  <2>1. OpenForSolver \ Planned(p) \in SUBSET Backlog
    BY DEF OpenForSolver
  <2> QED
    BY <2>1, PlannerAssumption, FS_Subset, FS_CardinalityType
<1>4. Earned(w, Planned(p)) \in Int
  BY PlannedFinite, EarnedIsNumber
<1>5. /\ w.context_switch \in Int /\ w.fairness \in Int /\ w.unassigned_penalty \in Int
  BY PlannerAssumption DEF ProfileWeights
<1> QED
  BY <1>1, <1>2, <1>3, <1>4, <1>5 DEF Objective

\* The closest plan has the better objective: it earns one incident and its
\* penalty, for one context switch and one more of the largest load at most.
LEMMA CloserIsBetter ==
  ASSUME input \in InputShape, PenaltyDominates, NEW w \in Weights,
         NEW p \in FeasiblePlans, NEW q, Closest(p, q)
  PROVE  Objective(w, q) > Objective(w, p)
<1> DEFINE L == {s \in Specialists : input.load[s] > 0}
           u(r) == Cardinality(OpenForSolver \ Planned(r))
           n(r) == Cardinality(Switches(r))
<1>1. p \in Plans /\ q \in Plans /\ q \in FeasiblePlans
  BY DEF FeasiblePlans, Closest, Better
<1>2. PICK i \in OpenForSolver \ Planned(p) : Planned(q) = Planned(p) \cup {i}
  BY OneIncidentMore
<1>3. i \in Backlog /\ i \notin Planned(p) /\ Planned(p) \in SUBSET Backlog
  BY <1>2, PlannedFinite DEF OpenForSolver
<1>4. /\ w.context_switch \in Int /\ w.fairness \in Int /\ w.unassigned_penalty \in Int
      /\ Gain(w, i) \in Int
  BY <1>3, GainIsNumber, PlannerAssumption DEF ProfileWeights
<1>5. /\ w.context_switch >= 0 /\ w.fairness >= 0
      /\ w.context_switch + w.fairness < w.unassigned_penalty + Gain(w, i)
  BY <1>3 DEF PenaltyDominates
<1>6. Earned(w, Planned(q)) = Earned(w, Planned(p)) + Gain(w, i) /\ Earned(w, Planned(p)) \in Int
  BY <1>2, <1>3, EarnedMore, EarnedIsNumber
<1>7. n(p) \in Nat /\ n(q) \in Nat /\ n(q) <= n(p) + 1
  <2>1. \A r \in Plans : Switches(r) = Of(r, L)
    BY PlannerAssumption DEF Switches, Planned, Of, Plans
  <2>2. L \in SUBSET Specialists
    OBVIOUS
  <2> HIDE DEF L
  <2>3. /\ Cardinality(Of(q, L)) <= Cardinality(Of(p, L)) + 1
        /\ Cardinality(Of(p, L)) \in Nat /\ Cardinality(Of(q, L)) \in Nat
    BY <2>2, AtMostOneMore, OfFinite
  <2>4. Switches(p) = Of(p, L) /\ Switches(q) = Of(q, L)
    BY <1>1, <2>1
  <2> QED
    BY <2>3, <2>4
<1>8. u(q) \in Nat /\ u(p) = u(q) + 1
  <2> DEFINE A == OpenForSolver \ Planned(q)
             B == OpenForSolver \ Planned(p)
  <2>1. B = A \cup {i} /\ i \notin A /\ A \in SUBSET Backlog
    BY <1>2 DEF OpenForSolver
  <2> HIDE DEF A, B
  <2>2. IsFiniteSet(A) /\ Cardinality(A) \in Nat
    BY <2>1, PlannerAssumption, FS_Subset, FS_CardinalityType
  <2>3. Cardinality(B) = Cardinality(A) + 1
    BY <2>1, <2>2, FS_AddElement
  <2> QED
    BY <2>2, <2>3 DEF A, B
<1>9. MaxLoad(p) \in Nat /\ MaxLoad(q) \in Nat /\ MaxLoad(q) <= MaxLoad(p) + 1
  <2>1. /\ MaxLoad(p) \in Nat /\ MaxLoad(q) \in Nat
        /\ \A s \in Specialists : LoadUnder(p, s) <= MaxLoad(p)
        /\ MaxLoad(q) = 0 \/ \E s \in Specialists : MaxLoad(q) = LoadUnder(q, s)
    BY <1>1, MaxLoadIs
  <2>2. ASSUME NEW s \in Specialists PROVE LoadUnder(q, s) <= MaxLoad(p) + 1
    <3>1. /\ LoadUnder(p, s) = input.load[s] + Cardinality(Has(p, s))
          /\ LoadUnder(q, s) = input.load[s] + Cardinality(Has(q, s))
          /\ input.load[s] \in Nat
      BY <1>1, LoadAsSet
    <3>2. /\ Cardinality(Of(q, {s})) <= Cardinality(Of(p, {s})) + 1
          /\ Of(p, {s}) = Has(p, s) /\ Of(q, {s}) = Has(q, s)
      <4>1. {s} \in SUBSET Specialists
        OBVIOUS
      <4>2. Cardinality(Of(q, {s})) <= Cardinality(Of(p, {s})) + 1
        BY <4>1, AtMostOneMore
      <4> QED
        BY <4>2 DEF Of, Has
    <3>3. Cardinality(Has(q, s)) <= Cardinality(Has(p, s)) + 1
      BY <3>2
    <3>4. Cardinality(Has(p, s)) \in Nat /\ Cardinality(Has(q, s)) \in Nat
      BY OfFinite
    <3>5. LoadUnder(p, s) <= MaxLoad(p)
      BY <2>1
    <3> QED
      BY <2>1, <3>1, <3>3, <3>4, <3>5
  <2> QED
    BY <2>1, <2>2
<1> DEFINE switch(r) == w.context_switch * n(r)
           unfair(r) == w.fairness * MaxLoad(r)
           left(r) == w.unassigned_penalty * u(r)
<1>10. switch(p) \in Int /\ switch(q) \in Int /\ switch(q) <= switch(p) + w.context_switch
  BY <1>4, <1>5, <1>7, ChargesGrow
<1>11. unfair(p) \in Int /\ unfair(q) \in Int /\ unfair(q) <= unfair(p) + w.fairness
  BY <1>4, <1>5, <1>9, ChargesGrow
<1>12. left(q) \in Int /\ left(p) = left(q) + w.unassigned_penalty
  <2>1. w.unassigned_penalty * (u(q) + 1) = w.unassigned_penalty * u(q) + w.unassigned_penalty
    BY <1>4, <1>8, SMTT(30)
  <2> QED
    BY <1>4, <1>8, <2>1
<1>13. \A r : Objective(w, r) = Earned(w, Planned(r)) - switch(r) - unfair(r) - left(r)
  BY DEF Objective
<1> HIDE DEF switch, unfair, left
<1> QED
  BY <1>4, <1>5, <1>6, <1>10, <1>11, <1>12, <1>13

\* So a plan with the best objective leaves as little undone as any.
LEMMA BestLeavesFewest ==
  ASSUME input \in InputShape, PenaltyDominates, NEW w \in Weights,
         NEW p \in FeasiblePlans, \A q \in FeasiblePlans : Objective(w, q) <= Objective(w, p)
  PROVE  \A q \in FeasiblePlans : Cardinality(Planned(q)) <= Cardinality(Planned(p))
<1> SUFFICES ASSUME NEW better \in FeasiblePlans, ~(Cardinality(Planned(better)) <= Cardinality(Planned(p)))
             PROVE  FALSE
  OBVIOUS
<1>1. /\ Cardinality(Planned(p)) \in Nat /\ Cardinality(Planned(better)) \in Nat
  BY PlannedFinite
<1>2. better \in Better(p)
  BY <1>1 DEF Better
<1>3. PICK q : Closest(p, q)
  BY <1>2, ClosestExists
<1>4. q \in FeasiblePlans
  BY <1>3 DEF Closest, Better
<1>5. /\ Objective(w, p) \in Int /\ Objective(w, q) \in Int
  BY <1>4, ObjectiveIsNumber DEF FeasiblePlans
<1>6. Objective(w, q) > Objective(w, p) /\ Objective(w, q) <= Objective(w, p)
  BY <1>3, <1>4, CloserIsBetter
<1> QED
  BY <1>5, <1>6

\* And what it leaves out nobody who may do it has room for.
LEMMA FewestHadNoChoice ==
  ASSUME input \in InputShape, NEW p \in FeasiblePlans,
         \A q \in FeasiblePlans : Cardinality(Planned(q)) <= Cardinality(Planned(p)),
         NEW i \in OpenForSolver \ Planned(p), NEW s \in Specialists, Allowed(i, s)
  PROVE  LoadUnder(p, s) >= input.capacity[s]
<1> DEFINE r == [p EXCEPT ![i] = s]
<1>1. p \in Plans /\ i \in Backlog /\ p[i] = Nobody /\ s # Nobody /\ i \in OpenForSolver
  BY PlannerAssumption DEF FeasiblePlans, OpenForSolver, Planned
<1>2. LoadUnder(p, s) \in Nat /\ input.capacity[s] \in Int
  BY <1>1, LoadAsSet
<1> SUFFICES ASSUME LoadUnder(p, s) < input.capacity[s] PROVE FALSE
  BY <1>2
<1> HIDE DEF r
<1>3. r = [p EXCEPT ![i] = s] /\ p[i] # s
  BY <1>1 DEF r
<1>4. r \in FeasiblePlans /\ Planned(r) = Planned(p) \cup {i}
  <2>1. MayGive(p, i, s)
    BY <1>1 DEF MayGive
  <2> QED
    BY <1>1, <1>3, <2>1, StillFeasible
<1> DEFINE A == Planned(p)
           B == Planned(r)
<1>5. IsFiniteSet(A) /\ Cardinality(A) \in Nat /\ i \notin A /\ B = A \cup {i} /\ Cardinality(B) <= Cardinality(A)
  BY <1>4, PlannedFinite
<1> HIDE DEF A, B
<1>6. Cardinality(B) = Cardinality(A) + 1
  BY <1>5, FS_AddElement
<1> QED
  BY <1>5, <1>6

\* A plan that is called optimal leaves as little undone as any.
OptimalInv == PlannerInv /\ OptimalHadNoChoice /\ OptimalLeavesFewest

LEMMA OptimalInitially == PlannerInit => OptimalInv
BY PlannerInitially DEF PlannerInit, OptimalInv, OptimalHadNoChoice, OptimalLeavesFewest

\* Only the solver calls a plan optimal, and what it chose from stays as it is
\* until the next round.
LEMMA OptimalStep ==
  ASSUME PenaltyDominates, OptimalInv, [PlannerNext]_plannerVars
  PROVE  OptimalInv'
<1>0. PlannerInv' /\ PlannerInv
  BY PlannerStep DEF OptimalInv
<1>1. input \in InputShape /\ (Ready => todo = {})
  BY <1>0 DEF PlannerInv, PlannerType, PlannerTypeOK
<1>2. SUFFICES ASSUME outcome' = "OPTIMAL" PROVE (OptimalHadNoChoice /\ OptimalLeavesFewest)'
  BY <1>0 DEF OptimalInv, OptimalHadNoChoice, OptimalLeavesFewest
<1>3. ASSUME UNCHANGED <<input, excluded>>
      PROVE  /\ FeasiblePlans' = FeasiblePlans /\ OpenForSolver' = OpenForSolver
             /\ \A i, s : Allowed(i, s)' = Allowed(i, s)
             /\ \A p, s : LoadUnder(p, s)' = LoadUnder(p, s)
  BY <1>3 DEF FeasiblePlans, Feasible, OpenForSolver, Allowed, LoadUnder, MayLeaveOut
<1>4. ASSUME NEW w \in Weights, Solve(w) PROVE (OptimalHadNoChoice /\ OptimalLeavesFewest)'
  <2>1. PICK p \in LargestOf(LAMBDA q : Objective(w, q), FeasiblePlans) : Solved("OPTIMAL", p)
    BY <1>2, <1>4 DEF Solve, Solved
  <2>2. p \in FeasiblePlans /\ \A q \in FeasiblePlans : Objective(w, q) <= Objective(w, p)
    BY <2>1 DEF LargestOf
  <2>3. UNCHANGED <<input, excluded>> /\ plan' = p
    BY <2>1 DEF Solved
  <2>4. \A q \in FeasiblePlans : Cardinality(Planned(q)) <= Cardinality(Planned(p))
    BY <1>1, <2>2, BestLeavesFewest
  <2>5. \A i \in OpenForSolver \ Planned(p), s \in Specialists :
          Allowed(i, s) => LoadUnder(p, s) >= input.capacity[s]
    BY <1>1, <2>2, <2>4, FewestHadNoChoice
  <2>6. OptimalLeavesFewest'
    BY <1>3, <2>3, <2>4 DEF OptimalLeavesFewest, Planned
  <2>7. OptimalHadNoChoice'
    <3> SUFFICES ASSUME NEW i \in OpenForSolver' \ Planned(plan)', NEW s \in Specialists, Allowed(i, s)'
                 PROVE  LoadUnder(plan, s)' >= input'.capacity[s]
      BY DEF OptimalHadNoChoice
    <3>1. i \in OpenForSolver \ Planned(p) /\ Allowed(i, s)
      BY <1>3, <2>3 DEF Planned
    <3>2. LoadUnder(plan, s)' = LoadUnder(p, s) /\ input' = input
      BY <2>3 DEF LoadUnder
    <3> QED
      BY <2>5, <3>1, <3>2
  <2> QED
    BY <2>6, <2>7
<1>5. ASSUME UNCHANGED plannerVars PROVE (OptimalHadNoChoice /\ OptimalLeavesFewest)'
  BY <1>5 DEF plannerVars, OptimalInv, OptimalHadNoChoice, OptimalLeavesFewest, FeasiblePlans, Feasible,
     OpenForSolver, Allowed, LoadUnder, MayLeaveOut, Planned
<1>6. ~StartGreedy /\ ~FinishGreedy
  BY <1>2 DEF StartGreedy, FinishGreedy
<1>7. \A i \in Backlog : ~Place(i)
  BY <1>1, <1>2 DEF Place, NextIncidents, LargestOf, Ready
<1>8. \A refused \in Planned(plan), confirmed \in SUBSET Planned(plan) : ~Replan(refused, confirmed)
  BY <1>2 DEF Replan
<1> QED
  BY <1>4, <1>5, <1>6, <1>7, <1>8 DEF PlannerNext

\* What an optimizer leaves out had to be left out: the greedy optimizer finds
\* nobody with room, the best plan of the solver does as much as any plan can,
\* and there is no plan only if somebody is over his capacity already.
THEOREM LeftOutHadToBe ==
  ASSUME PenaltyDominates
  PROVE  PlannerSpec => []NothingLeftUndone
<1>1. PlannerInit => OptimalInv
  BY OptimalInitially
<1>2. OptimalInv /\ [PlannerNext]_plannerVars => OptimalInv'
  BY OptimalStep
<1>3. OptimalInv => NothingLeftUndone
  BY DEF OptimalInv, PlannerInv, PlannerType, PlannerTypeOK, Ready, PassedByFull, Full, GreedyHadNoChoice,
     NothingLeftUndone
<1> QED
  BY <1>1, <1>2, <1>3, PTL DEF PlannerSpec
================================================================================
