-------------------------- MODULE AssignmentRequests --------------------------
(***************************************************************************)
(* Assignment requests of the communication service: creation, answers of  *)
(* specialists, queued (configured) responses, lazy expiry.                *)
(*                                                                         *)
(* SQLite opens the write transaction at the first INSERT, UPDATE or       *)
(* DELETE.  create, respond and list start with the UPDATE that expires    *)
(* late requests, so each is one atomic step.  get_assignment_request      *)
(* starts with a SELECT outside any transaction and writes the row it read *)
(* by primary key, so it is two steps, and its session may be overtaken.   *)
(*                                                                         *)
(* Of the order in which rules match only this is kept: some active rule   *)
(* that matches is chosen.  Whether its delay has elapsed is arbitrary.    *)
(***************************************************************************)
EXTENDS Naturals, FiniteSets

CONSTANTS
  Requests,  \* request ids
  Rules,     \* configured responses that can be queued
  Readers,   \* concurrent GETs of one request
  Default    \* demo_default_assignment_response, or "none"

ASSUME DefaultAssumption == Default \in {"none", "ACCEPTED", "REJECTED"}

VARIABLES
  status,   \* per request, its stored status ("absent" before it is created)
  late,     \* requests whose expires_at has passed
  rule,     \* per rule: queued answer, requests it matches, apply_once, active
  reader,   \* per GET: what it does next with the request it has read
  applied   \* per rule, the answers it has given (read by properties only)

vars == <<status, late, rule, reader, applied>>

Responses == {"ACCEPTED", "REJECTED"}
Final == Responses \cup {"EXPIRED"}

NoRule == [answer |-> "none", matches |-> {}, once |-> TRUE, active |-> FALSE]
Queued ==
  [answer : Responses, matches : SUBSET Requests, once : BOOLEAN, active : {TRUE}]

NoRead == [then |-> "nothing", of |-> "none"]

Init ==
  /\ status = [q \in Requests |-> "absent"]
  /\ late = {}
  /\ rule = [c \in Rules |-> NoRule]
  /\ reader = [g \in Readers |-> NoRead]
  /\ applied = [c \in Rules |-> 0]

-----------------------------------------------------------------------------
\* Mutant: the expiry time is not compared.
ExpiredAtOnce == [q \in Requests |-> IF status[q] = "PENDING" THEN "EXPIRED" ELSE status[q]]

\* expire_pending_assignment_requests, as the transaction sees the table.
Expired == [q \in Requests |->
  IF status[q] = "PENDING" /\ q \in late THEN "EXPIRED" ELSE status[q]]

CreateRequest(q) ==
  /\ status[q] = "absent"
  /\ status' = [Expired EXCEPT ![q] = "PENDING"]
  /\ UNCHANGED <<late, rule, reader, applied>>

ListRequests ==
  /\ status' = Expired
  /\ UNCHANGED <<late, rule, reader, applied>>

\* Mutant: an answered request can be answered again.
RespondAgain(q, answer) ==
  /\ Expired[q] \in {"PENDING"} \cup Responses
  /\ status' = [Expired EXCEPT ![q] = answer]
  /\ UNCHANGED <<late, rule, reader, applied>>

\* The same answer again returns at once and any other answer to a request
\* that is not pending is refused: both roll the expiry back.
RespondTo(q, answer) ==
  /\ Expired[q] = "PENDING"
  /\ status' = [Expired EXCEPT ![q] = answer]
  /\ UNCHANGED <<late, rule, reader, applied>>

\* get_assignment_request reads the row.  Only a pending one is written later.
ReadRequest(g, q) ==
  /\ reader[g] = NoRead
  /\ status[q] = "PENDING"
  /\ reader' = [reader EXCEPT ![g] =
       [then |-> IF q \in late THEN "expire" ELSE "answer", of |-> q]]
  /\ UNCHANGED <<status, late, rule, applied>>

Write(g, value) ==
  /\ status' = [status EXCEPT ![reader[g].of] = value]
  /\ reader' = [reader EXCEPT ![g] = NoRead]

WriteExpired(g) ==
  /\ reader[g].then = "expire"
  /\ Write(g, "EXPIRED")
  /\ UNCHANGED <<late, rule, applied>>

\* Mutant: used-up rules match as well.
MatchingUsed(q) == {c \in Rules : q \in rule[c].matches}
Matching(q) == {c \in Rules : rule[c].active /\ q \in rule[c].matches}

\* A queued response that is due is applied, and used up if it is one-time.
ApplyRule(g, c) ==
  /\ reader[g].then = "answer"
  /\ c \in Matching(reader[g].of)
  /\ Write(g, rule[c].answer)
  /\ rule' = [rule EXCEPT ![c].active = ~rule[c].once]
  /\ applied' = [applied EXCEPT ![c] = IF rule[c].once THEN @ + 1 ELSE @]
  /\ UNCHANGED late

ApplyDefault(g) ==
  /\ reader[g].then = "answer"
  /\ Matching(reader[g].of) = {} /\ Default # "none"
  /\ Write(g, Default)
  /\ UNCHANGED <<late, rule, applied>>

\* No rule and no default, the rule is not due yet, or the time of the request
\* has passed since it was read.
LeavePending(g) ==
  /\ reader[g].then = "answer"
  /\ Matching(reader[g].of) # {} \/ Default = "none" \/ reader[g].of \in late
  /\ reader' = [reader EXCEPT ![g] = NoRead]
  /\ UNCHANGED <<status, late, rule, applied>>

\* configure_legacy_response
QueueResponse(c) ==
  /\ rule[c] = NoRule
  /\ \E queued \in Queued : rule' = [rule EXCEPT ![c] = queued]
  /\ UNCHANGED <<status, late, reader, applied>>

\* A rule whose expires_at has passed is disabled before it can match.
RuleElapses(c) ==
  /\ rule[c].active
  /\ rule' = [rule EXCEPT ![c].active = FALSE]
  /\ UNCHANGED <<status, late, reader, applied>>

RequestElapses(q) ==
  /\ status[q] # "absent" /\ q \notin late
  /\ late' = late \cup {q}
  /\ UNCHANGED <<status, rule, reader, applied>>

Next ==
  \/ ListRequests
  \/ \E q \in Requests :
       \/ CreateRequest(q)
       \/ \E answer \in Responses : RespondTo(q, answer)
       \/ RequestElapses(q)
  \/ \E g \in Readers :
       \/ \E q \in Requests : ReadRequest(g, q)
       \/ WriteExpired(g)
       \/ \E c \in Rules : ApplyRule(g, c)
       \/ ApplyDefault(g)
       \/ LeavePending(g)
  \/ \E c \in Rules : QueueResponse(c) \/ RuleElapses(c)

Spec == Init /\ [][Next]_vars

-----------------------------------------------------------------------------
\* Requests, rules and reads hold values the service can hold.
TypeOK ==
  /\ status \in [Requests -> {"absent", "PENDING"} \cup Final]
  /\ late \subseteq Requests
  /\ rule \in [Rules -> {NoRule} \cup [answer : Responses, matches : SUBSET Requests,
                                       once : BOOLEAN, active : BOOLEAN]]
  /\ reader \in [Readers -> [then : {"nothing", "expire", "answer"}, of : Requests \cup {"none"}]]
  /\ applied \in [Rules -> Nat]

\* A one-time response answers one request, however many GETs run together.
OneTimeRuleAnswersOnce == \A c \in Rules : applied[c] <= 1

\* A request is EXPIRED only after its time has passed.
ExpiredIsLate == \A q \in Requests : status[q] = "EXPIRED" => q \in late

BeingRead == {reader[g].of : g \in Readers}

\* What the service does keep of the finality of an answer: it is never
\* replaced unless a GET had read the request while it was pending.
FinalUnlessBeingRead ==
  [][\A q \in Requests :
       (status[q] \in Final /\ q \notin BeingRead) => status'[q] = status[q]]_vars
=============================================================================
