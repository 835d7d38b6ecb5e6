----------------------------- MODULE ServiceProofs -----------------------------
(***************************************************************************)
(* Theorems about the communication service and the incident service: its  *)
(* assignment requests, its failure mode and its notifications, and the    *)
(* incident records, for any number of rows and of concurrent requests.    *)
(* The four parts share no row; each has a section of its own.             *)
(***************************************************************************)
EXTENDS AssignmentRequests, FailureModes, Notifications, IncidentRecords,
        FiniteSetTheorems, SequenceTheorems, TLAPS

-----------------------------------------------------------------------------
(* Assignment requests                                                     *)

\* What a transaction that starts with the expiry update leaves is a status.
LEMMA ExpiredType ==
  ASSUME TypeOK
  PROVE  Expired \in [Requests -> {"absent", "PENDING"} \cup Final]
  BY DEF TypeOK, Expired, Final

\* A GET writes into the row it read and ends.
LEMMA WriteType ==
  ASSUME TypeOK, NEW g \in Readers, NEW value \in Final, Write(g, value)
  PROVE  /\ status' \in [Requests -> {"absent", "PENDING"} \cup Final]
         /\ reader' \in [Readers -> [then : {"nothing", "expire", "answer"},
                                     of : Requests \cup {"none"}]]
  BY DEF TypeOK, Write, NoRead, Final

\* Every reachable state is well typed.
THEOREM TypeCorrect == Spec => []TypeOK
<1>1. Init => TypeOK
  BY DEF Init, TypeOK, NoRule, NoRead
<1>2. TypeOK /\ [Next]_vars => TypeOK'
  <2> SUFFICES ASSUME TypeOK, [Next]_vars PROVE TypeOK'
    OBVIOUS
  <2>1. CASE ListRequests
    BY <2>1, ExpiredType DEF ListRequests, TypeOK
  <2>2. ASSUME NEW q \in Requests,
               CreateRequest(q) \/ (\E answer \in Responses : RespondTo(q, answer))
        PROVE  TypeOK'
    BY <2>2, ExpiredType DEF CreateRequest, RespondTo, TypeOK, Final
  <2>3. ASSUME NEW q \in Requests, RequestElapses(q)
        PROVE  TypeOK'
    BY <2>3 DEF RequestElapses, TypeOK
  <2>4. ASSUME NEW g \in Readers, NEW q \in Requests, ReadRequest(g, q)
        PROVE  TypeOK'
    BY <2>4 DEF ReadRequest, TypeOK
  <2>5. ASSUME NEW g \in Readers, WriteExpired(g)
        PROVE  TypeOK'
    <3>1. "EXPIRED" \in Final
      BY DEF Final
    <3>2. Write(g, "EXPIRED") /\ UNCHANGED <<late, rule, applied>>
      BY <2>5 DEF WriteExpired
    <3> QED
      BY <3>1, <3>2, WriteType DEF TypeOK
  <2>6. ASSUME NEW g \in Readers, NEW c \in Rules, ApplyRule(g, c)
        PROVE  TypeOK'
    <3>1. /\ rule[c].active /\ reader[g].of \in rule[c].matches
          /\ Write(g, rule[c].answer)
      BY <2>6 DEF ApplyRule, Matching
    <3>2. rule[c] \in [answer : Responses, matches : SUBSET Requests,
                       once : BOOLEAN, active : BOOLEAN]
      BY <3>1 DEF TypeOK, NoRule
    <3>3. rule[c].answer \in Final
      BY <3>2 DEF Final
    <3>4. rule' \in [Rules -> {NoRule} \cup [answer : Responses, matches : SUBSET Requests,
                                            once : BOOLEAN, active : BOOLEAN]]
      BY <2>6, <3>2 DEF ApplyRule, TypeOK
    <3>5. applied' \in [Rules -> Nat] /\ late' \subseteq Requests
      BY <2>6 DEF ApplyRule, TypeOK
    <3> QED
      BY <3>1, <3>3, <3>4, <3>5, WriteType DEF TypeOK
  <2>7. ASSUME NEW g \in Readers, ApplyDefault(g)
        PROVE  TypeOK'
    <3>1. Default \in Final
      BY <2>7, DefaultAssumption DEF ApplyDefault, Final, Responses
    <3>2. Write(g, Default) /\ UNCHANGED <<late, rule, applied>>
      BY <2>7 DEF ApplyDefault
    <3> QED
      BY <3>1, <3>2, WriteType DEF TypeOK
  <2>8. ASSUME NEW g \in Readers, LeavePending(g)
        PROVE  TypeOK'
    BY <2>8 DEF LeavePending, TypeOK, NoRead
  <2>9. ASSUME NEW c \in Rules, QueueResponse(c) \/ RuleElapses(c)
        PROVE  TypeOK'
    <3>1. CASE QueueResponse(c)
      <4>1. PICK queued \in Queued : rule' = [rule EXCEPT ![c] = queued]
        BY <3>1 DEF QueueResponse
      <4>2. queued \in [answer : Responses, matches : SUBSET Requests,
                        once : BOOLEAN, active : BOOLEAN]
        BY DEF Queued
      <4> QED
        BY <3>1, <4>1, <4>2 DEF QueueResponse, TypeOK
    <3>2. CASE RuleElapses(c)
      <4>1. rule[c] \in [answer : Responses, matches : SUBSET Requests,
                         once : BOOLEAN, active : BOOLEAN]
        BY <3>2 DEF RuleElapses, TypeOK, NoRule
      <4> QED
        BY <3>2, <4>1 DEF RuleElapses, TypeOK
    <3> QED
      BY <2>9, <3>1, <3>2
  <2>10. CASE UNCHANGED vars
    BY <2>10 DEF vars, TypeOK
  <2> QED
    BY <2>1, <2>2, <2>3, <2>4, <2>5, <2>6, <2>7, <2>8, <2>9, <2>10 DEF Next
<1> QED
  BY <1>1, <1>2, PTL DEF Spec

\* A rule that has been used as a one-time rule is inactive, and it is a rule
\* that matches something, so it cannot be queued anew.
RuleUsedUp ==
  \A c \in Rules :
    /\ applied[c] \in {0, 1}
    /\ applied[c] = 1 => ~rule[c].active /\ rule[c].matches # {}

\* A one-time response answers at most one request, for any number of GETs.
THEOREM UsedOnce == Spec => []OneTimeRuleAnswersOnce
<1>1. Init => RuleUsedUp
  BY DEF Init, RuleUsedUp
<1>2. TypeOK /\ RuleUsedUp /\ [Next]_vars => RuleUsedUp'
  <2> SUFFICES ASSUME TypeOK, RuleUsedUp, [Next]_vars PROVE RuleUsedUp'
    OBVIOUS
  <2>1. ASSUME UNCHANGED <<rule, applied>> PROVE RuleUsedUp'
    BY <2>1 DEF RuleUsedUp
  <2>2. ASSUME NEW g \in Readers, NEW c \in Rules, ApplyRule(g, c)
        PROVE  RuleUsedUp'
    <3>1. rule[c].active /\ rule[c].matches # {}
      BY <2>2 DEF ApplyRule, Matching
    <3>2. rule[c] \in [answer : Responses, matches : SUBSET Requests,
                       once : BOOLEAN, active : BOOLEAN]
      BY <3>1 DEF TypeOK, NoRule
    <3>3. applied[c] = 0
      BY <3>1 DEF RuleUsedUp
    <3>4. /\ rule' = [rule EXCEPT ![c].active = ~rule[c].once]
          /\ applied' = [applied EXCEPT ![c] = IF rule[c].once THEN applied[c] + 1 ELSE applied[c]]
      BY <2>2 DEF ApplyRule
    <3>5. applied'[c] = IF rule[c].once THEN 1 ELSE 0
      BY <3>3, <3>4 DEF TypeOK
    <3>6. rule'[c].active = ~rule[c].once /\ rule'[c].matches = rule[c].matches
      BY <3>2, <3>4 DEF TypeOK
    <3>7. \A d \in Rules \ {c} : applied'[d] = applied[d] /\ rule'[d] = rule[d]
      BY <3>4 DEF TypeOK
    <3> QED
      BY <3>1, <3>2, <3>5, <3>6, <3>7 DEF RuleUsedUp
  <2>3. ASSUME NEW c \in Rules, QueueResponse(c)
        PROVE  RuleUsedUp'
    <3>1. applied[c] = 0
      BY <2>3 DEF QueueResponse, NoRule, RuleUsedUp
    <3> QED
      BY <2>3, <3>1 DEF QueueResponse, RuleUsedUp, TypeOK
  <2>4. ASSUME NEW c \in Rules, RuleElapses(c)
        PROVE  RuleUsedUp'
    BY <2>4 DEF RuleElapses, RuleUsedUp, TypeOK
  <2> QED
    BY <2>1, <2>2, <2>3, <2>4
    DEF Next, vars, ListRequests, CreateRequest, RespondTo, RequestElapses, ReadRequest,
        WriteExpired, ApplyDefault, LeavePending
<1>3. RuleUsedUp => OneTimeRuleAnswersOnce
  BY DEF RuleUsedUp, OneTimeRuleAnswersOnce
<1> QED
  BY <1>1, <1>2, <1>3, TypeCorrect, PTL DEF Spec

\* A GET writes EXPIRED only over a request it found late, and a request that
\* is late stays late.
LateReads ==
  /\ ExpiredIsLate
  /\ \A g \in Readers : reader[g].then = "expire" => reader[g].of \in late

\* A request is EXPIRED only after its time has passed, however late the write.
THEOREM ExpiresLate == Spec => []ExpiredIsLate
<1>1. Init => LateReads
  BY DEF Init, LateReads, ExpiredIsLate, NoRead
<1>2. TypeOK /\ LateReads /\ [Next]_vars => LateReads'
  <2> SUFFICES ASSUME TypeOK, LateReads, [Next]_vars PROVE LateReads'
    OBVIOUS
  <2>1. \A q \in Requests : Expired[q] = "EXPIRED" => q \in late
    BY DEF LateReads, ExpiredIsLate, Expired
  <2>2. CASE ListRequests
    BY <2>1, <2>2 DEF ListRequests, LateReads, ExpiredIsLate
  <2>3. ASSUME NEW q \in Requests,
               CreateRequest(q) \/ (\E answer \in Responses : RespondTo(q, answer))
        PROVE  LateReads'
    BY <2>1, <2>3, ExpiredType DEF CreateRequest, RespondTo, LateReads, ExpiredIsLate, Responses
  <2>4. ASSUME NEW q \in Requests, RequestElapses(q)
        PROVE  LateReads'
    BY <2>4 DEF RequestElapses, LateReads, ExpiredIsLate
  <2>5. ASSUME NEW g \in Readers, NEW q \in Requests, ReadRequest(g, q)
        PROVE  LateReads'
    BY <2>5 DEF ReadRequest, LateReads, ExpiredIsLate, TypeOK
  <2>6. ASSUME NEW g \in Readers, NEW value \in Final, Write(g, value), late' = late,
               value = "EXPIRED" => reader[g].of \in late
        PROVE  LateReads'
    <3>1. \A q \in Requests : status'[q] = "EXPIRED" => q \in late
      BY <2>6 DEF Write, LateReads, ExpiredIsLate, TypeOK
    <3>2. \A h \in Readers : reader'[h].then = "expire" => reader'[h].of \in late
      BY <2>6 DEF Write, LateReads, NoRead, TypeOK
    <3> QED
      BY <2>6, <3>1, <3>2 DEF LateReads, ExpiredIsLate
  <2>7. ASSUME NEW g \in Readers, WriteExpired(g)
        PROVE  LateReads'
    BY <2>6, <2>7 DEF WriteExpired, LateReads, Final
  <2>8. ASSUME NEW g \in Readers, NEW c \in Rules, ApplyRule(g, c)
        PROVE  LateReads'
    <3>1. rule[c].active
      BY <2>8 DEF ApplyRule, Matching
    <3>2. rule[c].answer \in Responses
      BY <3>1 DEF TypeOK, NoRule
    <3>3. rule[c].answer \in Final /\ rule[c].answer # "EXPIRED"
      BY <3>2 DEF Final, Responses
    <3> QED
      BY <2>6, <2>8, <3>3 DEF ApplyRule
  <2>9. ASSUME NEW g \in Readers, ApplyDefault(g)
        PROVE  LateReads'
    <3>1. Default \in Final /\ Default # "EXPIRED"
      BY <2>9, DefaultAssumption DEF ApplyDefault, Final, Responses
    <3> QED
      BY <2>6, <2>9, <3>1 DEF ApplyDefault
  <2>10. ASSUME NEW g \in Readers, LeavePending(g)
         PROVE  LateReads'
    BY <2>10 DEF LeavePending, LateReads, ExpiredIsLate, NoRead, TypeOK
  <2>11. ASSUME UNCHANGED <<status, late, reader>> PROVE LateReads'
    BY <2>11 DEF LateReads, ExpiredIsLate
  <2> QED
    BY <2>2, <2>3, <2>4, <2>5, <2>7, <2>8, <2>9, <2>10, <2>11
    DEF Next, vars, QueueResponse, RuleElapses
<1>3. LateReads => ExpiredIsLate
  BY DEF LateReads
<1> QED
  BY <1>1, <1>2, <1>3, TypeCorrect, PTL DEF Spec

\* An answer is replaced only by a GET that had read the request while it was
\* pending: every other write finds the row final.
THEOREM FinalOtherwise == Spec => FinalUnlessBeingRead
<1>1. ASSUME TypeOK, [Next]_vars,
             NEW q \in Requests, status[q] \in Final, q \notin BeingRead
      PROVE  status'[q] = status[q]
  <2>1. Expired[q] = status[q]
    BY <1>1 DEF Expired, Final, Responses
  <2>2. CASE ListRequests
    BY <2>1, <2>2 DEF ListRequests
  <2>3. ASSUME NEW p \in Requests,
               CreateRequest(p) \/ (\E answer \in Responses : RespondTo(p, answer))
        PROVE  status'[q] = status[q]
    <3>1. p # q
      BY <1>1, <2>1, <2>3 DEF CreateRequest, RespondTo, Final, Responses
    <3> QED
      BY <2>1, <2>3, <3>1, <1>1, ExpiredType DEF CreateRequest, RespondTo
  <2>4. ASSUME NEW g \in Readers, NEW value, Write(g, value)
        PROVE  status'[q] = status[q]
    <3>1. reader[g].of # q
      BY <1>1 DEF BeingRead
    <3> QED
      BY <1>1, <2>4, <3>1 DEF Write, TypeOK
  <2>5. ASSUME UNCHANGED status PROVE status'[q] = status[q]
    BY <2>5
  <2> QED
    BY <1>1, <2>2, <2>3, <2>4, <2>5
    DEF Next, vars, RequestElapses, ReadRequest, WriteExpired, ApplyRule, ApplyDefault,
        LeavePending, QueueResponse, RuleElapses
<1>2. TypeOK /\ [Next]_vars =>
        [\A q \in Requests : (status[q] \in Final /\ q \notin BeingRead) => status'[q] = status[q]]_vars
  BY <1>1
<1> QED
  BY <1>2, TypeCorrect, PTL DEF Spec, FinalUnlessBeingRead

-----------------------------------------------------------------------------
(* Notifications                                                           *)

\* A creation under way carries a payload that a client can send.
Sent == \A c \in Clients : client[c].at # "idle" => client[c].payload \in Payloads

NotesInv == NotesSound /\ Sent

\* A row that the legacy endpoint writes has the shape of a payload.
LEMMA LegacyPayload ==
  ASSUME NEW key \in Keys, NEW content \in Contents
  PROVE  Legacy(key, content) \in Payloads
BY NotesAssumption DEF Legacy, Payloads

\* A creation that has ended, whatever became of it.
LEMMA CreationEnds ==
  ASSUME NotesTypeOK, Sent, NEW c \in Clients,
         client' = [client EXCEPT ![c] = NoCreation]
  PROVE  /\ client' \in [Clients -> [at : {"idle", "lookup", "insert"},
                                     payload : Payloads \cup {NoPayload}]]
         /\ Sent'
BY DEF NotesTypeOK, Sent, NoCreation

\* The lookup acknowledges only what is stored.
LEMMA LookupSound ==
  ASSUME NotesInv, NEW c \in Clients, LookupKey(c)
  PROVE  NotesInv'
<1> DEFINE p == client[c].payload
<1> USE DEF NotesInv, NotesSound
<1>1. p \in Payloads /\ client[c].at = "lookup" /\ UNCHANGED <<notes, loaded>>
  BY DEF LookupKey, Sent
<1>2. CASE WithKey(p) = {}
  <2>1. client' = [client EXCEPT ![c].at = "insert"] /\ UNCHANGED promised
    BY <1>2 DEF LookupKey, Goto
  <2>2. NotesTypeOK' /\ Sent'
    BY <1>1, <2>1 DEF NotesTypeOK, Sent
  <2> QED
    BY <1>1, <2>1, <2>2 DEF OneNotificationPerKey, PromisesKept, PendingIsLoaded
<1>3. CASE WithKey(p) # {}
  <2>1. client' = [client EXCEPT ![c] = NoCreation]
    BY <1>3 DEF LookupKey, Finish
  <2>2. promised' \subseteq promised \cup {x \in {p} : \E row \in notes : Has(x, row)}
    BY <1>3 DEF LookupKey, Acknowledge, Replay, WithKey
  <2>3. NotesTypeOK' /\ Sent'
    BY <1>1, <2>1, <2>2, CreationEnds DEF NotesTypeOK
  <2>4. PromisesKept'
    BY <1>1, <2>2 DEF PromisesKept
  <2> QED
    BY <1>1, <2>3, <2>4 DEF OneNotificationPerKey, PendingIsLoaded
<1> QED
  BY <1>2, <1>3

\* The insert adds one row, which no stored row shares an id or a key with.
LEMMA InsertSound ==
  ASSUME NotesInv, NEW c \in Clients, InsertNotification(c)
  PROVE  NotesInv'
<1> DEFINE p == client[c].payload
<1> USE DEF NotesInv, NotesSound
<1>1. p \in Payloads /\ client' = [client EXCEPT ![c] = NoCreation]
  BY DEF InsertNotification, Sent, Finish
<1>2. CASE ~Unique(p)
  <2>1. UNCHANGED <<notes, promised, loaded>>
    BY <1>2 DEF InsertNotification
  <2> QED
    BY <1>1, <2>1, CreationEnds DEF NotesTypeOK, OneNotificationPerKey, PromisesKept, PendingIsLoaded
<1>3. CASE Unique(p)
  <2>1. notes' = notes \cup {Row(p)} /\ promised' = promised \cup {p} /\ UNCHANGED loaded
    BY <1>3 DEF InsertNotification, Acknowledge
  <2>2. /\ Row(p) \in [id : Ids, key : Keys \cup {NoKey}, content : Contents,
                       status : {"DELIVERED", "FAILED"}]
        /\ Row(p).status # "PENDING"
        /\ Has(p, Row(p)) /\ Row(p).id = p.id /\ Row(p).key = p.key
    BY <1>1 DEF Row, Has, Payloads
  <2>3. NotesTypeOK' /\ Sent'
    BY <1>1, <2>1, <2>2, CreationEnds DEF NotesTypeOK, NoteStatuses
  <2>4. OneNotificationPerKey'
    BY <1>3, <2>1, <2>2 DEF OneNotificationPerKey, Unique
  <2>5. PromisesKept' /\ PendingIsLoaded'
    BY <2>1, <2>2 DEF PromisesKept, PendingIsLoaded
  <2> QED
    BY <2>3, <2>4, <2>5
<1> QED
  BY <1>2, <1>3

\* No step of a creation, an update or a load leaves two rows with one key, or a
\* row with a sending that never was.
LEMMA NotesStep == NotesInv /\ [NotesNext]_noteVars => NotesInv'
<1> SUFFICES ASSUME NotesInv, [NotesNext]_noteVars PROVE NotesInv'
  OBVIOUS
<1> USE DEF NotesInv, NotesSound
<1>1. ASSUME NEW c \in Clients, NEW p \in Payloads, Create(c, p) PROVE NotesInv'
  BY <1>1 DEF Create, NotesTypeOK, Sent, OneNotificationPerKey, PromisesKept, PendingIsLoaded
<1>2. ASSUME NEW c \in Clients, Refuse(c) PROVE NotesInv'
  BY <1>2, CreationEnds
  DEF Refuse, Finish, NotesTypeOK, OneNotificationPerKey, PromisesKept, PendingIsLoaded
<1>3. ASSUME LoadNotes PROVE NotesInv'
  <2>1. \/ notes' = {}
        \/ \E p \in Payloads, st \in NoteStatuses : notes' = {Loaded(p, st)}
    BY <1>3 DEF LoadNotes
  <2>2. \A p \in Payloads, st \in NoteStatuses :
          Loaded(p, st) \in [id : Ids, key : Keys \cup {NoKey}, content : Contents,
                             status : NoteStatuses]
    BY DEF Loaded, Payloads
  <2>3. promised' = {} /\ loaded' = notes' /\ UNCHANGED client
    BY <1>3 DEF LoadNotes
  <2>4. NotesTypeOK' /\ Sent'
    BY <2>1, <2>2, <2>3 DEF NotesTypeOK, Sent
  <2>5. OneNotificationPerKey'
    BY <2>1 DEF OneNotificationPerKey
  <2> QED
    BY <2>3, <2>4, <2>5 DEF PromisesKept, PendingIsLoaded
<1>4. CASE UNCHANGED noteVars
  BY <1>4 DEF noteVars, NotesTypeOK, Sent, OneNotificationPerKey, PromisesKept, PendingIsLoaded
<1> QED
  BY <1>1, <1>2, <1>3, <1>4, LegacyPayload, LookupSound, InsertSound DEF NotesNext

\* One row for an id and for an idempotency key, and the payload of everyone who
\* was told so is stored, however many creations pass the lookups together.
THEOREM NotesStaySound == NotesSpec => []NotesSound
<1>1. NotesInit => NotesInv
  BY DEF NotesInit, NotesInv, NotesSound, Sent, NotesTypeOK, NoCreation,
         OneNotificationPerKey, PromisesKept, PendingIsLoaded
<1>2. NotesInv => NotesSound
  BY DEF NotesInv
<1> QED
  BY <1>1, <1>2, NotesStep, PTL DEF NotesSpec

-----------------------------------------------------------------------------
(* The failure mode                                                        *)

Sleepers == {c \in Callers : call[c].at = "sleep"}

\* A call sleeps only under a mode that was on, and once a one-time failure has
\* been reported the mode stays off until it is configured again: what can still
\* fail are the calls that sleep already.
ModesInv ==
  /\ ModesTypeOK
  /\ \A c \in Sleepers : call[c].read.enabled
  /\ hits > 0 => /\ ~mode.enabled
                 /\ hits + Cardinality(Sleepers) <= Cardinality(Callers)

\* Those who sleep are some of the callers, and finitely many.
LEMMA SleepersCounted ==
  /\ Cardinality(Callers) \in Nat /\ Cardinality(Sleepers) \in Nat
  /\ Cardinality(Sleepers) <= Cardinality(Callers)
<1>1. Sleepers \subseteq Callers
  BY DEF Sleepers
<1> QED
  BY <1>1, FS_Subset, FS_CardinalityType, ModesAssumption

\* The columns of a row after the UPDATE of a session.
LEMMA MergeType ==
  ASSUME NEW read \in Modes, NEW written \in Modes, NEW now \in Modes
  PROVE  /\ Merge(read, written, now) \in Modes
         /\ read.enabled /\ ~written.enabled => ~Merge(read, written, now).enabled
         /\ read.enabled = written.enabled => Merge(read, written, now).enabled = now.enabled
<1>1. Merge(read, written, now) =
        [enabled |-> IF written.enabled # read.enabled THEN written.enabled ELSE now.enabled,
         type |-> IF written.type # read.type THEN written.type ELSE now.type,
         once |-> IF written.once # read.once THEN written.once ELSE now.once,
         left |-> IF written.left # read.left THEN written.left ELSE now.left,
         affects |-> IF written.affects # read.affects THEN written.affects ELSE now.affects,
         expires |-> IF written.expires # read.expires THEN written.expires ELSE now.expires]
  BY DEF Merge, Columns
<1> QED
  BY <1>1 DEF Modes

\* The mode of a database without a row is off.
LEMMA DefaultModeType == DefaultMode \in Modes /\ ~DefaultMode.enabled
BY DEF DefaultMode, Modes

\* What a configuration leaves in the row, over whatever is there by now.
LEMMA ConfigureType ==
  ASSUME NEW read \in Modes, NEW wants \in {DefaultMode} \cup Configurations,
         NEW now \in Modes
  PROVE  Stored(Merge(read, wants, now)) \in Modes
<1>1. wants \in [enabled : BOOLEAN, type : {"HTTP_ERROR", "DELAY"}, once : BOOLEAN,
                 left : {"null", "zero", "one"}, affects : SUBSET Endpoints,
                 expires : {"never", "new"}]
  <2>1. CASE wants = DefaultMode
    BY <2>1 DEF DefaultMode
  <2>2. CASE wants \in Configurations
    <3>1. PICK on \in BOOLEAN, type \in {"HTTP_ERROR", "DELAY"}, once \in BOOLEAN,
               hit \in {Endpoints, {"notification:create"}}, until \in {"never", "new"} :
             wants = [enabled |-> on, type |-> type, once |-> once,
                      left |-> IF on /\ once THEN "one" ELSE "null", affects |-> hit,
                      expires |-> IF on THEN until ELSE "never"]
      BY <2>2 DEF Configurations
    <3>2. hit \in SUBSET Endpoints
      BY DEF Endpoints
    <3> QED
      BY <3>1, <3>2
  <2> QED
    BY <2>1, <2>2
<1>2. Merge(read, wants, now) =
        [enabled |-> IF wants.enabled # read.enabled THEN wants.enabled ELSE now.enabled,
         type |-> IF wants.type # read.type THEN wants.type ELSE now.type,
         once |-> IF wants.once # read.once THEN wants.once ELSE now.once,
         left |-> IF wants.left # read.left THEN wants.left ELSE now.left,
         affects |-> IF wants.affects # read.affects THEN wants.affects ELSE now.affects,
         expires |-> IF wants.expires # read.expires THEN wants.expires ELSE now.expires]
  BY DEF Merge, Columns
<1> QED
  BY <1>1, <1>2 DEF Stored, Modes

\* The use of a mode that was on: a one-time mode is switched off.
LEMMA UseType ==
  ASSUME NEW m \in Modes, m.enabled
  PROVE  /\ AfterUse(m) \in Modes
         /\ OneTime(m) => ~AfterUse(m).enabled
         /\ ~OneTime(m) => AfterUse(m) = m
BY DEF AfterUse, OneTime, OneLess, Modes

\* A call that leaves the gate sleeps no more.
LEMMA LeaveType ==
  ASSUME ModesTypeOK, NEW c \in Callers, Leave(c)
  PROVE  /\ call' \in [Callers -> [at : {"idle", "gate", "disable", "sleep"},
                                   endpoint : Endpoints \cup {"none"}, read : Modes]]
         /\ Sleepers' = Sleepers \ {c}
         /\ \A d \in Sleepers' : call'[d] = call[d]
<1>1. Idle \in [at : {"idle", "gate", "disable", "sleep"},
                endpoint : Endpoints \cup {"none"}, read : Modes]
  BY DefaultModeType DEF Idle
<1>2. call' = [call EXCEPT ![c] = Idle] /\ Idle.at = "idle"
  BY DEF Leave, Idle
<1>3. call \in [Callers -> [at : {"idle", "gate", "disable", "sleep"},
                            endpoint : Endpoints \cup {"none"}, read : Modes]]
  BY DEF ModesTypeOK
<1> QED
  BY <1>1, <1>2, <1>3 DEF Sleepers

\* Nobody fails and the mode is not switched on: what is counted still fits.
LEMMA StillCounted ==
  ASSUME ModesInv, NEW c \in Callers, Sleepers' \subseteq Sleepers,
         hits' = hits, hits > 0 => ~mode'.enabled
  PROVE  hits' > 0 => /\ ~mode'.enabled
                      /\ hits' + Cardinality(Sleepers') <= Cardinality(Callers)
<1>1. /\ Cardinality(Sleepers') <= Cardinality(Sleepers)
      /\ Cardinality(Sleepers') \in Nat /\ Cardinality(Sleepers) \in Nat
      /\ Cardinality(Callers) \in Nat
  <2>1. IsFiniteSet(Sleepers)
    BY FS_Subset, ModesAssumption DEF Sleepers
  <2> QED
    BY <2>1, FS_Subset, FS_CardinalityType, SleepersCounted
<1> QED
  BY <1>1 DEF ModesInv, ModesTypeOK

\* The use of a mode: the sleeper leaves, and its failure is counted instead.
LEMMA UseModeSound ==
  ASSUME ModesInv, NEW c \in Callers, UseMode(c)
  PROVE  ModesInv'
<1> DEFINE m == call[c].read
<1>1. c \in Sleepers /\ m \in Modes /\ m.enabled /\ mode \in Modes /\ ModesTypeOK
  BY DEF UseMode, At, Sleepers, ModesInv, ModesTypeOK
<1>2. /\ mode' = Merge(m, AfterUse(m), mode)
      /\ hits' = IF m.type # "DELAY" /\ OneTime(m) /\ hits <= Cardinality(Callers)
                 THEN hits + 1 ELSE hits
      /\ Leave(c) /\ UNCHANGED <<admin, configured>>
  BY DEF UseMode
<1>3. /\ AfterUse(m) \in Modes
      /\ OneTime(m) => ~AfterUse(m).enabled
      /\ ~OneTime(m) => AfterUse(m) = m
  BY <1>1, UseType
<1>4. mode' \in Modes /\ (OneTime(m) => ~mode'.enabled)
      /\ (~OneTime(m) => mode'.enabled = mode.enabled)
  BY <1>1, <1>2, <1>3, MergeType
<1>5. /\ call' \in [Callers -> [at : {"idle", "gate", "disable", "sleep"},
                                endpoint : Endpoints \cup {"none"}, read : Modes]]
      /\ Sleepers' = Sleepers \ {c} /\ \A d \in Sleepers' : call'[d] = call[d]
  BY <1>1, <1>2, LeaveType
<1>6. hits \in Nat /\ hits' \in Nat
  BY <1>1, <1>2 DEF ModesTypeOK
<1>7. ModesTypeOK'
  BY <1>1, <1>2, <1>4, <1>5, <1>6 DEF ModesTypeOK
<1>8. \A d \in Sleepers' : call'[d].read.enabled
  BY <1>5 DEF ModesInv
<1>9. Cardinality(Sleepers') = Cardinality(Sleepers) - 1
  <2>1. IsFiniteSet(Sleepers)
    BY FS_Subset, ModesAssumption DEF Sleepers
  <2> QED
    BY <1>1, <1>5, <2>1, FS_RemoveElement
<1>10. hits' > 0 => /\ ~mode'.enabled
                    /\ hits' + Cardinality(Sleepers') <= Cardinality(Callers)
  BY <1>1, <1>2, <1>4, <1>6, <1>9, SleepersCounted DEF ModesInv
<1> QED
  BY <1>7, <1>8, <1>10 DEF ModesInv

\* No call and no configuration breaks the row of the mode, or has it used more
\* often than there are callers asleep or served.
LEMMA ModesStep == ModesInv /\ [ModesNext]_modeVars => ModesInv'
<1> SUFFICES ASSUME ModesInv, [ModesNext]_modeVars PROVE ModesInv'
  OBVIOUS
<1> DEFINE CallType == [at : {"idle", "gate", "disable", "sleep"},
                        endpoint : Endpoints \cup {"none"}, read : Modes]
<1>1. ModesTypeOK /\ mode \in Modes /\ call \in [Callers -> CallType] /\ hits \in Nat
  BY DEF ModesInv, ModesTypeOK
<1>2. ASSUME NEW c \in Callers, NEW endpoint \in Endpoints, Enter(c, endpoint)
      PROVE  ModesInv'
  <2>1. call' \in [Callers -> CallType] /\ Sleepers' = Sleepers
        /\ \A d \in Sleepers : call'[d] = call[d]
    BY <1>1, <1>2, DefaultModeType DEF Enter, At, Sleepers
  <2> QED
    BY <1>1, <1>2, <2>1 DEF Enter, ModesInv, ModesTypeOK
<1>3. ASSUME NEW c \in Callers, PassGate(c) PROVE ModesInv'
  <2>1. Leave(c) /\ UNCHANGED <<mode, admin, configured, hits>>
    BY <1>3 DEF PassGate
  <2> QED
    BY <1>1, <2>1, LeaveType, StillCounted DEF ModesInv, ModesTypeOK
<1>4. ASSUME NEW c \in Callers, ReadMode(c) PROVE ModesInv'
  <2>1. UNCHANGED <<mode, admin, configured, hits>>
    BY <1>4 DEF ReadMode
  <2>2. call' = [call EXCEPT ![c].read = mode,
                             ![c].at = IF Late \/ UsedUp THEN "disable" ELSE "sleep"]
    BY <1>4 DEF ReadMode
  <2>3. call' \in [Callers -> CallType]
    BY <1>1, <2>2
  <2>4. mode.enabled
    BY <1>4 DEF ReadMode, Late, Applies
  <2>5. \A d \in Sleepers' : call'[d].read.enabled
    BY <1>1, <2>2, <2>4 DEF Sleepers, ModesInv
  <2>6. ~(hits > 0)
    BY <2>4 DEF ModesInv
  <2> QED
    BY <1>1, <2>1, <2>3, <2>5, <2>6 DEF ModesInv, ModesTypeOK
<1>5. ASSUME NEW c \in Callers, DisableMode(c) PROVE ModesInv'
  <2>1. Leave(c) /\ UNCHANGED <<admin, configured, hits>>
    BY <1>5 DEF DisableMode
  <2>2. mode' \in Modes /\ ~mode'.enabled
    BY <1>1, <1>5 DEF DisableMode, Modes
  <2> QED
    BY <1>1, <2>1, <2>2, LeaveType, StillCounted DEF ModesInv, ModesTypeOK
<1>6. ASSUME NEW a \in Admins, NEW wanted \in Configurations, ReadToConfigure(a, wanted)
      PROVE  ModesInv'
  <2>1. UNCHANGED <<mode, call, hits>> /\ configured' = configured + 1
        /\ configured < MaxConfigured
    BY <1>6 DEF ReadToConfigure
  <2>2. admin' \in [Admins -> [at : {"idle", "write"}, read : Modes,
                               wants : {DefaultMode} \cup Configurations]]
    BY <1>1, <1>6 DEF ReadToConfigure, ModesTypeOK
  <2>3. configured' \in 0..MaxConfigured
    BY <2>1, ModesAssumption DEF ModesInv, ModesTypeOK
  <2> QED
    BY <1>1, <2>1, <2>2, <2>3 DEF ModesInv, ModesTypeOK, Sleepers
<1>7. ASSUME NEW a \in Admins, Configure(a) PROVE ModesInv'
  <2>1. UNCHANGED <<call, configured>> /\ hits' = 0
    BY <1>7 DEF Configure
  <2>2. admin[a].read \in Modes /\ admin[a].wants \in {DefaultMode} \cup Configurations
    BY <1>1 DEF ModesTypeOK
  <2>3. mode' \in Modes
    BY <1>1, <1>7, <2>2, ConfigureType DEF Configure
  <2>4. admin' \in [Admins -> [at : {"idle", "write"}, read : Modes,
                               wants : {DefaultMode} \cup Configurations]]
    BY <1>1, <1>7, DefaultModeType DEF Configure, NotConfiguring, ModesTypeOK
  <2> QED
    BY <1>1, <2>1, <2>3, <2>4 DEF ModesInv, ModesTypeOK, Sleepers
<1>8. ASSUME ModeElapses \/ DeactivateExpired \/ Load PROVE ModesInv'
  <2>1. UNCHANGED <<call, admin, configured, hits>>
    BY <1>8 DEF ModeElapses, DeactivateExpired, Load
  <2>2. mode' \in Modes /\ (mode'.enabled => mode.enabled)
    BY <1>1, <1>8, DefaultModeType DEF ModeElapses, DeactivateExpired, Load, Modes
  <2> QED
    BY <1>1, <2>1, <2>2 DEF ModesInv, ModesTypeOK, Sleepers
<1>9. CASE UNCHANGED modeVars
  BY <1>9 DEF modeVars, ModesInv, ModesTypeOK, Sleepers
<1> QED
  BY <1>2, <1>3, <1>4, <1>5, <1>6, <1>7, <1>8, <1>9, UseModeSound DEF ModesNext

\* The row of the failure mode is one the schema allows whatever is configured,
\* used and expires at the same time, and a one-time failure fails no more calls
\* than can be in flight together, for any number of callers.
THEOREM ModesStaySound == ModesSpec => []ModesSound
<1>1. ModesInit => ModesInv
  <2> SUFFICES ASSUME ModesInit PROVE ModesInv
    OBVIOUS
  <2>1. ModesTypeOK
    BY DefaultModeType, ModesAssumption
    DEF ModesInit, ModesTypeOK, Idle, NotConfiguring
  <2> QED
    BY <2>1 DEF ModesInit, ModesInv, Sleepers, Idle
<1>2. ModesInv => ModesSound
  BY SleepersCounted DEF ModesInv, ModesSound, OneTimeModeIsBounded, ModesTypeOK
<1> QED
  BY <1>1, <1>2, ModesStep, PTL DEF ModesSpec

-----------------------------------------------------------------------------
(* Incident records                                                        *)

Updating == {"status", "assign", "fields", "resolve"}

\* What an update wants to write follows from a row that was not closed: it
\* keeps the incident, and unless it assigns or resolves, the assignment too.
Wish(u) ==
  /\ u.op \in Updating => /\ u.id > 0
                          /\ u.row.incident = u.read.incident
                          /\ u.read.status # "CLOSED"
  /\ u.op \in {"status", "fields"} => /\ u.row.specialist = u.read.specialist
                                      /\ u.row.run = u.read.run

\* The pairs of specialist and run in the table, and those that are about to be
\* written, have been given by requests.
GivenTogether ==
  /\ \A k \in 1..Len(table) : Pairs(table[k].specialist, table[k].run) \subseteq given
  /\ \A q \in Updates : Pairs(update[q].row.specialist, update[q].row.run) \subseteq given

RecordsInv ==
  /\ RecordsTypeOK /\ OneRowPerIncident
  /\ \A q \in Updates : Wish(update[q])
  /\ stale \/ GivenTogether

UpdateType == [op: {"none", "create"} \cup Updating, id: 0..MaxRows, read: Rows, row: Rows]

\* The columns of a row after an UPDATE that carries what has changed.
LEMMA MergedRow ==
  ASSUME NEW now \in Rows, NEW read \in Rows, NEW row \in Rows
  PROVE  /\ MergeColumns(now, read, row) \in Rows
         /\ row.incident = read.incident =>
              MergeColumns(now, read, row).incident = now.incident
         /\ row.specialist = read.specialist =>
              MergeColumns(now, read, row).specialist = now.specialist
         /\ row.run = read.run => MergeColumns(now, read, row).run = now.run
         /\ now = read => MergeColumns(now, read, row) = row
<1>1. MergeColumns(now, read, row) =
        [incident |-> IF row.incident = read.incident THEN now.incident ELSE row.incident,
         status |-> IF row.status = read.status THEN now.status ELSE row.status,
         specialist |-> IF row.specialist = read.specialist THEN now.specialist
                        ELSE row.specialist,
         run |-> IF row.run = read.run THEN now.run ELSE row.run,
         fields |-> IF row.fields = read.fields THEN now.fields ELSE row.fields]
  BY DEF MergeColumns, Rows
<1> QED
  BY <1>1 DEF Rows

\* A row is changed or added.
LEMMA TableType ==
  ASSUME table \in Seq(Rows), NEW x \in Rows
  PROVE  /\ \A k \in 1..Len(table) : [table EXCEPT ![k] = x] \in Seq(Rows)
         /\ Append(table, x) \in Seq(Rows)
BY ExceptSeq, AppendProperties

\* A request that has ended wants nothing.
LEMMA NoUpdateType == NoUpdate \in UpdateType /\ Wish(NoUpdate)
                      /\ Pairs(NoUpdate.row.specialist, NoUpdate.row.run) = {}
<1>1. (CHOOSE i \in Incidents : TRUE) \in Incidents
  BY RecordsAssumption
<1> QED
  BY <1>1, RecordsAssumption
  DEF NoUpdate, NewRow, UpdateType, Updating, Rows, Statuses, Wish, Pairs

\* A row of the table, by its primary key.
LEMMA RowType ==
  ASSUME RecordsTypeOK, NEW k \in 1..Len(table)
  PROVE  table[k] \in Rows
BY ElementOfSeq DEF RecordsTypeOK

\* What a row says was assigned is a specialist and a run.
LEMMA PairsType ==
  ASSUME NEW s \in Specialists \cup {None}, NEW r \in Runs \cup {None}
  PROVE  Pairs(s, r) \subseteq (Specialists \cup {None}) \X Runs
BY DEF Pairs

\* What a table says was assigned, row by row.
LEMMA PairsOfTable ==
  ASSUME NEW t \in Seq(Rows)
  PROVE  /\ \A k \in 1..Len(t) : Pairs(t[k].specialist, t[k].run) \subseteq PairsOf(t)
         /\ PairsOf(t) \subseteq (Specialists \cup {None}) \X Runs
<1>1. ASSUME NEW k \in 1..Len(t)
      PROVE  /\ Pairs(t[k].specialist, t[k].run) \subseteq PairsOf(t)
             /\ Pairs(t[k].specialist, t[k].run) \subseteq (Specialists \cup {None}) \X Runs
  <2>1. t[k] \in Rows
    BY ElementOfSeq
  <2>2. t[k].specialist \in Specialists \cup {None} /\ t[k].run \in Runs \cup {None}
    BY <2>1 DEF Rows
  <2> QED
    BY <2>2, PairsType DEF PairsOf
<1> QED
  BY <1>1 DEF PairsOf

\* A request reads a row that is not closed and decides what to write.
LEMMA ReadSound ==
  ASSUME RecordsInv, NEW q \in Updates, NEW k \in 1..Len(table),
         NEW op \in Updating, NEW wanted \in Rows, Read(q, k, op, wanted),
         table[k].status # "CLOSED", wanted.incident = table[k].incident,
         op \in {"status", "fields"} =>
           wanted.specialist = table[k].specialist /\ wanted.run = table[k].run,
         given \subseteq given', given' \subseteq (Specialists \cup {None}) \X Runs,
         stale \/ Pairs(wanted.specialist, wanted.run) \subseteq given'
  PROVE  RecordsInv'
<1> DEFINE new == [op |-> op, id |-> k, read |-> table[k], row |-> wanted]
<1>1. RecordsTypeOK /\ table[k] \in Rows
  BY RowType DEF RecordsInv
<1>2. update \in [Updates -> UpdateType] /\ k \in 0..MaxRows /\ k > 0
  BY <1>1, RecordsAssumption, LenProperties DEF RecordsTypeOK, UpdateType, Updating
<1>3. new \in UpdateType /\ Wish(new)
  BY <1>1, <1>2 DEF UpdateType, Wish
<1>4. update' = [update EXCEPT ![q] = new] /\ UNCHANGED <<table, stale>>
  BY DEF Read
<1>5. update' \in [Updates -> UpdateType]
  BY <1>2, <1>3, <1>4
<1>6. RecordsTypeOK'
  BY <1>1, <1>4, <1>5 DEF RecordsTypeOK, UpdateType, Updating
<1>7. \A p \in Updates : Wish(update'[p])
  BY <1>2, <1>3, <1>4 DEF RecordsInv
<1>8. stale' \/ GivenTogether'
  BY <1>2, <1>4 DEF RecordsInv, GivenTogether
<1> QED
  BY <1>4, <1>6, <1>7, <1>8 DEF RecordsInv, OneRowPerIncident

\* The four updates.
LEMMA UpdateSound ==
  ASSUME RecordsInv, NEW q \in Updates,
         UpdateStatus(q) \/ AssignSpecialist(q) \/ UpdateFields(q) \/ Resolve(q)
  PROVE  RecordsInv'
<1> USE DEF ClosedStatuses
<1>1. \A k \in 1..Len(table) : table[k] \in Rows
  BY RowType DEF RecordsInv
<1>2. \A k \in 1..Len(table) : stale \/ Pairs(table[k].specialist, table[k].run) \subseteq given
  BY DEF RecordsInv, GivenTogether
<1>3. given \subseteq (Specialists \cup {None}) \X Runs
  BY DEF RecordsInv, RecordsTypeOK
<1>4. CASE UpdateStatus(q)
  <2>1. PICK k \in 1..Len(table), s \in Statuses :
          /\ s \in Transitions(table[k].status)
          /\ Read(q, k, "status", [table[k] EXCEPT !.status = s])
    BY <1>4 DEF UpdateStatus
  <2>2. table[k].status # "CLOSED"
    BY <2>1 DEF Transitions, AllowedTransitions
  <2>3. [table[k] EXCEPT !.status = s] \in Rows
    BY <1>1 DEF Rows
  <2> QED
    BY <1>1, <1>2, <1>3, <1>4, <2>1, <2>2, <2>3, ReadSound
    DEF UpdateStatus, Rows, Updating
<1>5. CASE AssignSpecialist(q)
  <2>1. PICK k \in 1..Len(table), s \in Specialists, r \in Runs \cup {None} :
          /\ table[k].status \notin ClosedStatuses
          /\ Read(q, k, "assign", Assigned(table[k], s, r))
          /\ given' = given \cup Pairs(s, r)
    BY <1>5 DEF AssignSpecialist
  <2>2. /\ Assigned(table[k], s, r) \in Rows
        /\ Assigned(table[k], s, r).incident = table[k].incident
        /\ \/ Assigned(table[k], s, r) = table[k]
           \/ /\ Assigned(table[k], s, r).specialist = s
              /\ Assigned(table[k], s, r).run = r
    BY <1>1 DEF Assigned, Rows
  <2>3. stale \/ Pairs(Assigned(table[k], s, r).specialist, Assigned(table[k], s, r).run)
                   \subseteq given'
    BY <1>2, <2>1, <2>2
  <2>4. given' \subseteq (Specialists \cup {None}) \X Runs
    BY <1>3, <2>1, PairsType
  <2> QED
    BY <2>1, <2>2, <2>3, <2>4, ReadSound DEF Updating
<1>6. CASE UpdateFields(q)
  <2>1. PICK k \in 1..Len(table) :
          /\ table[k].status \notin ClosedStatuses
          /\ Read(q, k, "fields", [table[k] EXCEPT !.fields = "new"])
    BY <1>6 DEF UpdateFields
  <2>2. [table[k] EXCEPT !.fields = "new"] \in Rows
    BY <1>1 DEF Rows
  <2> QED
    BY <1>1, <1>2, <1>3, <1>6, <2>1, <2>2, ReadSound DEF UpdateFields, Rows, Updating
<1>7. CASE Resolve(q)
  <2>1. PICK k \in 1..Len(table) :
          /\ table[k].status \notin ClosedStatuses
          /\ Read(q, k, "resolve", [table[k] EXCEPT !.status = "RESOLVED",
                                      !.specialist = None, !.run = None])
    BY <1>7 DEF Resolve
  <2> DEFINE wanted == [table[k] EXCEPT !.status = "RESOLVED",
                                        !.specialist = None, !.run = None]
  <2>2. /\ wanted \in Rows /\ wanted.incident = table[k].incident
        /\ Pairs(wanted.specialist, wanted.run) = {}
    BY <1>1 DEF Rows, Statuses, Pairs
  <2>3. given' = given
    BY <1>7 DEF Resolve
  <2> QED
    BY <1>3, <2>1, <2>2, <2>3, ReadSound DEF Updating
<1> QED
  BY <1>4, <1>5, <1>6, <1>7

\* A request that has ended wishes nothing.
LEMMA UpdateEnds ==
  ASSUME RecordsInv, NEW q \in Updates, update' = [update EXCEPT ![q] = NoUpdate]
  PROVE  /\ update' \in [Updates -> UpdateType]
         /\ \A p \in Updates : Wish(update'[p])
         /\ stale \/ \A p \in Updates :
              Pairs(update'[p].row.specialist, update'[p].row.run) \subseteq given
<1>1. update \in [Updates -> UpdateType]
  BY DEF RecordsInv, RecordsTypeOK, UpdateType, Updating
<1>2. \A p \in Updates : update'[p] \in {NoUpdate, update[p]}
  BY <1>1
<1> QED
  BY <1>1, <1>2, NoUpdateType DEF RecordsInv, GivenTogether

\* An UPDATE that finds its row as it was read stores what the request wanted;
\* one that finds another row is noted as stale.
LEMMA WriteSound ==
  ASSUME RecordsInv, NEW q \in Updates, WriteRow(q)
  PROVE  RecordsInv'
<1> DEFINE u == update[q]
           merged == MergeColumns(table[u.id], u.read, u.row)
<1>1. /\ u \in UpdateType /\ Wish(u) /\ u.op \in Updating
      /\ RecordsTypeOK /\ table \in Seq(Rows) /\ OneRowPerIncident
  BY DEF WriteRow, RecordsInv, RecordsTypeOK, UpdateType, Updating
<1>2. /\ update' = [update EXCEPT ![q] = NoUpdate] /\ given' = given
  BY DEF WriteRow
<1>3. /\ update' \in [Updates -> UpdateType]
      /\ \A p \in Updates : Wish(update'[p])
      /\ stale \/ \A p \in Updates :
           Pairs(update'[p].row.specialist, update'[p].row.run) \subseteq given
  BY <1>2, UpdateEnds
<1>4. CASE u.id > Len(table)
  <2>1. UNCHANGED <<table, stale>>
    BY <1>1, <1>4, LenProperties DEF WriteRow, UpdateType
  <2> QED
    BY <1>1, <1>2, <1>3, <2>1
    DEF RecordsInv, RecordsTypeOK, OneRowPerIncident, GivenTogether, UpdateType, Updating
<1>5. CASE u.id <= Len(table)
  <2>1. /\ table' = [table EXCEPT ![u.id] = merged]
        /\ stale' = (stale \/ table[u.id] # u.read)
    BY <1>5 DEF WriteRow
  <2>2. u.id \in 1..Len(table) /\ Len(table) \in Nat
    BY <1>1, <1>5, LenProperties DEF Wish, UpdateType
  <2>3. table[u.id] \in Rows /\ u.read \in Rows /\ u.row \in Rows
    BY <1>1, <2>2, RowType DEF UpdateType
  <2>4. /\ merged \in Rows /\ merged.incident = table[u.id].incident
        /\ table[u.id] = u.read => merged = u.row
    BY <1>1, <2>3, MergedRow DEF Wish
  <2>5. /\ table' \in Seq(Rows) /\ Len(table') = Len(table)
        /\ \A j \in 1..Len(table) : table'[j] = IF j = u.id THEN merged ELSE table[j]
    BY <1>1, <2>1, <2>2, <2>4, ExceptSeq
  <2>6. RecordsTypeOK'
    BY <1>1, <1>2, <1>3, <2>1, <2>5 DEF RecordsTypeOK, UpdateType, Updating
  <2>7. OneRowPerIncident'
    BY <1>1, <2>2, <2>4, <2>5 DEF OneRowPerIncident, OneRowEach
  <2>8. stale' \/ GivenTogether'
    <3> SUFFICES ASSUME ~stale' PROVE GivenTogether'
      OBVIOUS
    <3>1. ~stale /\ table[u.id] = u.read /\ GivenTogether
      BY <2>1 DEF RecordsInv, RecordsTypeOK
    <3>2. Pairs(merged.specialist, merged.run) \subseteq given
      BY <2>4, <3>1 DEF GivenTogether
    <3> QED
      BY <1>2, <1>3, <2>5, <3>1, <3>2 DEF GivenTogether
  <2> QED
    BY <1>3, <2>6, <2>7, <2>8 DEF RecordsInv
<1> QED
  BY <1>1, <1>4, <1>5, LenProperties DEF UpdateType

\* A creation that finds no row, and the insert that may meet another one.
LEMMA CreateSound ==
  ASSUME RecordsInv, NEW q \in Updates, CreateRead(q) \/ CreateInsert(q)
  PROVE  RecordsInv'
<1>1. /\ RecordsTypeOK /\ OneRowPerIncident /\ table \in Seq(Rows) /\ Len(table) \in Nat
      /\ update \in [Updates -> UpdateType]
  BY LenProperties DEF RecordsInv, RecordsTypeOK, UpdateType, Updating
<1>2. CASE CreateRead(q)
  <2>1. PICK i \in Incidents, s \in Specialists \cup {None} :
          update' = [update EXCEPT ![q] = [NoUpdate EXCEPT !.op = "create",
                                                           !.row = NewRow(i, s)]]
    BY <1>2 DEF CreateRead
  <2> DEFINE new == [NoUpdate EXCEPT !.op = "create", !.row = NewRow(i, s)]
  <2>2. NewRow(i, s) \in Rows /\ Pairs(NewRow(i, s).specialist, NewRow(i, s).run) = {}
    BY DEF NewRow, Rows, Statuses, Pairs
  <2>3. new \in UpdateType /\ new.row = NewRow(i, s) /\ new.op = "create"
    BY <2>2, NoUpdateType DEF UpdateType
  <2>4. Wish(new)
    BY <2>3 DEF Wish, Updating
  <2>5. UNCHANGED <<table, given, stale>>
    BY <1>2 DEF CreateRead
  <2>6. update' \in [Updates -> UpdateType]
    BY <1>1, <2>1, <2>3
  <2>7. \A p \in Updates : update'[p] \in {new, update[p]}
    BY <1>1, <2>1
  <2>8. RecordsTypeOK'
    BY <1>1, <2>5, <2>6 DEF RecordsTypeOK, UpdateType, Updating
  <2>9. \A p \in Updates : Wish(update'[p])
    BY <2>4, <2>7 DEF RecordsInv
  <2>10. stale' \/ GivenTogether'
    BY <2>2, <2>3, <2>5, <2>7 DEF RecordsInv, GivenTogether
  <2> QED
    BY <1>1, <2>5, <2>8, <2>9, <2>10 DEF RecordsInv, OneRowPerIncident
<1>3. CASE CreateInsert(q)
  <2> DEFINE row == update[q].row
  <2>1. /\ update' = [update EXCEPT ![q] = NoUpdate]
        /\ UNCHANGED <<given, stale>> /\ Len(table) < MaxRows
        /\ \/ table' = Append(table, row) /\ OneRowEach(Append(table, row))
           \/ UNCHANGED table
    BY <1>3 DEF CreateInsert, UniqueAfter
  <2>2. /\ update' \in [Updates -> UpdateType]
        /\ \A p \in Updates : Wish(update'[p])
        /\ stale \/ \A p \in Updates :
             Pairs(update'[p].row.specialist, update'[p].row.run) \subseteq given
    BY <2>1, UpdateEnds
  <2>3. CASE UNCHANGED table
    BY <1>1, <2>1, <2>2, <2>3
    DEF RecordsInv, RecordsTypeOK, OneRowPerIncident, GivenTogether, UpdateType, Updating
  <2>4. CASE table' = Append(table, row) /\ OneRowEach(Append(table, row))
    <3>1. row \in Rows
      BY <1>1 DEF UpdateType
    <3>2. /\ table' \in Seq(Rows) /\ Len(table') = Len(table) + 1
          /\ \A j \in 1..Len(table) : table'[j] = table[j]
          /\ table'[Len(table) + 1] = row
      BY <1>1, <2>4, <3>1, AppendProperties
    <3>3. RecordsTypeOK'
      BY <1>1, <2>1, <2>2, <3>2, RecordsAssumption
      DEF RecordsTypeOK, UpdateType, Updating
    <3>4. stale' \/ GivenTogether'
      BY <1>1, <2>1, <2>2, <3>2 DEF RecordsInv, GivenTogether
    <3> QED
      BY <2>2, <2>4, <3>3, <3>4 DEF RecordsInv, OneRowPerIncident
  <2> QED
    BY <2>1, <2>3, <2>4
<1> QED
  BY <1>2, <1>3

\* A table that is loaded brings its own assignments along.
LEMMA ReloadSound ==
  ASSUME RecordsInv, Reload
  PROVE  RecordsInv'
<1>1. PICK t \in Seeds : table' = t /\ given' = given \cup PairsOf(t)
  BY DEF Reload
<1>2. t \in Seq(Rows) /\ Len(t) <= MaxRows /\ OneRowEach(t) /\ UNCHANGED <<update, stale>>
  BY RecordsAssumption DEF Reload
<1>3. \A k \in 1..Len(t) : Pairs(t[k].specialist, t[k].run) \subseteq PairsOf(t)
  BY <1>2, PairsOfTable
<1>4. PairsOf(t) \subseteq (Specialists \cup {None}) \X Runs
  BY <1>2, PairsOfTable
<1>5. RecordsTypeOK'
  BY <1>1, <1>2, <1>4 DEF RecordsInv, RecordsTypeOK
<1>6. stale' \/ GivenTogether'
  BY <1>1, <1>2, <1>3 DEF RecordsInv, GivenTogether
<1> QED
  BY <1>1, <1>2, <1>5, <1>6 DEF RecordsInv, OneRowPerIncident

\* No creation, update, assignment or load breaks the table.
LEMMA RecordsStep == RecordsInv /\ [RecordsNext]_recordVars => RecordsInv'
<1> SUFFICES ASSUME RecordsInv, [RecordsNext]_recordVars PROVE RecordsInv'
  OBVIOUS
<1>1. ASSUME NEW q \in Updates, Abort(q) PROVE RecordsInv'
  <2>1. update' = [update EXCEPT ![q] = NoUpdate] /\ UNCHANGED <<table, given, stale>>
    BY <1>1 DEF Abort
  <2> QED
    BY <2>1, UpdateEnds
    DEF RecordsInv, RecordsTypeOK, OneRowPerIncident, GivenTogether, UpdateType, Updating
<1>2. CASE UNCHANGED recordVars
  BY <1>2 DEF recordVars, RecordsInv, RecordsTypeOK, OneRowPerIncident, GivenTogether
<1> QED
  BY <1>1, <1>2, UpdateSound, WriteSound, CreateSound, ReloadSound DEF RecordsNext

\* The table is sound in every reachable state.
LEMMA RecordsInvariant == RecordsSpec => []RecordsInv
<1>1. RecordsInit => RecordsInv
  <2> SUFFICES ASSUME RecordsInit PROVE RecordsInv
    OBVIOUS
  <2>1. table \in Seq(Rows) /\ Len(table) <= MaxRows /\ OneRowEach(table)
    BY RecordsAssumption DEF RecordsInit
  <2>2. \A k \in 1..Len(table) : Pairs(table[k].specialist, table[k].run) \subseteq given
    BY <2>1, PairsOfTable DEF RecordsInit
  <2>3. given \subseteq (Specialists \cup {None}) \X Runs
    BY <2>1, PairsOfTable DEF RecordsInit
  <2>4. RecordsTypeOK
    BY <2>1, <2>3, NoUpdateType DEF RecordsInit, RecordsTypeOK, UpdateType, Updating
  <2>5. GivenTogether
    BY <2>2, NoUpdateType DEF RecordsInit, GivenTogether
  <2> QED
    BY <2>1, <2>4, <2>5, NoUpdateType DEF RecordsInit, RecordsInv, OneRowPerIncident
<1> QED
  BY <1>1, RecordsStep, PTL DEF RecordsSpec

\* An incident has one row, and its specialist and its run were given by one
\* request unless an update met a row that had changed since it was read.
THEOREM RecordsStaySound == RecordsSpec => []RecordsSound
<1>1. RecordsInv => RecordsSound
  BY DEF RecordsInv, RecordsSound, AssignmentFromOneRequest, GivenTogether
<1> QED
  BY <1>1, RecordsInvariant, PTL

\* What one step does to a closed incident, and a field update to an assignment.
LEMMA ClosedRowStep ==
  ASSUME RecordsInv, [RecordsNext]_recordVars, NEW k \in 1..Len(table),
         table[k].status = "CLOSED", table' \notin Seeds
  PROVE  \/ table'[k] = table[k]
         \/ \E q \in Updates : update[q].id = k /\ update[q].read.status # "CLOSED"
<1>1. table \in Seq(Rows)
  BY DEF RecordsInv, RecordsTypeOK
<1>2. ASSUME NEW q \in Updates, WriteRow(q)
      PROVE  \/ table'[k] = table[k]
             \/ update[q].id = k /\ update[q].read.status # "CLOSED"
  <2>1. update[q].read.status # "CLOSED"
    BY <1>2 DEF WriteRow, RecordsInv, Wish, Updating
  <2> QED
    BY <1>1, <1>2, <2>1 DEF WriteRow
<1>3. ASSUME NEW q \in Updates, CreateInsert(q) PROVE table'[k] = table[k]
  <2>1. update[q].row \in Rows
    BY DEF RecordsInv, RecordsTypeOK
  <2> QED
    BY <1>1, <1>3, <2>1, AppendProperties DEF CreateInsert
<1>4. ~Reload
  BY DEF Reload
<1>5. ASSUME NEW q \in Updates,
             \/ UpdateStatus(q) \/ AssignSpecialist(q) \/ UpdateFields(q) \/ Resolve(q)
             \/ CreateRead(q) \/ Abort(q)
      PROVE  UNCHANGED table
  BY <1>5 DEF UpdateStatus, AssignSpecialist, UpdateFields, Resolve, Read, CreateRead, Abort
<1>6. CASE UNCHANGED recordVars
  BY <1>6 DEF recordVars
<1> QED
  BY <1>2, <1>3, <1>4, <1>5, <1>6 DEF RecordsNext

\* A change of fields or of the status leaves who is assigned.
LEMMA FieldsOnly ==
  ASSUME RecordsInv, NEW q \in Updates, update[q].op \in {"status", "fields"}, WriteRow(q),
         NEW k \in 1..Len(table)
  PROVE  table'[k].specialist = table[k].specialist /\ table'[k].run = table[k].run
<1> DEFINE u == update[q]
           merged == MergeColumns(table[u.id], u.read, u.row)
<1>1. u \in UpdateType /\ Wish(u) /\ table \in Seq(Rows)
  BY DEF RecordsInv, RecordsTypeOK, UpdateType, Updating
<1>2. CASE u.id <= Len(table)
  <2>1. u.id \in 1..Len(table)
    BY <1>1, <1>2, LenProperties DEF Wish, UpdateType, Updating
  <2>2. table' = [table EXCEPT ![u.id] = merged]
    BY <1>2 DEF WriteRow
  <2>3. table[u.id] \in Rows /\ u.read \in Rows /\ u.row \in Rows
    BY <1>1, <2>1, ElementOfSeq DEF UpdateType
  <2>4. merged \in Rows /\ merged.specialist = table[u.id].specialist
        /\ merged.run = table[u.id].run
    BY <1>1, <2>3, MergedRow DEF Wish
  <2>5. table'[k] = IF k = u.id THEN merged ELSE table[k]
    BY <1>1, <2>1, <2>2, <2>4, ExceptSeq
  <2> QED
    BY <2>4, <2>5
<1>3. CASE ~(u.id <= Len(table))
  BY <1>3 DEF WriteRow
<1> QED
  BY <1>2, <1>3

\* A closed incident changes only under a request that had read it before, and
\* what an update of a status or of the fields does not name it leaves alone.
THEOREM OthersKept == RecordsSpec => UpdatesKeepOthers
<1>1. RecordsInv /\ [RecordsNext]_recordVars =>
        [\A k \in 1..Len(table) :
           (table[k].status = "CLOSED" /\ table' \notin Seeds) =>
             \/ table'[k] = table[k]
             \/ \E q \in Updates : update[q].id = k /\ update[q].read.status # "CLOSED"]_recordVars
  BY ClosedRowStep
<1>2. RecordsInv /\ [RecordsNext]_recordVars =>
        [\A q \in Updates :
           (update[q].op \in {"status", "fields"} /\ WriteRow(q)) =>
             \A k \in 1..Len(table) : /\ table'[k].specialist = table[k].specialist
                                      /\ table'[k].run = table[k].run]_recordVars
  BY FieldsOnly
<1> QED
  BY <1>1, <1>2, RecordsInvariant, PTL
  DEF RecordsSpec, UpdatesKeepOthers, ClosedIsFinal, OthersColumnsSurvive
=============================================================================
