---------------------------- MODULE IncidentRecords ----------------------------
(***************************************************************************)
(* The incident table of the incident service (services/incident_service)  *)
(* and the requests that update it.  Every update reads its incident in one *)
(* statement and, in a later transaction, writes the columns it has        *)
(* changed to the row with the primary key it read: SQLAlchemy leaves out  *)
(* the columns that keep the value that was read.  No lock is held in      *)
(* between, and SQLite gives the primary keys of deleted rows again.       *)
(***************************************************************************)
EXTENDS Integers, Sequences

CONSTANTS
  Incidents,     \* incident ids
  Specialists,
  Runs,          \* run ids sent with an assignment
  None,          \* the SQL null
  Seeds,         \* the tables that a reset or a load-state leaves: Rows, one per incident
  Updates,       \* requests that can be in flight together
  MaxRows        \* bound on the rows of the table

Statuses == {"OPEN", "IN_PROGRESS", "RESOLVED", "CLOSED"}
ClosedStatuses == {"RESOLVED", "CLOSED"}
AllowedTransitions == [OPEN |-> {"IN_PROGRESS", "CLOSED"},
                       IN_PROGRESS |-> {"OPEN", "RESOLVED", "CLOSED"},
                       RESOLVED |-> {"IN_PROGRESS", "CLOSED"},
                       CLOSED |-> {}]
\* Mutant: a closed incident can be reopened.
TransitionsReopening(s) == IF s = "CLOSED" THEN {"OPEN"} ELSE AllowedTransitions[s]
Transitions(s) == AllowedTransitions[s]

\* assignment_run_id stands for assignment_idempotency_key as well, which is
\* compared, written and cleared together with it; fields stands for the
\* priority, the deadline and the effort, of which the simulation sets one.
Rows == [incident: Incidents, status: Statuses, specialist: Specialists \cup {None},
         run: Runs \cup {None}, fields: {"old", "new"}]

OneRowEach(t) == \A i, j \in 1..Len(t) : t[i].incident = t[j].incident => i = j

ASSUME RecordsAssumption ==
  /\ Incidents # {} /\ None \notin Runs
  /\ MaxRows \in Nat
  /\ \A t \in Seeds : t \in Seq(Rows) /\ Len(t) <= MaxRows /\ OneRowEach(t)

VARIABLES
  table,   \* the rows, by primary key
  update,  \* per request: the row it has read and the row it wants
  given,   \* history: the pairs of specialist and run that requests have given
  stale    \* history: a row was written that had changed since it was read

recordVars == <<table, update, given, stale>>

NewRow(i, s) == [incident |-> i, status |-> "OPEN", specialist |-> s, run |-> None,
                 fields |-> "old"]
NoUpdate == [op |-> "none", id |-> 0, read |-> NewRow(CHOOSE i \in Incidents : TRUE, None),
             row |-> NewRow(CHOOSE i \in Incidents : TRUE, None)]
Pairs(s, r) == IF r = None THEN {} ELSE {<<s, r>>}
PairsOf(t) == UNION {Pairs(t[k].specialist, t[k].run) : k \in 1..Len(t)}

RecordsInit ==
  /\ table \in Seeds
  /\ update = [q \in Updates |-> NoUpdate]
  /\ given = PairsOf(table)
  /\ stale = FALSE

-----------------------------------------------------------------------------
\* get_incident of an update: what it wants to write follows from the row it
\* reads.  A request that is refused or changes nothing is over at once.
Read(q, k, op, wanted) ==
  /\ update[q].op = "none"
  /\ wanted # table[k]
  /\ update' = [update EXCEPT ![q] = [op |-> op, id |-> k, read |-> table[k], row |-> wanted]]
  /\ UNCHANGED <<table, stale>>

UpdateStatus(q) == \E k \in 1..Len(table), s \in Statuses :
  /\ s \in Transitions(table[k].status)
  /\ Read(q, k, "status", [table[k] EXCEPT !.status = s])
  /\ UNCHANGED given

\* Mutant: another specialist keeps the run of the one before.
AssignedKeepingRun(row, s, r) ==
  IF r = None THEN [row EXCEPT !.specialist = s]
  ELSE [row EXCEPT !.specialist = s, !.run = r]

\* The same specialist keeps what the request does not give; another one takes
\* the run of the request, also when there is none.
Assigned(row, s, r) ==
  IF row.specialist = s /\ r = None THEN row
  ELSE [row EXCEPT !.specialist = s, !.run = r]

AssignSpecialist(q) == \E k \in 1..Len(table), s \in Specialists, r \in Runs \cup {None} :
  /\ table[k].status \notin ClosedStatuses
  /\ Read(q, k, "assign", Assigned(table[k], s, r))
  /\ given' = given \cup Pairs(s, r)

\* PATCH simulation-fields.
UpdateFields(q) == \E k \in 1..Len(table) :
  /\ table[k].status \notin ClosedStatuses
  /\ Read(q, k, "fields", [table[k] EXCEPT !.fields = "new"])
  /\ UNCHANGED given

Resolve(q) == \E k \in 1..Len(table) :
  /\ table[k].status \notin ClosedStatuses
  /\ Read(q, k, "resolve", [table[k] EXCEPT !.status = "RESOLVED",
                              !.specialist = None, !.run = None])
  /\ UNCHANGED given

\* Mutants: every column is written; the row is written without its id.
MergeAll(now, read, row) == row
MergeStatusName(now, read, row) ==
  [now EXCEPT !.status = row.status, !.specialist = row.status]

\* Columns that were not changed keep what is in the table by now.
MergeColumns(now, read, row) ==
  [c \in DOMAIN now |-> IF row[c] = read[c] THEN now[c] ELSE row[c]]

\* The UPDATE by primary key; without such a row it fails (StaleDataError).
WriteRow(q) ==
  /\ update[q].op \in {"status", "assign", "fields", "resolve"}
  /\ update' = [update EXCEPT ![q] = NoUpdate]
  /\ IF update[q].id <= Len(table)
     THEN /\ table' = [table EXCEPT ![update[q].id] = MergeColumns(@, update[q].read, update[q].row)]
          /\ stale' = (stale \/ table[update[q].id] # update[q].read)
     ELSE UNCHANGED <<table, stale>>
  /\ UNCHANGED given

\* create_incident looks for the id and inserts; the unique column decides.
CreateRead(q) == \E i \in Incidents, s \in Specialists \cup {None} :
  /\ update[q].op = "none"
  /\ \A k \in 1..Len(table) : table[k].incident # i
  /\ update' = [update EXCEPT ![q] = [NoUpdate EXCEPT !.op = "create", !.row = NewRow(i, s)]]
  /\ UNCHANGED <<table, given, stale>>

\* Mutant: the column is not unique.
NeverChecked(t) == TRUE
UniqueAfter(t) == OneRowEach(t)

CreateInsert(q) ==
  /\ update[q].op = "create" /\ Len(table) < MaxRows
  /\ LET inserted == Append(table, update[q].row)
     IN  IF UniqueAfter(inserted)
         THEN table' = inserted
         ELSE UNCHANGED table
  /\ update' = [update EXCEPT ![q] = NoUpdate]
  /\ UNCHANGED <<given, stale>>

\* reset and load-state replace the table in one transaction.
Reload == \E t \in Seeds :
  /\ table' = t
  /\ given' = given \cup PairsOf(t)
  /\ UNCHANGED <<update, stale>>

\* The commit fails or the client goes away.
Abort(q) ==
  /\ update[q].op # "none"
  /\ update' = [update EXCEPT ![q] = NoUpdate]
  /\ UNCHANGED <<table, given, stale>>

RecordsNext ==
  \/ \E q \in Updates :
       \/ UpdateStatus(q) \/ AssignSpecialist(q) \/ UpdateFields(q) \/ Resolve(q)
       \/ WriteRow(q) \/ CreateRead(q) \/ CreateInsert(q) \/ Abort(q)
  \/ Reload

RecordsSpec == RecordsInit /\ [][RecordsNext]_recordVars

-----------------------------------------------------------------------------
\* Rows, requests and histories are well formed.
RecordsTypeOK ==
  /\ table \in Seq(Rows) /\ Len(table) <= MaxRows
  /\ update \in [Updates -> [op: {"none", "status", "assign", "fields", "resolve", "create"},
                             id: 0..MaxRows, read: Rows, row: Rows]]
  /\ given \subseteq (Specialists \cup {None}) \X Runs
  /\ stale \in BOOLEAN

\* An incident id has one row, although creation looks for it first and inserts
\* it later, and whatever tables are loaded in between.
OneRowPerIncident == OneRowEach(table)

\* The specialist of an incident and the run it is assigned for were given by
\* one and the same request, unless a row was written that had changed since
\* it was read: then the columns of two requests can be mixed.
AssignmentFromOneRequest == stale \/ \A k \in 1..Len(table) :
  Pairs(table[k].specialist, table[k].run) \subseteq given

\* A closed incident stays as it is, until the table is loaded again or unless a
\* request writes that had read it before it was closed.
ClosedIsFinal == [][\A k \in 1..Len(table) :
  (table[k].status = "CLOSED" /\ table' \notin Seeds) =>
    \/ table'[k] = table[k]
    \/ \E q \in Updates : update[q].id = k /\ update[q].read.status # "CLOSED"]_recordVars

\* A request writes only what it was asked to write: two requests that change
\* different columns of an incident lose nothing of each other.
OthersColumnsSurvive == [][\A q \in Updates :
  (update[q].op \in {"status", "fields"} /\ WriteRow(q)) =>
    \A k \in 1..Len(table) : /\ table'[k].specialist = table[k].specialist
                             /\ table'[k].run = table[k].run]_recordVars

\* The records of the incident service stay whole under overlapping requests: one
\* well-formed row for an incident, assigned as one request said.
RecordsSound == RecordsTypeOK /\ OneRowPerIncident /\ AssignmentFromOneRequest

\* What an update leaves as it was: closed incidents, and the columns that the
\* request does not write.
UpdatesKeepOthers == ClosedIsFinal /\ OthersColumnsSurvive
=============================================================================
