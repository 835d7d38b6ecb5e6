--------------------------- MODULE SimulationProofs ---------------------------
(***************************************************************************)
(* The simulation keeps its promises for any scenarios, timelines and      *)
(* number of requests.                                                     *)
(*                                                                         *)
(* A run stays on its track because an advance goes on from the row it has *)
(* read and writes position and processed events of that one row: OnTrack  *)
(* of every row and of every row read is inductive, however requests       *)
(* overlap.  Claimed is inductive because an insertion waits for the claim *)
(* of another one, and looks again when it has it.  Sequential says what   *)
(* the only request in flight may rely on.                                 *)
(***************************************************************************)
EXTENDS Simulation, FiniteSetTheorems, WellFoundedInduction, TLAPS

EventSteps == {"find", "insert", "look", "apply", "release", "record", "skip"}
Dispatching == {"look", "apply", "release", "record"}

RequestType ==
  [op : Ops, step : Steps, scenario : Scenarios \cup {NoKey}, mode : Modes \cup {NoKey},
   run : Nat, row : SUBSET RunRows, event : Events \cup {NoKey}, key : AllKeys, loads : 0..4,
   seen : 0..4, failed : BOOLEAN, changes : SUBSET Changes, deleted : SUBSET Events]

\* A run stands at an enabled event, or at the beginning, and has gone through
\* what was enabled up to there.
OnTrack(x) ==
  /\ x.position # 0 =>
       /\ x.position \in 1..Len(Timeline[x.scenario])
       /\ Timeline[x.scenario][x.position] \in Enabled
  /\ x.processed = EnabledUpTo(x.scenario, x.position)

RunsOK(rows) == rows \in Seq(RunRows) /\ \A k \in 1..Len(rows) : OnTrack(rows[k])

\* Rows are added and rewritten; none changes its scenario.
Grows(rows, after) ==
  /\ Len(rows) <= Len(after)
  /\ \A k \in 1..Len(rows) : after[k].scenario = rows[k].scenario

\* What a request has read was a row of its run.
HasRead(r, rows) ==
  \E x \in r.row : r.row = {x} /\ x \in RunRows /\ OnTrack(x) /\ x.scenario = rows[r.run].scenario
\* An advance goes to the event after the position it has read.
GoesOn(r) ==
  \A x \in r.row : LET next == NextPosition(x.scenario, x.position) IN
    next # 0 /\ r.event = Timeline[x.scenario][next]

RequestOK(r, rows) ==
  /\ r.run \in 0..Len(rows)
  /\ r.op = "start" => r.scenario \in Scenarios /\ r.mode \in Modes
  /\ r.step \in {"stop", "create"} => r.op = "start"
  /\ r.step = "stop" => r.run # 0
  /\ r.step = "load" => r.op \in {"start", "reset"} /\ r.scenario \in Scenarios
  /\ r.step \in {"stop", "load"} => r.loads \in 0..3
  /\ r.step \in {"read", "clear", "clearHistory"} => r.op = "reset" /\ r.scenario \in Scenarios
  /\ r.step \in {"clear", "clearHistory"} /\ r.run # 0 => HasRead(r, rows)
  /\ r.step = "status" => r.op \in {"pause", "resume", "halt", "advance"} /\ r.run # 0
  /\ r.step \in EventSteps => r.op \in {"advance", "inject"} /\ r.event \in Events
  /\ r.step \in EventSteps /\ r.op = "advance" =>
       r.run # 0 /\ r.key = r.event /\ HasRead(r, rows) /\ GoesOn(r)
  /\ r.step = "skip" => r.op = "advance"
  /\ r.step = "idle" => r.op = "none"

TablesOK ==
  /\ RunsOK(run)
  /\ history \in [Events -> EventRows \cup {NoRow}] /\ outbox \in [Events -> Notices]
  /\ world \in Worlds
  /\ entered \in 0..MaxRequests /\ overlapped \in BOOLEAN

TypeInv ==
  /\ TablesOK
  /\ req \in [Requests -> RequestType]
  /\ \A q \in Requests : RequestOK(req[q], run)

Starters == {q \in Requests : req[q].op = "start"}
\* A start is accepted only when there is room for its run.
RoomForRuns == Len(run) + Cardinality(Starters) <= MaxRuns

\* An event that is carried out has its id and its key to itself.
Claimed(q) ==
  req[q].step \in Dispatching =>
    /\ Recorded(req[q].event, req[q].key) = {}
    /\ \A o \in Requests \ {q} : ~Claims(o, req[q].event, req[q].key)

\* Where there is no incident there is no priority; an escalation raises the
\* priority it has seen.
AbsentIsLowest(w) == \A i \in Incidents : w.incident[i] = "ABSENT" => w.priority[i] = 1
Raises(r) ==
  r.step = "apply" /\ Payload[r.event].kind = "ESCALATE_PRIORITY" => Payload[r.event].rank > r.seen
PriorityInv == AbsentIsLowest(world) /\ \A q \in Requests : Raises(req[q])

ActiveIn(rows) == {k \in 1..Len(rows) : rows[k].status \in ActiveStatuses}
RecordedIn(rows, e) == \E o \in Events : rows[o] # NoRow /\ (o = e \/ rows[o].key = e)

\* What the only request in flight has read still holds.
UpToDate(r, rows, recorded) ==
  /\ r.step \in {"stop", "create"} \/ (r.step = "load" /\ r.op = "start")
       \/ r.step \in {"clear", "clearHistory"} => ActiveIn(rows) \subseteq {r.run}
  /\ r.step = "status" \/ (r.step \in EventSteps /\ r.op = "advance") => r.run \in ActiveIn(rows)
  /\ r.step \in EventSteps /\ r.op = "advance" => r.row = {rows[r.run]}
  /\ r.step = "skip" => RecordedIn(recorded, r.event)

Sequential ==
  \/ overlapped
  \/ /\ \A p, q \in Requests : req[p].step # "idle" /\ req[q].step # "idle" => p = q
     /\ \A q \in Requests : UpToDate(req[q], run, history)
     /\ \A j, k \in ActiveIn(run) : j = k
     /\ \A k \in ActiveIn(run), e \in Events :
          e \in run[k].processed => RecordedIn(history, e)

-----------------------------------------------------------------------------
(* Positions and runs                                                      *)

\* A set of positions has a first and a last one.
LEMMA FirstAndLast ==
  ASSUME NEW n \in Nat, NEW S \in SUBSET (1..n), S # {}
  PROVE  /\ \E x \in S : \A y \in S : x <= y
         /\ \E x \in S : \A y \in S : y <= x
<1> DEFINE Below(x) == {y \in S : y < x}
           Above(x) == {y \in S : y > x}
           B == {Below(x) : x \in S}
           A == {Above(x) : x \in S}
<1>1. \A x \in S : x \in Int
  OBVIOUS
<1>2. IsFiniteSet(S)
  <2>1. IsFiniteSet(1..n)
    BY FS_Interval
  <2> QED
    BY <2>1, FS_Subset
<1>3. B \subseteq FiniteSubsetsOf(S) /\ A \subseteq FiniteSubsetsOf(S) /\ B # {} /\ A # {}
  <2>1. \A T \in SUBSET S : T \in FiniteSubsetsOf(S)
    BY <1>2, FS_Subset DEF FiniteSubsetsOf
  <2>2. \A x \in S : Below(x) \in SUBSET S /\ Above(x) \in SUBSET S
    OBVIOUS
  <2> QED
    BY <2>1, <2>2
<1>4. IsWellFoundedOn(StrictSubsetOrdering(S), FiniteSubsetsOf(S))
  BY FS_StrictSubsetOrderingWellFounded
<1>5. \E x \in S : \A y \in S : x <= y
  <2> HIDE DEF B
  <2>1. \E U \in B : \A V \in B : ~(<<V, U>> \in StrictSubsetOrdering(S))
    BY <1>3, <1>4, WFMin
  <2>2. PICK x \in S : \A V \in B : ~(<<V, Below(x)>> \in StrictSubsetOrdering(S))
    BY <2>1 DEF B
  <2>3. ASSUME NEW y \in S, y < x PROVE FALSE
    <3>1. Below(y) \subseteq Below(x) /\ y \in Below(x) /\ y \notin Below(y)
      <4>1. \A z \in S : z < y => z < x
        BY <1>1, <2>3
      <4>2. ~(y < y)
        BY <1>1
      <4> QED
        BY <2>3, <4>1, <4>2
    <3>2. Below(y) \in B /\ Below(y) \in SUBSET S /\ Below(x) \in SUBSET S
      BY DEF B
    <3>3. <<Below(y), Below(x)>> \in StrictSubsetOrdering(S)
      BY <3>1, <3>2 DEF StrictSubsetOrdering
    <3> QED
      BY <2>2, <3>2, <3>3
  <2> QED
    BY <1>1, <2>3
<1>6. \E x \in S : \A y \in S : y <= x
  <2> HIDE DEF A
  <2>1. \E U \in A : \A V \in A : ~(<<V, U>> \in StrictSubsetOrdering(S))
    BY <1>3, <1>4, WFMin
  <2>2. PICK x \in S : \A V \in A : ~(<<V, Above(x)>> \in StrictSubsetOrdering(S))
    BY <2>1 DEF A
  <2>3. ASSUME NEW y \in S, y > x PROVE FALSE
    <3>1. Above(y) \subseteq Above(x) /\ y \in Above(x) /\ y \notin Above(y)
      <4>1. \A z \in S : z > y => z > x
        BY <1>1, <2>3
      <4>2. ~(y > y)
        BY <1>1
      <4> QED
        BY <2>3, <4>1, <4>2
    <3>2. Above(y) \in A /\ Above(y) \in SUBSET S /\ Above(x) \in SUBSET S
      BY DEF A
    <3>3. <<Above(y), Above(x)>> \in StrictSubsetOrdering(S)
      BY <3>1, <3>2 DEF StrictSubsetOrdering
    <3> QED
      BY <2>2, <3>2, <3>3
  <2> QED
    BY <1>1, <2>3
<1> QED
  BY <1>5, <1>6

\* The next position is that of the first enabled event behind; what is enabled
\* up to it is what was enabled up to here, and that event.
LEMMA NextIs ==
  ASSUME NEW s \in Scenarios, NEW p \in Nat
  PROVE  LET next == NextPosition(s, p) IN
         /\ next \in Nat
         /\ next # 0 =>
              /\ next \in 1..Len(Timeline[s]) /\ Timeline[s][next] \in Enabled
              /\ EnabledUpTo(s, next) = EnabledUpTo(s, p) \cup {Timeline[s][next]}
<1> DEFINE n == Len(Timeline[s])
           after == {i \in p+1..n : Timeline[s][i] \in Enabled}
           next == NextPosition(s, p)
<1>1. Timeline[s] \in Seq(Events) /\ n \in Nat
  BY ScenarioAssumption DEF Consistent
<1>2. CASE after = {}
  BY <1>2 DEF NextPosition
<1>3. CASE after # {}
  <2>1. after \in SUBSET (1..n)
    BY <1>1
  <2>2. \E x \in after : \A y \in after : x <= y
    <3> HIDE DEF after
    <3> QED
      BY <1>1, <1>3, <2>1, FirstAndLast
  <2>3. next \in after /\ \A y \in after : next <= y
    BY <1>3, <2>2 DEF NextPosition
  <2>4. next \in 1..n /\ Timeline[s][next] \in Enabled /\ p < next /\ next \in Nat
    BY <1>1, <2>3
  <2>5. \A i \in 1..n : p < i /\ i < next => Timeline[s][i] \notin Enabled
    BY <1>1, <2>3, <2>4
  <2> HIDE DEF next, after
  <2>6. EnabledUpTo(s, next) = EnabledUpTo(s, p) \cup {Timeline[s][next]}
    <3>1. \A i \in 1..next : i \in 1..n /\ (i \in 1..p \/ i = next \/ (p < i /\ i < next))
      BY <1>1, <2>4
    <3>2. \A i \in 1..p : i \in 1..next
      BY <2>4
    <3>3. next \in 1..next
      BY <2>4
    <3> QED
      BY <2>4, <2>5, <3>1, <3>2, <3>3 DEF EnabledUpTo, EnabledBetween
  <2> QED
    BY <2>4, <2>6 DEF next
<1> QED
  BY <1>2, <1>3

\* The run of _active_run is the last active one, if any is active.
LEMMA ActiveRunIs ==
  ASSUME RunsOK(run)
  PROVE  /\ ActiveRun \in 0..Len(run)
         /\ ActiveRun # 0 => ActiveRun \in ActiveRuns
         /\ ActiveRun = 0 => ActiveRuns = {}
<1>1. Len(run) \in Nat
  BY DEF RunsOK
<1>2. ActiveRuns \in SUBSET (1..Len(run))
  BY DEF ActiveRuns
<1>3. CASE ActiveRuns = {}
  BY <1>1, <1>3 DEF ActiveRun
<1>4. CASE ActiveRuns # {}
  <2>1. \E x \in ActiveRuns : \A y \in ActiveRuns : y <= x
    BY <1>1, <1>2, <1>4, FirstAndLast
  <2>2. ActiveRun \in ActiveRuns
    BY <1>4, <2>1 DEF ActiveRun
  <2> QED
    BY <1>1, <1>2, <1>4, <2>2
<1> QED
  BY <1>3, <1>4

Rewrite(rows, k, x) == [rows EXCEPT ![k] = x]
WithStatus(rows, k, status) == [rows EXCEPT ![k].status = status]

\* A row that is rewritten on its track keeps the runs.
LEMMA Rewritten ==
  ASSUME NEW rows, RunsOK(rows), NEW k \in 1..Len(rows), NEW x \in RunRows, OnTrack(x),
         x.scenario = rows[k].scenario
  PROVE  LET after == Rewrite(rows, k, x) IN
         /\ RunsOK(after) /\ Grows(rows, after) /\ Len(after) = Len(rows)
         /\ after[k] = x /\ \A j \in 1..Len(rows) \ {k} : after[j] = rows[j]
<1> DEFINE after == Rewrite(rows, k, x)
<1>1. rows \in Seq(RunRows) /\ Len(rows) \in Nat
  BY DEF RunsOK
<1>2. after \in Seq(RunRows) /\ Len(after) = Len(rows)
  BY <1>1 DEF Rewrite
<1>3. after[k] = x /\ \A j \in 1..Len(rows) \ {k} : after[j] = rows[j]
  BY <1>1 DEF Rewrite
<1> QED
  BY <1>1, <1>2, <1>3 DEF RunsOK, Grows

\* So does a run that is appended.
LEMMA Appended ==
  ASSUME NEW rows, RunsOK(rows), NEW x \in RunRows, OnTrack(x)
  PROVE  LET after == Append(rows, x) IN
         /\ RunsOK(after) /\ Grows(rows, after) /\ Len(after) = Len(rows) + 1
         /\ after[Len(rows) + 1] = x /\ \A j \in 1..Len(rows) : after[j] = rows[j]
<1> DEFINE after == Append(rows, x)
<1>1. rows \in Seq(RunRows) /\ Len(rows) \in Nat
  BY DEF RunsOK
<1>2. after \in Seq(RunRows) /\ Len(after) = Len(rows) + 1
  BY <1>1
<1>3. after[Len(rows) + 1] = x /\ \A j \in 1..Len(rows) : after[j] = rows[j]
  BY <1>1
<1> QED
  BY <1>1, <1>2, <1>3 DEF RunsOK, Grows

\* Rows that stay have grown, by nothing.
LEMMA Unchanged ==
  ASSUME NEW rows, RunsOK(rows)
  PROVE  Grows(rows, rows)
BY DEF RunsOK, Grows

\* What has grown twice has grown.
LEMMA GrowsOn ==
  ASSUME NEW a, NEW b, NEW c, RunsOK(a), RunsOK(b), RunsOK(c), Grows(a, b), Grows(b, c)
  PROVE  Grows(a, c)
<1>1. Len(a) \in Nat /\ Len(b) \in Nat /\ Len(c) \in Nat
  BY DEF RunsOK
<1> QED
  BY <1>1 DEF Grows

\* What a request has read stays as good as it was.
LEMMA RequestStays ==
  ASSUME NEW rows, NEW after, RunsOK(rows), RunsOK(after), Grows(rows, after),
         NEW r, RequestOK(r, rows)
  PROVE  RequestOK(r, after)
<1>1. Len(rows) \in Nat /\ Len(after) \in Nat
  BY DEF RunsOK
<1>2. r.run \in 0..Len(after)
  BY <1>1 DEF RequestOK, Grows
<1>3. r.run # 0 /\ HasRead(r, rows) => HasRead(r, after)
  BY <1>1 DEF RequestOK, Grows, HasRead
<1> QED
  BY <1>2, <1>3 DEF RequestOK

\* A status that is written leaves the run on its track.
LEMMA StatusWritten ==
  ASSUME NEW rows, RunsOK(rows), NEW k \in 1..Len(rows), NEW status \in RunStatuses
  PROVE  LET after == WithStatus(rows, k, status) IN
         /\ RunsOK(after) /\ Grows(rows, after) /\ Len(after) = Len(rows)
         /\ after[k].status = status /\ after[k].processed = rows[k].processed
         /\ \A j \in 1..Len(rows) \ {k} : after[j] = rows[j]
<1> DEFINE x == [rows[k] EXCEPT !.status = status]
           after == WithStatus(rows, k, status)
<1>1. rows[k] \in RunRows /\ OnTrack(rows[k])
  BY DEF RunsOK
<1>2. /\ x \in RunRows /\ x.scenario = rows[k].scenario /\ x.position = rows[k].position
      /\ x.processed = rows[k].processed /\ x.status = status
  BY <1>1 DEF RunRows
<1>3. OnTrack(x)
  BY <1>1, <1>2 DEF OnTrack
<1>4. after = Rewrite(rows, k, x)
  BY DEF Rewrite, WithStatus
<1> HIDE DEF x
<1>5. LET new == Rewrite(rows, k, x) IN
      /\ RunsOK(new) /\ Grows(rows, new) /\ Len(new) = Len(rows)
      /\ new[k] = x /\ \A j \in 1..Len(rows) \ {k} : new[j] = rows[j]
  BY <1>2, <1>3, Rewritten
<1> QED
  BY <1>2, <1>4, <1>5

\* So does the stop of the run that a start replaces.
LEMMA StoppedRuns ==
  ASSUME RunsOK(run), NEW k \in 0..Len(run)
  PROVE  /\ RunsOK(Stopped(k)) /\ Grows(run, Stopped(k)) /\ Len(Stopped(k)) = Len(run)
         /\ k # 0 => Stopped(k)[k].status = "STOPPED" /\ Stopped(k)[k].processed = run[k].processed
         /\ \A j \in 1..Len(run) \ {k} : Stopped(k)[j] = run[j]
<1>1. Len(run) \in Nat /\ "STOPPED" \in RunStatuses
  BY DEF RunsOK, RunStatuses
<1>2. CASE k = 0
  BY <1>2, Unchanged DEF Stopped
<1>3. CASE k # 0
  <2>1. k \in 1..Len(run)
    BY <1>1, <1>3
  <2>2. Stopped(k) = WithStatus(run, k, "STOPPED")
    BY <1>3 DEF Stopped, WithStatus
  <2>3. LET after == WithStatus(run, k, "STOPPED") IN
        /\ RunsOK(after) /\ Grows(run, after) /\ Len(after) = Len(run)
        /\ after[k].status = "STOPPED" /\ after[k].processed = run[k].processed
        /\ \A j \in 1..Len(run) \ {k} : after[j] = run[j]
    BY <1>1, <2>1, StatusWritten
  <2> QED
    BY <2>2, <2>3
<1> QED
  BY <1>2, <1>3

\* The rows that load-state and the events leave behind are rows.
LEMMA LoadedWorlds ==
  ASSUME world \in Worlds, NEW s \in Scenarios, NEW service
  PROVE  Loaded(service, s) \in Worlds
<1>1. InitialState[s] \in Worlds
  BY ScenarioAssumption
<1> QED
  BY <1>1 DEF Loaded, Worlds

\* The rows that an event changes are rows of the services.
LEMMA EffectWorlds ==
  ASSUME world \in Worlds, NEW e \in Events
  PROVE  Effect(Payload[e]) \in Worlds
<1> DEFINE p == Payload[e]
<1>1. p.incident \in Incidents /\ p.specialist \in Specialists /\ p.rank \in Ranks
  BY EventAssumption DEF Payloads
<1> HIDE DEF p
<1>2. "OPEN" \in IncidentStatuses /\ "RESOLVED" \in IncidentStatuses
  BY DEF IncidentStatuses
<1>3. Effect(p) \in Worlds
  BY <1>1, <1>2 DEF Effect, Worlds
<1> QED
  BY <1>3 DEF p

\* A new run is on its track.
LEMMA NewRunIs ==
  ASSUME NEW s \in Scenarios, NEW m \in Modes
  PROVE  /\ NewRun(s, m) \in RunRows /\ OnTrack(NewRun(s, m))
         /\ NewRun(s, m).scenario = s /\ NewRun(s, m).processed = {}
<1>1. EnabledAfter(s, 0) \in SUBSET Events
  BY EventAssumption DEF EnabledAfter, EnabledBetween
<1>2. NewRun(s, m) \in RunRows
  BY <1>1 DEF NewRun, RunRows, RunStatuses
<1>3. EnabledUpTo(s, 0) = {}
  BY DEF EnabledUpTo, EnabledBetween
<1> QED
  BY <1>2, <1>3 DEF NewRun, OnTrack

\* So is the run a reset has put back: it has read position and events of one
\* moment, and either both are at their beginning or none is.
LEMMA ClearedRuns ==
  ASSUME RunsOK(run), NEW k \in 1..Len(run), NEW read \in RunRows, OnTrack(read),
         read.scenario = run[k].scenario, NEW s \in Scenarios
  PROVE  LET after == Cleared(k, read, s) IN
         /\ RunsOK(after) /\ Grows(run, after) /\ Len(after) = Len(run)
         /\ after[k].status = "STOPPED" /\ \A j \in 1..Len(run) \ {k} : after[j] = run[j]
<1> DEFINE row == run[k]
           position == Written(row.position, read.position, 0)
           processed == Written(row.processed, read.processed, {})
           pending == Written(row.pending, read.pending, EnabledAfter(s, 0))
           x == [row EXCEPT !.status = "STOPPED", !.position = position,
                            !.processed = processed, !.pending = pending]
<1>1. row \in RunRows /\ OnTrack(row)
  BY DEF RunsOK
<1>2. EnabledAfter(s, 0) \in SUBSET Events /\ EnabledUpTo(read.scenario, 0) = {}
  BY EventAssumption DEF EnabledAfter, EnabledUpTo, EnabledBetween
<1>3. position \in Nat /\ processed \in SUBSET Events /\ pending \in SUBSET Events
  BY <1>1, <1>2 DEF RunRows, Written
<1>4. read.position = 0 <=> read.processed = {}
  <2>1. CASE read.position = 0
    BY <1>2, <2>1 DEF OnTrack
  <2>2. CASE read.position # 0
    <3> DEFINE p == read.position
    <3>1. p \in 1..Len(Timeline[read.scenario]) /\ Timeline[read.scenario][p] \in Enabled
      BY <2>2 DEF OnTrack
    <3>2. p \in Nat /\ p \in 1..p
      BY <2>2 DEF RunRows
    <3>3. Timeline[read.scenario][p] \in EnabledUpTo(read.scenario, p)
      BY <3>1, <3>2 DEF EnabledUpTo, EnabledBetween
    <3> QED
      BY <2>2, <3>3 DEF OnTrack
  <2> QED
    BY <2>1, <2>2
<1>5. \/ position = row.position /\ processed = row.processed
      \/ position = 0 /\ processed = {}
  BY <1>4 DEF Written
<1> HIDE DEF row, position, processed, pending
<1>6. /\ x \in RunRows /\ x.scenario = row.scenario /\ x.position = position
      /\ x.processed = processed /\ x.status = "STOPPED"
  BY <1>1, <1>3 DEF RunRows, RunStatuses
<1>7. OnTrack(x)
  <2>1. CASE position = row.position /\ processed = row.processed
    BY <1>1, <1>6, <2>1 DEF OnTrack
  <2>2. CASE position = 0 /\ processed = {}
    BY <1>2, <1>6, <2>2 DEF OnTrack, row
  <2> QED
    BY <1>5, <2>1, <2>2
<1>8. Cleared(k, read, s) = Rewrite(run, k, x)
  BY DEF Cleared, Rewrite, row, position, processed, pending
<1> HIDE DEF x
<1>9. LET new == Rewrite(run, k, x) IN
      /\ RunsOK(new) /\ Grows(run, new) /\ Len(new) = Len(run)
      /\ new[k] = x /\ \A j \in 1..Len(run) \ {k} : new[j] = run[j]
  BY <1>6, <1>7, Rewritten DEF row
<1> QED
  BY <1>6, <1>8, <1>9

\* An advance takes its run from the event it has read to the next one.
LEMMA RunAfterIs ==
  ASSUME RunsOK(run), NEW q \in Requests, RequestOK(req[q], run),
         req[q].step \in {"record", "skip"}
  PROVE  /\ RunsOK(RunAfter(q)) /\ Grows(run, RunAfter(q)) /\ Len(RunAfter(q)) = Len(run)
         /\ \A k \in 1..Len(run) :
              \/ RunAfter(q)[k] = run[k]
              \/ /\ req[q].op = "advance" /\ k = req[q].run
                 /\ RunAfter(q)[k].status \in {run[k].status, "COMPLETED"}
                 /\ \A x \in req[q].row : RunAfter(q)[k].processed = x.processed \cup {req[q].event}
<1>1. CASE req[q].op # "advance"
  BY <1>1, Unchanged DEF RunAfter
<1>2. CASE req[q].op = "advance"
  <2> DEFINE k == req[q].run
             row == run[k]
             e == req[q].event
  <2>1. /\ k \in 1..Len(run) /\ e \in Events /\ HasRead(req[q], run) /\ GoesOn(req[q])
    BY <1>2 DEF RequestOK, EventSteps, RunsOK
  <2>2. PICK read \in RunRows :
          req[q].row = {read} /\ OnTrack(read) /\ read.scenario = row.scenario
    BY <2>1 DEF HasRead
  <2> DEFINE s == read.scenario
             p == NextPosition(s, read.position)
             done == read.processed \cup {e}
             pending == Written(row.pending, read.pending, EnabledAfter(s, p) \ done)
             status == IF NextPosition(s, p) = 0 THEN "COMPLETED" ELSE row.status
             x == [row EXCEPT !.position = p, !.processed = done, !.pending = pending,
                              !.status = status]
  <2>3. row \in RunRows /\ OnTrack(row)
    BY <2>1 DEF RunsOK
  <2>4. s \in Scenarios /\ read.position \in Nat /\ read.processed \in SUBSET Events
    BY <2>2 DEF RunRows
  <2>5. p # 0 /\ e = Timeline[s][p]
    BY <2>1, <2>2 DEF GoesOn
  <2>6. /\ p \in Nat /\ p \in 1..Len(Timeline[s]) /\ Timeline[s][p] \in Enabled
        /\ EnabledUpTo(s, p) = EnabledUpTo(s, read.position) \cup {Timeline[s][p]}
    BY <2>4, <2>5, NextIs
  <2>7. done = EnabledUpTo(s, p) /\ done \in SUBSET Events
    BY <2>1, <2>2, <2>4, <2>5, <2>6 DEF OnTrack
  <2>8. pending \in SUBSET Events /\ status \in RunStatuses
    <3>1. EnabledAfter(s, p) \in SUBSET Events
      BY EventAssumption DEF EnabledAfter, EnabledBetween
    <3> QED
      BY <2>3, <3>1 DEF Written, RunRows, RunStatuses
  <2>9. RunAfter(q) = Rewrite(run, k, x)
    <3>1. (CHOOSE y \in req[q].row : TRUE) = read
      BY <2>2
    <3> QED
      BY <1>2, <3>1 DEF RunAfter, AfterEvent, Rewrite
  <2>10. status \in {row.status, "COMPLETED"}
    OBVIOUS
  <2> HIDE DEF pending, status, done, p, row
  <2>11. /\ x \in RunRows /\ x.scenario = row.scenario /\ x.position = p
         /\ x.processed = done /\ x.status = status
    BY <2>3, <2>6, <2>7, <2>8 DEF RunRows
  <2>12. OnTrack(x)
    BY <2>2, <2>6, <2>7, <2>11 DEF OnTrack
  <2> HIDE DEF x
  <2>13. LET new == Rewrite(run, k, x) IN
         /\ RunsOK(new) /\ Grows(run, new) /\ Len(new) = Len(run)
         /\ new[k] = x /\ \A j \in 1..Len(run) \ {k} : new[j] = run[j]
    BY <2>1, <2>11, <2>12, Rewritten DEF row
  <2>14. x.status \in {run[k].status, "COMPLETED"} /\ \A y \in req[q].row : x.processed = y.processed \cup {e}
    BY <2>2, <2>10, <2>11 DEF row, done
  <2> HIDE DEF k, e
  <2> QED
    BY <1>2, <2>9, <2>13, <2>14 DEF k, e
<1> QED
  BY <1>1, <1>2

-----------------------------------------------------------------------------
(* Types                                                                   *)

\* The shape of every table and request is kept.
LEMMA TypeStep == TypeInv /\ [Next]_vars => TypeInv'
<1> SUFFICES ASSUME TypeInv, [Next]_vars PROVE TypeInv'
  OBVIOUS
<1>0. /\ TablesOK /\ req \in [Requests -> RequestType]
      /\ \A q \in Requests : RequestOK(req[q], run) /\ req[q] \in RequestType
      /\ RunsOK(run) /\ Len(run) \in Nat /\ run \in Seq(RunRows)
      /\ history \in [Events -> EventRows \cup {NoRow}] /\ outbox \in [Events -> Notices]
      /\ world \in Worlds /\ entered \in 0..MaxRequests /\ overlapped \in BOOLEAN
  BY DEF TypeInv, TablesOK, RunsOK
<1>1. ASSUME NEW q \in Requests, NEW r \in RequestType, req' = [req EXCEPT ![q] = r],
             TablesOK', Grows(run, run'), RequestOK(r, run')
      PROVE  TypeInv'
  <2>1. /\ req' \in [Requests -> RequestType] /\ req'[q] = r
        /\ \A o \in Requests \ {q} : req'[o] = req[o]
    BY <1>0, <1>1
  <2>2. RunsOK(run')
    BY <1>1 DEF TablesOK
  <2>3. ASSUME NEW o \in Requests PROVE RequestOK(req'[o], run')
    <3>1. CASE o = q
      BY <1>1, <2>1, <3>1
    <3>2. CASE o # q
      <4>1. RequestOK(req[o], run')
        BY <1>0, <1>1, <2>2, RequestStays
      <4> QED
        BY <2>1, <3>2, <4>1
    <3> QED
      BY <3>1, <3>2
  <2> QED
    BY <1>1, <2>1, <2>3 DEF TypeInv
\* Requests whose step leaves the tables alone.
<1>2. ASSUME NEW q \in Requests, NEW r \in RequestType, Move(q, r), RequestOK(r, run),
             UNCHANGED <<tables, ledger>>, world' \in Worlds
      PROVE  TypeInv'
  <2>1. TablesOK' /\ Grows(run, run') /\ RequestOK(r, run')
    BY <1>0, <1>2, Unchanged DEF TablesOK, tables, ledger
  <2> QED
    BY <1>1, <1>2, <2>1 DEF Move
<1>3. ASSUME NEW q \in Requests, NEW r \in RequestType, Enter(q, r), RequestOK(r, run)
      PROVE  TypeInv'
  <2>1. /\ entered' = entered + 1 /\ entered < MaxRequests /\ overlapped' \in BOOLEAN
        /\ UNCHANGED <<tables, world>> /\ req' = [req EXCEPT ![q] = r]
    BY <1>0, <1>3 DEF Enter
  <2>2. entered' \in 0..MaxRequests
    BY <1>0, <2>1, SettingAssumption
  <2>3. TablesOK' /\ Grows(run, run') /\ RequestOK(r, run')
    BY <1>0, <1>3, <2>1, <2>2, Unchanged DEF TablesOK, tables
  <2> QED
    BY <1>1, <2>1, <2>3
<1>4. /\ Fresh \in RequestType /\ Fresh.op = "none" /\ Fresh.step = "idle" /\ Fresh.run = 0
      /\ \A rows : RunsOK(rows) => RequestOK(Fresh, rows)
  <2>1. Fresh \in RequestType
    BY DEF Fresh, RequestType, Ops, Steps, AllKeys
  <2>2. ASSUME NEW rows, RunsOK(rows) PROVE RequestOK(Fresh, rows)
    <3>1. 0 \in 0..Len(rows)
      BY <2>2 DEF RunsOK
    <3> QED
      BY <3>1 DEF RequestOK, Fresh, EventSteps
  <2> QED
    BY <2>1, <2>2 DEF Fresh
\* Requests that end.
<1>5. ASSUME NEW q \in Requests, End(q), TablesOK', Grows(run, run')
      PROVE  TypeInv'
  BY <1>1, <1>4, <1>5 DEF End, TablesOK
<1>6. ActiveRun \in 0..Len(run) /\ (ActiveRun # 0 => ActiveRun \in 1..Len(run) /\ run[ActiveRun] \in RunRows
        /\ OnTrack(run[ActiveRun]) /\ run[ActiveRun].scenario \in Scenarios
        /\ run[ActiveRun].position \in Nat)
  <2>1. ActiveRun \in 0..Len(run)
    BY <1>0, ActiveRunIs
  <2>2. ActiveRun # 0 => ActiveRun \in 1..Len(run)
    BY <1>0, <2>1
  <2>3. \A k \in 1..Len(run) : run[k] \in RunRows /\ OnTrack(run[k])
    BY <1>0 DEF RunsOK
  <2> QED
    BY <2>1, <2>2, <2>3 DEF RunRows
<1>7. ASSUME NEW q \in Requests, Start(q) PROVE TypeInv'
  <2>1. PICK s \in Scenarios, m \in Modes :
          Enter(q, [Fresh EXCEPT !.op = "start", !.scenario = s, !.mode = m, !.run = ActiveRun,
                                 !.step = IF ActiveRun = 0 THEN "load" ELSE "stop"])
    BY <1>7 DEF Start
  <2> DEFINE r == [Fresh EXCEPT !.op = "start", !.scenario = s, !.mode = m, !.run = ActiveRun,
                                !.step = IF ActiveRun = 0 THEN "load" ELSE "stop"]
  <2>2. /\ r \in RequestType /\ r.op = "start" /\ r.scenario = s /\ r.mode = m /\ r.run = ActiveRun
        /\ r.step = (IF ActiveRun = 0 THEN "load" ELSE "stop") /\ r.loads = 0
    <3>0. ActiveRun \in Nat /\ Fresh \in RequestType
      BY <1>0, <1>4, <1>6
    <3>1. r \in RequestType
      BY <3>0 DEF RequestType, Ops, Steps
    <3> QED
      BY <3>1 DEF Fresh
  <2>3. Enter(q, r)
    BY <2>1
  <2> HIDE DEF r
  <2>4. RequestOK(r, run)
    BY <1>6, <2>2 DEF RequestOK, EventSteps
  <2> QED
    BY <1>3, <2>2, <2>3, <2>4
<1>8. ASSUME NEW q \in Requests, Reset(q) PROVE TypeInv'
  <2>1. PICK s \in Scenarios : Enter(q, [Fresh EXCEPT !.op = "reset", !.step = "load", !.scenario = s])
    BY <1>8 DEF Reset
  <2> DEFINE r == [Fresh EXCEPT !.op = "reset", !.step = "load", !.scenario = s]
  <2>2. /\ r \in RequestType /\ r.op = "reset" /\ r.scenario = s /\ r.run = 0
        /\ r.step = "load" /\ r.loads = 0
    <3>1. r \in RequestType
      BY <1>4 DEF RequestType, Ops, Steps
    <3> QED
      BY <3>1 DEF Fresh
  <2>3. Enter(q, r)
    BY <2>1
  <2> HIDE DEF r
  <2>4. RequestOK(r, run)
    BY <1>0, <2>2 DEF RequestOK, EventSteps
  <2> QED
    BY <1>3, <2>2, <2>3, <2>4
<1>9. ASSUME NEW q \in Requests, Control(q) PROVE TypeInv'
  <2>1. PICK op \in {"pause", "resume", "halt"} :
          ActiveRun # 0 /\ Enter(q, [Fresh EXCEPT !.op = op, !.step = "status", !.run = ActiveRun])
    BY <1>9 DEF Control, ControlFrom
  <2> DEFINE r == [Fresh EXCEPT !.op = op, !.step = "status", !.run = ActiveRun]
  <2>2. r \in RequestType /\ r.op = op /\ r.run = ActiveRun /\ r.step = "status"
    <3>0. ActiveRun \in Nat /\ Fresh \in RequestType
      BY <1>0, <1>4, <1>6
    <3>1. r \in RequestType
      BY <3>0 DEF RequestType, Ops, Steps
    <3> QED
      BY <3>1 DEF Fresh
  <2>3. Enter(q, r)
    BY <2>1
  <2> HIDE DEF r
  <2>4. RequestOK(r, run)
    BY <1>6, <2>1, <2>2 DEF RequestOK, EventSteps
  <2> QED
    BY <1>3, <2>2, <2>3, <2>4
<1>10. ASSUME NEW q \in Requests, Advance(q) PROVE TypeInv'
  <2> DEFINE row == run[ActiveRun]
             next == NextPosition(row.scenario, row.position)
             event == IF next = 0 THEN NoKey ELSE Timeline[row.scenario][next]
             r == [Fresh EXCEPT !.op = "advance", !.run = ActiveRun, !.row = {row},
                                !.step = IF next = 0 THEN "status" ELSE "find",
                                !.event = event, !.key = event]
  <2>1. ActiveRun # 0 /\ Enter(q, r)
    BY <1>10 DEF Advance
  <2>2. row \in RunRows /\ OnTrack(row) /\ row.scenario \in Scenarios /\ row.position \in Nat
    BY <1>6, <2>1
  <2>3. next # 0 => event = Timeline[row.scenario][next] /\ event \in Events
    BY <2>2, NextIs, EventAssumption
  <2>4. event \in Events \cup {NoKey}
    BY <2>3
  <2> HIDE DEF row, next, event
  <2>5. /\ r \in RequestType /\ r.op = "advance" /\ r.run = ActiveRun /\ r.row = {row}
        /\ r.step = (IF next = 0 THEN "status" ELSE "find") /\ r.event = event /\ r.key = event
    <3>0. event \in AllKeys /\ {row} \in SUBSET RunRows /\ ActiveRun \in Nat
      BY <1>0, <1>6, <2>2, <2>4 DEF AllKeys
    <3> DEFINE read == {row}
               step == IF next = 0 THEN "status" ELSE "find"
    <3>1. "advance" \in Ops /\ step \in Steps /\ read \in SUBSET RunRows /\ Fresh \in RequestType
      BY <1>4, <3>0 DEF Ops, Steps
    <3>2. r = [Fresh EXCEPT !.op = "advance", !.run = ActiveRun, !.row = read,
                            !.step = step, !.event = event, !.key = event]
      OBVIOUS
    <3>3. r \in RequestType
      <4> HIDE DEF read, step, r
      <4> QED
        BY <2>4, <3>0, <3>1, <3>2 DEF RequestType
    <3> QED
      BY <3>3 DEF Fresh
  <2> HIDE DEF r
  <2>6. next # 0 => GoesOn(r)
    BY <2>3, <2>5 DEF GoesOn, next
  <2>7. HasRead(r, run)
    BY <2>2, <2>5 DEF HasRead, row
  <2>8. RequestOK(r, run)
    BY <1>6, <2>1, <2>3, <2>5, <2>6, <2>7 DEF RequestOK, EventSteps
  <2> QED
    BY <1>3, <2>1, <2>5, <2>8
<1>11. ASSUME NEW q \in Requests, Inject(q) PROVE TypeInv'
  <2>1. PICK e \in Events, k \in Keys \cup {NoKey} :
          Enter(q, [Fresh EXCEPT !.op = "inject", !.step = "find", !.event = e, !.key = k])
    BY <1>11 DEF Inject
  <2> DEFINE r == [Fresh EXCEPT !.op = "inject", !.step = "find", !.event = e, !.key = k]
  <2>2. r \in RequestType /\ r.op = "inject" /\ r.run = 0 /\ r.step = "find" /\ r.event = e
    <3>0. k \in AllKeys
      BY DEF AllKeys
    <3>1. r \in RequestType
      BY <1>4, <3>0 DEF RequestType, Ops, Steps
    <3> QED
      BY <3>1 DEF Fresh
  <2>3. Enter(q, r)
    BY <2>1
  <2> HIDE DEF r
  <2>4. RequestOK(r, run)
    BY <1>0, <2>2 DEF RequestOK, EventSteps
  <2> QED
    BY <1>3, <2>2, <2>3, <2>4
<1>12. ASSUME NEW q \in Requests, Acknowledge(q) PROVE TypeInv'
  <2>1. outbox' \in [Events -> Notices] /\ UNCHANGED <<run, history, world, req, ledger>>
    BY <1>0, <1>12 DEF Acknowledge, Notices
  <2> QED
    BY <1>0, <2>1 DEF TypeInv, TablesOK, ledger
\* A request that goes on with the same run and event.
<1>13. ASSUME NEW q \in Requests, NEW r \in RequestType, Move(q, r), UNCHANGED <<tables, ledger>>,
              world' \in Worlds, req[q].step \in EventSteps, r.op = req[q].op, r.run = req[q].run,
              r.row = req[q].row, r.event = req[q].event, r.key = req[q].key,
              r.scenario = req[q].scenario, r.mode = req[q].mode,
              r.step \in EventSteps, r.step = "skip" => r.op = "advance"
       PROVE  TypeInv'
  <2>1. RequestOK(req[q], run)
    BY <1>0
  <2>2. req[q].op = "advance" => HasRead(req[q], run) /\ GoesOn(req[q])
    BY <1>13, <2>1 DEF RequestOK
  <2>3. req[q].op = "advance" => HasRead(r, run) /\ GoesOn(r)
    BY <1>13, <2>2 DEF HasRead, GoesOn
  <2>4. RequestOK(r, run)
    BY <1>13, <2>1, <2>3 DEF RequestOK, EventSteps
  <2> QED
    BY <1>2, <1>13, <2>4
<1>14. \A q \in Requests : /\ req[q] \in RequestType /\ RequestOK(req[q], run)
                          /\ req[q].run \in 0..Len(run) /\ (req[q].run # 0 => req[q].run \in 1..Len(run))
  BY <1>0 DEF RequestOK
<1>15. ASSUME NEW q \in Requests, StopActive(q) PROVE TypeInv'
  <2> DEFINE r == [req[q] EXCEPT !.step = "load"]
  <2>1. Move(q, r) /\ UNCHANGED <<tables, world, ledger>> /\ req[q].step = "stop"
    BY <1>15 DEF StopActive
  <2>2. r \in RequestType
    BY <1>14 DEF RequestType, Steps
  <2>3. /\ r.op = req[q].op /\ r.scenario = req[q].scenario /\ r.mode = req[q].mode
        /\ r.run = req[q].run /\ r.step = "load" /\ r.loads = req[q].loads
    BY <1>14 DEF RequestType
  <2> HIDE DEF r
  <2>4. RequestOK(r, run)
    BY <1>14, <2>1, <2>3 DEF RequestOK, EventSteps
  <2> QED
    BY <1>0, <1>2, <2>1, <2>2, <2>4
<1>16. ASSUME NEW q \in Requests, Load(q) PROVE TypeInv'
  <2> DEFINE n == req[q].loads + 1
             step == IF n < Len(LoadOrder) THEN "load"
                     ELSE IF req[q].op = "start" THEN "create" ELSE "read"
             r == [req[q] EXCEPT !.loads = n, !.step = step]
             loaded == Loaded(LoadOrder[n], req[q].scenario)
  <2>1. req[q].step = "load" /\ UNCHANGED <<history, outbox, ledger>>
    BY <1>16 DEF Load
  <2>2. /\ req[q].op \in {"start", "reset"} /\ req[q].scenario \in Scenarios /\ n \in 1..4
        /\ (n < Len(LoadOrder) => n \in 0..3)
    BY <1>14, <2>1 DEF RequestOK, LoadOrder
  <2>3. loaded \in Worlds
    BY <1>0, <2>2, LoadedWorlds
  <2>4. CASE Move(q, r) /\ world' = loaded /\ run' = run
    <3>1. step \in Steps /\ n \in 0..4
      BY <2>2 DEF Steps
    <3>2. r \in RequestType
      <4> HIDE DEF step, n
      <4> QED
        BY <1>14, <3>1 DEF RequestType
    <3>3. /\ r.op = req[q].op /\ r.scenario = req[q].scenario /\ r.mode = req[q].mode
          /\ r.run = req[q].run /\ r.step = step /\ r.loads = n
      BY <1>14 DEF RequestType
    <3>4. /\ step = "load" => n \in 0..3
          /\ step \in {"load", "create", "read"}
          /\ step = "create" => req[q].op = "start"
          /\ step = "read" => req[q].op = "reset"
      BY <2>2
    <3> HIDE DEF r, step, n
    <3>5. RequestOK(r, run)
      BY <1>14, <2>2, <3>3, <3>4 DEF RequestOK, EventSteps
    <3> QED
      BY <1>2, <2>1, <2>3, <2>4, <3>2, <3>5 DEF tables
  <2>5. CASE /\ End(q) /\ world' \in {world, loaded}
             /\ run' = IF req[q].op = "start" THEN Stopped(req[q].run) ELSE run
    <3>1. RunsOK(run') /\ Grows(run, run')
      BY <1>0, <1>14, <2>5, StoppedRuns, Unchanged
    <3>2. TablesOK'
      BY <1>0, <2>1, <2>3, <2>5, <3>1 DEF TablesOK, ledger
    <3> QED
      BY <1>5, <2>5, <3>1, <3>2
  <2> QED
    BY <1>16, <2>4, <2>5 DEF Load
<1>17. ASSUME NEW q \in Requests, CreateRun(q) PROVE TypeInv'
  <2> DEFINE new == NewRun(req[q].scenario, req[q].mode)
             stopped == Stopped(req[q].run)
  <2>1. /\ req[q].step = "create" /\ run' = Append(stopped, new) /\ End(q)
        /\ UNCHANGED <<history, outbox, world, ledger>>
    BY <1>17 DEF CreateRun
  <2>2. req[q].scenario \in Scenarios /\ req[q].mode \in Modes
    BY <1>14, <2>1 DEF RequestOK
  <2>3. RunsOK(stopped) /\ Grows(run, stopped)
    BY <1>0, <1>14, StoppedRuns
  <2>4. new \in RunRows /\ OnTrack(new)
    BY <2>2, NewRunIs
  <2>5. RunsOK(run') /\ Grows(stopped, run')
    <3> HIDE DEF stopped, new
    <3> QED
      BY <2>1, <2>3, <2>4, Appended
  <2>6. Grows(run, run')
    <3> HIDE DEF stopped, new
    <3> QED
      BY <1>0, <2>3, <2>5, GrowsOn
  <2>7. TablesOK'
    BY <1>0, <2>1, <2>5 DEF TablesOK, ledger
  <2> QED
    BY <1>5, <2>1, <2>6, <2>7
<1>18. ASSUME NEW q \in Requests, ResetRead(q) PROVE TypeInv'
  <2> DEFINE row == ReadRow
             r == [req[q] EXCEPT !.step = "clear", !.run = ActiveRun, !.row = row]
  <2>1. Move(q, r) /\ UNCHANGED <<tables, world, ledger>> /\ req[q].step = "read"
    BY <1>18 DEF ResetRead
  <2>2. row \in SUBSET RunRows /\ ActiveRun \in Nat /\ (ActiveRun # 0 => row = {run[ActiveRun]})
    BY <1>0, <1>6 DEF ReadRow
  <2> HIDE DEF row
  <2>3. r \in RequestType
    <3>1. "clear" \in Steps /\ req[q] \in RequestType /\ row \in SUBSET RunRows /\ ActiveRun \in Nat
      BY <1>14, <2>2 DEF Steps
    <3> QED
      BY <3>1 DEF RequestType
  <2>4. /\ r.op = req[q].op /\ r.scenario = req[q].scenario /\ r.mode = req[q].mode
        /\ r.run = ActiveRun /\ r.row = row /\ r.step = "clear"
    BY <1>14 DEF RequestType
  <2> HIDE DEF r
  <2>5. r.run # 0 => HasRead(r, run)
    BY <1>6, <2>2, <2>4 DEF HasRead
  <2>6. RequestOK(r, run)
    BY <1>6, <1>14, <2>1, <2>4, <2>5 DEF RequestOK, EventSteps
  <2> QED
    BY <1>0, <1>2, <2>1, <2>3, <2>6
<1>19. ASSUME NEW q \in Requests, ClearRun(q) PROVE TypeInv'
  <2> DEFINE deleted == {e \in Events : outbox[e] # "NONE"}
             r == [req[q] EXCEPT !.step = "clearHistory", !.deleted = deleted]
  <2>1. Move(q, r) /\ UNCHANGED <<tables, world, ledger>> /\ req[q].step = "clear"
    BY <1>19 DEF ClearRun
  <2>2. deleted \in SUBSET Events
    OBVIOUS
  <2> HIDE DEF deleted
  <2>3. r \in RequestType
    BY <1>14, <2>2 DEF RequestType, Steps
  <2>4. /\ r.op = req[q].op /\ r.scenario = req[q].scenario /\ r.mode = req[q].mode
        /\ r.run = req[q].run /\ r.row = req[q].row /\ r.step = "clearHistory"
    BY <1>14 DEF RequestType
  <2> HIDE DEF r
  <2>5. r.run # 0 => HasRead(r, run)
    BY <1>14, <2>1, <2>4 DEF RequestOK, HasRead
  <2>6. RequestOK(r, run)
    BY <1>14, <2>1, <2>4, <2>5 DEF RequestOK, EventSteps
  <2> QED
    BY <1>0, <1>2, <2>1, <2>3, <2>6
<1>20. ASSUME NEW q \in Requests, ClearHistory(q) PROVE TypeInv'
  <2> DEFINE read == CHOOSE x \in req[q].row : TRUE
             k == req[q].run
  <2>1. /\ req[q].step = "clearHistory" /\ End(q) /\ UNCHANGED <<world, ledger>>
        /\ history' = [e \in Events |-> NoRow]
        /\ outbox' = [e \in Events |-> IF e \in req[q].deleted THEN "NONE" ELSE outbox[e]]
        /\ run' = IF k = 0 THEN run ELSE Cleared(k, read, req[q].scenario)
    BY <1>20 DEF ClearHistory
  <2>2. RunsOK(run') /\ Grows(run, run')
    <3>1. CASE k = 0
      BY <1>0, <2>1, <3>1, Unchanged
    <3>2. CASE k # 0
      <4>1. req[q].scenario \in Scenarios /\ HasRead(req[q], run) /\ k \in 1..Len(run)
        BY <1>14, <2>1, <3>2 DEF RequestOK
      <4>2. read \in RunRows /\ OnTrack(read) /\ read.scenario = run[k].scenario
        BY <4>1 DEF HasRead
      <4> HIDE DEF read, k
      <4> QED
        BY <1>0, <2>1, <3>2, <4>1, <4>2, ClearedRuns
    <3> QED
      BY <3>1, <3>2
  <2>3. history' \in [Events -> EventRows \cup {NoRow}] /\ outbox' \in [Events -> Notices]
    <3>1. "NONE" \in Notices
      BY DEF Notices
    <3> QED
      BY <1>0, <2>1, <3>1
  <2>4. TablesOK'
    BY <1>0, <2>1, <2>2, <2>3 DEF TablesOK, ledger
  <2> QED
    BY <1>5, <2>1, <2>2, <2>4
<1>21. ASSUME NEW q \in Requests, WriteStatus(q) PROVE TypeInv'
  <2> DEFINE k == req[q].run
             status == TargetOf[req[q].op]
  <2>1. /\ req[q].step = "status" /\ run' = WithStatus(run, k, status) /\ End(q)
        /\ UNCHANGED <<history, outbox, world, ledger>>
    BY <1>21 DEF WriteStatus, WithStatus
  <2>2. k \in 1..Len(run) /\ req[q].op \in {"pause", "resume", "halt", "advance"}
    BY <1>14, <2>1 DEF RequestOK
  <2>3. status \in RunStatuses
    BY <2>2 DEF TargetOf, RunStatuses
  <2>4. RunsOK(run') /\ Grows(run, run')
    <3> HIDE DEF k, status
    <3> QED
      BY <1>0, <2>1, <2>2, <2>3, StatusWritten
  <2>5. TablesOK'
    BY <1>0, <2>1, <2>4 DEF TablesOK, ledger
  <2> QED
    BY <1>5, <2>1, <2>4, <2>5
<1>22. /\ \A q \in Requests : End(q) /\ UNCHANGED <<tables, world, ledger>> => TypeInv'
  <2> SUFFICES ASSUME NEW q \in Requests, End(q), UNCHANGED <<tables, world, ledger>> PROVE TypeInv'
    OBVIOUS
  <2>1. TablesOK' /\ Grows(run, run')
    BY <1>0, Unchanged DEF TablesOK, tables, ledger
  <2> QED
    BY <1>5, <2>1
\* An event whose step alone changes.
<1>23. ASSUME NEW q \in Requests, NEW step \in EventSteps, req[q].step \in EventSteps,
              Move(q, [req[q] EXCEPT !.step = step]), step = "skip" => req[q].op = "advance",
              UNCHANGED <<tables, world, ledger>>
       PROVE  TypeInv'
  <2> DEFINE r == [req[q] EXCEPT !.step = step]
  <2>1. step \in Steps
    BY DEF EventSteps, Steps
  <2>2. r \in RequestType
    BY <1>14, <2>1 DEF RequestType
  <2>3. /\ r.op = req[q].op /\ r.run = req[q].run /\ r.row = req[q].row /\ r.event = req[q].event
        /\ r.key = req[q].key /\ r.scenario = req[q].scenario /\ r.mode = req[q].mode /\ r.step = step
    BY <1>14 DEF RequestType
  <2> HIDE DEF r
  <2>4. Move(q, r)
    BY <1>23 DEF r
  <2> QED
    BY <1>0, <1>13, <1>23, <2>2, <2>3, <2>4
<1>24. ASSUME NEW q \in Requests, Find(q) PROVE TypeInv'
  <2>1. req[q].step = "find" /\ UNCHANGED <<tables, world, ledger>>
    BY <1>24 DEF Find
  <2>2. \/ End(q)
        \/ req[q].op = "advance" /\ Move(q, [req[q] EXCEPT !.step = "skip"])
        \/ Move(q, [req[q] EXCEPT !.step = "insert"])
    BY <1>24 DEF Find
  <2> QED
    BY <1>22, <1>23, <2>1, <2>2 DEF EventSteps
<1>25. ASSUME NEW q \in Requests, Insert(q) PROVE TypeInv'
  <2>1. /\ req[q].step = "insert" /\ UNCHANGED <<tables, world, ledger>>
        /\ End(q) \/ Move(q, [req[q] EXCEPT !.step = "look"])
    BY <1>25 DEF Insert
  <2> QED
    BY <1>22, <1>23, <2>1 DEF EventSteps
\* An event whose call has failed.
<1>26. ASSUME NEW q \in Requests, req[q].step \in EventSteps, Fail(q),
              UNCHANGED <<tables, ledger>>, world' \in Worlds
       PROVE  TypeInv'
  <2> DEFINE none == {}
             r == [req[q] EXCEPT !.step = "record", !.failed = TRUE, !.changes = none]
  <2>1. r \in RequestType
    <3>1. "record" \in Steps /\ req[q] \in RequestType /\ none \in SUBSET Changes /\ TRUE \in BOOLEAN
      BY <1>14 DEF Steps
    <3> HIDE DEF none
    <3> QED
      BY <3>1 DEF RequestType
  <2>2. /\ r.op = req[q].op /\ r.run = req[q].run /\ r.row = req[q].row /\ r.event = req[q].event
        /\ r.key = req[q].key /\ r.scenario = req[q].scenario /\ r.mode = req[q].mode
        /\ r.step = "record"
    BY <1>14 DEF RequestType
  <2>3. Move(q, r)
    BY <1>26 DEF Fail
  <2> HIDE DEF r
  <2>4. r.step \in EventSteps
    BY <2>2 DEF EventSteps
  <2> QED
    BY <1>13, <1>26, <2>1, <2>2, <2>3, <2>4
<1>27. ASSUME NEW q \in Requests, req[q].step \in EventSteps
       PROVE  req[q].event \in Events /\ What(q) \in Payloads
  BY <1>14, <1>27, EventAssumption DEF RequestOK, What
<1>28. ASSUME NEW q \in Requests, Look(q) PROVE TypeInv'
  <2>1. req[q].step = "look" /\ UNCHANGED <<tables, world, ledger>> /\ req[q].step \in EventSteps
    BY <1>28 DEF Look, EventSteps
  <2>2. CASE Fail(q)
    BY <1>0, <1>26, <2>1, <2>2
  <2>3. CASE ~Fail(q)
    <3> DEFINE seen == world.priority[What(q).incident]
    <3>1. PICK step \in {"apply", "record"} : Move(q, [req[q] EXCEPT !.step = step, !.seen = seen])
      BY <1>28, <2>3 DEF Look
    <3> DEFINE r == [req[q] EXCEPT !.step = step, !.seen = seen]
    <3>2. seen \in 0..4
      BY <1>0, <1>27, <2>1 DEF Worlds, Ranks, Payloads
    <3> HIDE DEF seen
    <3>3. step \in Steps /\ step \in EventSteps
      BY DEF Steps, EventSteps
    <3>4. r \in RequestType
      BY <1>14, <3>2, <3>3 DEF RequestType
    <3>5. /\ r.op = req[q].op /\ r.run = req[q].run /\ r.row = req[q].row /\ r.event = req[q].event
          /\ r.key = req[q].key /\ r.scenario = req[q].scenario /\ r.mode = req[q].mode
          /\ r.step = step
      BY <1>14 DEF RequestType
    <3>6. Move(q, r)
      BY <3>1
    <3> HIDE DEF r
    <3> QED
      BY <1>0, <1>13, <2>1, <3>3, <3>4, <3>5, <3>6
  <2> QED
    BY <2>2, <2>3
<1>29. ASSUME NEW q \in Requests, Apply(q) PROVE TypeInv'
  <2>1. req[q].step = "apply" /\ UNCHANGED <<tables, ledger>> /\ req[q].step \in EventSteps
    BY <1>29 DEF Apply, EventSteps
  <2>2. Effect(What(q)) \in Worlds
    BY <1>0, <1>27, <2>1, EffectWorlds DEF What
  <2>3. world' \in Worlds
    BY <1>0, <1>29, <2>2 DEF Apply
  <2>4. CASE Fail(q)
    BY <1>26, <2>1, <2>3, <2>4
  <2>5. CASE ~Fail(q)
    <3> DEFINE changes == {"changed"}
               step == IF What(q).kind = "RESOLVE_TICKET" THEN "release" ELSE "record"
               r == [req[q] EXCEPT !.step = step, !.changes = changes]
    <3>1. Move(q, r)
      BY <1>29, <2>5 DEF Apply
    <3>2. step \in Steps /\ step \in EventSteps /\ changes \in SUBSET Changes /\ step # "skip"
      BY DEF Steps, EventSteps, Changes
    <3> HIDE DEF step, changes
    <3>3. r \in RequestType
      BY <1>14, <3>2 DEF RequestType
    <3>4. /\ r.op = req[q].op /\ r.run = req[q].run /\ r.row = req[q].row /\ r.event = req[q].event
          /\ r.key = req[q].key /\ r.scenario = req[q].scenario /\ r.mode = req[q].mode
          /\ r.step = step
      BY <1>14 DEF RequestType
    <3> HIDE DEF r
    <3> QED
      BY <1>13, <2>1, <2>3, <3>1, <3>2, <3>3, <3>4
  <2> QED
    BY <2>4, <2>5
<1>30. ASSUME NEW q \in Requests, Release(q) PROVE TypeInv'
  <2>1. req[q].step = "release" /\ UNCHANGED <<tables, ledger>> /\ req[q].step \in EventSteps
    BY <1>30 DEF Release, EventSteps
  <2> DEFINE released == [world EXCEPT !.booked[What(q).incident] = FALSE]
  <2>2. released \in Worlds
    BY <1>0, <1>27, <2>1 DEF Worlds, Payloads
  <2>3. world' \in Worlds
    BY <1>0, <1>30, <2>2 DEF Release
  <2>4. PICK more \in SUBSET Changes :
          Move(q, [req[q] EXCEPT !.step = "record", !.changes = req[q].changes \cup more])
    <3>1. {"released"} \in SUBSET Changes /\ {"release_failed"} \in SUBSET Changes /\ {} \in SUBSET Changes
      BY DEF Changes
    <3> QED
      BY <1>30, <3>1 DEF Release
  <2> DEFINE changes == req[q].changes \cup more
             r == [req[q] EXCEPT !.step = "record", !.changes = changes]
  <2>5. changes \in SUBSET Changes
    BY <1>14 DEF RequestType
  <2>6. Move(q, r)
    BY <2>4
  <2> HIDE DEF changes
  <2>7. r \in RequestType
    BY <1>14, <2>5 DEF RequestType, Steps
  <2>8. /\ r.op = req[q].op /\ r.run = req[q].run /\ r.row = req[q].row /\ r.event = req[q].event
        /\ r.key = req[q].key /\ r.scenario = req[q].scenario /\ r.mode = req[q].mode
        /\ r.step = "record"
    BY <1>14 DEF RequestType
  <2> HIDE DEF r
  <2>9. r.step \in EventSteps
    BY <2>8 DEF EventSteps
  <2> QED
    BY <1>13, <2>1, <2>3, <2>6, <2>7, <2>8, <2>9
<1>31. ASSUME NEW q \in Requests, Record(q) PROVE TypeInv'
  <2> DEFINE e == req[q].event
  <2>1. req[q].step = "record" /\ End(q) /\ UNCHANGED <<world, ledger>>
    BY <1>31 DEF Record
  <2>2. e \in Events
    BY <1>27, <2>1 DEF EventSteps
  <2>3. \A notice : RowOf(q, notice) \in EventRows
    <3>1. req[q].changes \in SUBSET Changes /\ req[q].key \in AllKeys
      BY <1>14 DEF RequestType
    <3> QED
      BY <3>1 DEF RowOf, EventRows
  <2>4. NoticesAfter \in SUBSET Notices
    BY DEF NoticesAfter, Notices
  <2>5. run' \in {run, RunAfter(q)} /\ history' \in [Events -> EventRows \cup {NoRow}]
        /\ outbox' \in [Events -> Notices]
    BY <1>0, <1>31, <2>2, <2>3, <2>4 DEF Record, tables
  <2>6. RunsOK(run') /\ Grows(run, run')
    BY <1>0, <1>14, <2>1, <2>5, RunAfterIs, Unchanged
  <2>7. TablesOK'
    BY <1>0, <2>1, <2>5, <2>6 DEF TablesOK, ledger
  <2> QED
    BY <1>5, <2>1, <2>6, <2>7
<1>32. ASSUME NEW q \in Requests, Skip(q) PROVE TypeInv'
  <2>1. /\ req[q].step = "skip" /\ End(q) /\ UNCHANGED <<history, outbox, world, ledger>>
        /\ run' = RunAfter(q)
    BY <1>32 DEF Skip
  <2>2. RunsOK(run') /\ Grows(run, run')
    BY <1>0, <1>14, <2>1, RunAfterIs
  <2>3. TablesOK'
    BY <1>0, <2>1, <2>2 DEF TablesOK, ledger
  <2> QED
    BY <1>5, <2>1, <2>2, <2>3
<1>33. ASSUME NEW q \in Requests, Abort(q) PROVE TypeInv'
  BY <1>22, <1>33 DEF Abort
<1>34. CASE UNCHANGED vars
  <2>1. TablesOK' /\ req' = req /\ run' = run
    BY <1>0, <1>34 DEF vars, tables, ledger, TablesOK
  <2> QED
    BY <1>0, <2>1 DEF TypeInv
<1>35. CASE Next
  <2>1. PICK q \in Requests : EnterRequest(q) \/ Work(q) \/ Abort(q)
    BY <1>35 DEF Next
  <2>2. CASE EnterRequest(q)
    BY <1>7, <1>8, <1>9, <1>10, <1>11, <1>12, <2>2 DEF EnterRequest
  <2>3. CASE Work(q)
    BY <1>15, <1>16, <1>17, <1>18, <1>19, <1>20, <1>21, <1>24, <1>25, <1>28, <1>29, <1>30,
       <1>31, <1>32, <2>3 DEF Work
  <2> QED
    BY <1>33, <2>1, <2>2, <2>3
<1> QED
  BY <1>34, <1>35

-----------------------------------------------------------------------------
(* What a step does to its request                                         *)

Continues(r, x) ==
  /\ x.op = r.op /\ x.run = r.run /\ x.row = r.row /\ x.event = r.event /\ x.key = r.key
  /\ x.scenario = r.scenario /\ x.seen = r.seen

Ends(x) == x.op = "none" /\ x.step = "idle"

\* The other requests stay as they are.
LEMMA OthersStay ==
  ASSUME TypeInv, NEW q \in Requests, EnterRequest(q) \/ Work(q) \/ Abort(q)
  PROVE  \A o \in Requests \ {q} : req'[o] = req[o]
<1>0. req \in [Requests -> RequestType]
  BY DEF TypeInv
<1>1. ASSUME NEW r, req' = [req EXCEPT ![q] = r] PROVE \A o \in Requests \ {q} : req'[o] = req[o]
  BY <1>0, <1>1
<1>2. CASE req' = req
  BY <1>2
<1>3. CASE EnterRequest(q)
  BY <1>1, <1>2, <1>3 DEF EnterRequest, Start, Reset, Control, Advance, Inject, Acknowledge, Enter
<1>4. CASE StopActive(q) \/ Load(q) \/ CreateRun(q) \/ ResetRead(q) \/ ClearRun(q) \/ ClearHistory(q)
             \/ WriteStatus(q)
  BY <1>1, <1>4 DEF StopActive, Load, CreateRun, ResetRead, ClearRun, ClearHistory, WriteStatus,
     Move, End
<1>5. CASE Find(q) \/ Insert(q) \/ Look(q) \/ Apply(q) \/ Release(q) \/ Record(q) \/ Skip(q) \/ Abort(q)
  <2>1. \E r : req' = [req EXCEPT ![q] = r]
    <3>1. CASE End(q)
      BY <3>1 DEF End
    <3>2. CASE \E r : Move(q, r)
      BY <3>2 DEF Move
    <3> QED
      BY <1>5, <3>1, <3>2 DEF Find, Insert, Look, Fail, Apply, Release, Record, Skip, Abort
  <2> QED
    BY <1>1, <2>1
<1> QED
  BY <1>3, <1>4, <1>5 DEF Work

\* How a request is after it has entered.
LEMMA EnterIs ==
  ASSUME TypeInv, NEW q \in Requests
  PROVE  /\ Start(q) => /\ req'[q].op = "start" /\ req'[q].run = ActiveRun
                        /\ req'[q].step \in {"stop", "load"}
         /\ Reset(q) => req'[q].op = "reset" /\ req'[q].step = "load"
         /\ Control(q) => /\ req'[q].op \in {"pause", "resume", "halt"} /\ req'[q].step = "status"
                          /\ req'[q].run = ActiveRun /\ ActiveRun # 0
         /\ Advance(q) => /\ req'[q].op = "advance" /\ req'[q].step \in {"status", "find"}
                          /\ req'[q].run = ActiveRun /\ ActiveRun # 0
                          /\ req'[q].row = {run[ActiveRun]}
         /\ Inject(q) => req'[q].op = "inject" /\ req'[q].step = "find"
         /\ Acknowledge(q) => req' = req
         /\ EnterRequest(q) => req[q].step = "idle"
<1>0. req \in [Requests -> RequestType]
  BY DEF TypeInv
<1>1. ASSUME NEW r, Enter(q, r) PROVE req'[q] = r /\ req[q].step = "idle"
  BY <1>0, <1>1 DEF Enter
<1>2. ASSUME Start(q) PROVE /\ req'[q].op = "start" /\ req'[q].run = ActiveRun
                            /\ req'[q].step \in {"stop", "load"} /\ req[q].step = "idle"
  <2>1. PICK s \in Scenarios, m \in Modes :
          Enter(q, [Fresh EXCEPT !.op = "start", !.scenario = s, !.mode = m, !.run = ActiveRun,
                                 !.step = IF ActiveRun = 0 THEN "load" ELSE "stop"])
    BY <1>2 DEF Start
  <2>2. /\ req'[q] = [Fresh EXCEPT !.op = "start", !.scenario = s, !.mode = m, !.run = ActiveRun,
                                   !.step = IF ActiveRun = 0 THEN "load" ELSE "stop"]
        /\ req[q].step = "idle"
    BY <1>1, <2>1
  <2> QED
    BY <2>2 DEF Fresh
<1>3. ASSUME Reset(q) PROVE req'[q].op = "reset" /\ req'[q].step = "load" /\ req[q].step = "idle"
  <2>1. PICK s \in Scenarios : Enter(q, [Fresh EXCEPT !.op = "reset", !.step = "load", !.scenario = s])
    BY <1>3 DEF Reset
  <2>2. /\ req'[q] = [Fresh EXCEPT !.op = "reset", !.step = "load", !.scenario = s]
        /\ req[q].step = "idle"
    BY <1>1, <2>1
  <2> QED
    BY <2>2 DEF Fresh
<1>4. ASSUME Control(q) PROVE /\ req'[q].op \in {"pause", "resume", "halt"} /\ req'[q].step = "status"
                              /\ req'[q].run = ActiveRun /\ ActiveRun # 0 /\ req[q].step = "idle"
  <2>1. PICK op \in {"pause", "resume", "halt"} :
          ActiveRun # 0 /\ Enter(q, [Fresh EXCEPT !.op = op, !.step = "status", !.run = ActiveRun])
    BY <1>4 DEF Control, ControlFrom
  <2>2. /\ req'[q] = [Fresh EXCEPT !.op = op, !.step = "status", !.run = ActiveRun]
        /\ req[q].step = "idle"
    BY <1>1, <2>1
  <2> QED
    BY <2>1, <2>2 DEF Fresh
<1>5. ASSUME Advance(q) PROVE /\ req'[q].op = "advance" /\ req'[q].step \in {"status", "find"}
                              /\ req'[q].run = ActiveRun /\ ActiveRun # 0 /\ req[q].step = "idle"
                              /\ req'[q].row = {run[ActiveRun]}
  <2>1. PICK step, event :
          /\ ActiveRun # 0 /\ step \in {"status", "find"}
          /\ Enter(q, [Fresh EXCEPT !.op = "advance", !.run = ActiveRun, !.row = {run[ActiveRun]},
                                    !.step = step, !.event = event, !.key = event])
    BY <1>5 DEF Advance
  <2>2. /\ req'[q] = [Fresh EXCEPT !.op = "advance", !.run = ActiveRun, !.row = {run[ActiveRun]},
                                   !.step = step, !.event = event, !.key = event]
        /\ req[q].step = "idle"
    BY <1>1, <2>1
  <2> QED
    BY <2>1, <2>2 DEF Fresh
<1>6. ASSUME Inject(q) PROVE req'[q].op = "inject" /\ req'[q].step = "find" /\ req[q].step = "idle"
  <2>1. PICK e \in Events, k \in Keys \cup {NoKey} :
          Enter(q, [Fresh EXCEPT !.op = "inject", !.step = "find", !.event = e, !.key = k])
    BY <1>6 DEF Inject
  <2>2. /\ req'[q] = [Fresh EXCEPT !.op = "inject", !.step = "find", !.event = e, !.key = k]
        /\ req[q].step = "idle"
    BY <1>1, <2>1
  <2> QED
    BY <2>2 DEF Fresh
<1>7. Acknowledge(q) => req' = req /\ req[q].step = "idle"
  BY DEF Acknowledge
<1> QED
  BY <1>2, <1>3, <1>4, <1>5, <1>6, <1>7 DEF EnterRequest

\* How a request is after it has worked.
LEMMA WorkIs ==
  ASSUME TypeInv, NEW q \in Requests
  PROVE  /\ StopActive(q) => /\ req[q].step = "stop" /\ req'[q].step = "load"
                             /\ Continues(req[q], req'[q])
         /\ Load(q) => /\ req[q].step = "load"
                       /\ \/ Ends(req'[q])
                          \/ /\ Continues(req[q], req'[q]) /\ run' = run
                             /\ \/ req'[q].step = "load"
                                \/ req'[q].step = "create" /\ req[q].op = "start"
                                \/ req'[q].step = "read" /\ req[q].op = "reset"
         /\ ResetRead(q) => /\ req[q].step = "read" /\ req'[q].step = "clear"
                            /\ req'[q].op = req[q].op /\ req'[q].run = ActiveRun
         /\ ClearRun(q) => /\ req[q].step = "clear" /\ req'[q].step = "clearHistory"
                           /\ Continues(req[q], req'[q])
         /\ Find(q) => /\ req[q].step = "find"
                       /\ \/ Ends(req'[q])
                          \/ /\ Continues(req[q], req'[q])
                             /\ \/ /\ req'[q].step = "skip" /\ req[q].op = "advance"
                                   /\ Recorded(req[q].event, req[q].key) # {}
                                \/ req'[q].step = "insert"
         /\ Insert(q) => /\ req[q].step = "insert" /\ Unclaimed(q)
                         /\ \/ Ends(req'[q])
                            \/ /\ req'[q].step = "look" /\ Continues(req[q], req'[q])
                               /\ Recorded(req[q].event, req[q].key) = {}
         /\ Look(q) => /\ req[q].step = "look"
                       /\ req'[q].step \in {"apply", "record"}
                       /\ req'[q].op = req[q].op /\ req'[q].run = req[q].run /\ req'[q].row = req[q].row
                       /\ req'[q].event = req[q].event /\ req'[q].key = req[q].key
                       /\ req'[q].step = "apply" => /\ req'[q].seen = world.priority[What(q).incident]
                                                    /\ Raises(req'[q])
         /\ Apply(q) => /\ req[q].step = "apply" /\ req'[q].step \in {"release", "record"}
                        /\ Continues(req[q], req'[q])
         /\ Release(q) => /\ req[q].step = "release" /\ req'[q].step = "record"
                          /\ Continues(req[q], req'[q])
         /\ CreateRun(q) => req[q].step = "create" /\ Ends(req'[q])
         /\ ClearHistory(q) => req[q].step = "clearHistory" /\ Ends(req'[q])
         /\ WriteStatus(q) => req[q].step = "status" /\ Ends(req'[q])
         /\ Record(q) => req[q].step = "record" /\ Ends(req'[q])
         /\ Skip(q) => req[q].step = "skip" /\ Ends(req'[q])
         /\ Abort(q) => Ends(req'[q])
<1>0. req \in [Requests -> RequestType] /\ req[q] \in RequestType
  BY DEF TypeInv
<1>1. ASSUME NEW r, Move(q, r) PROVE req'[q] = r
  BY <1>0, <1>1 DEF Move
<1>2. End(q) => Ends(req'[q])
  BY <1>0 DEF End, Ends, Fresh
<1>3. ASSUME NEW step, Move(q, [req[q] EXCEPT !.step = step])
      PROVE  req'[q].step = step /\ Continues(req[q], req'[q])
  <2>1. req'[q] = [req[q] EXCEPT !.step = step]
    BY <1>1, <1>3
  <2> QED
    BY <1>0, <2>1 DEF RequestType, Continues
<1>4. StopActive(q) => /\ req[q].step = "stop" /\ req'[q].step = "load"
                       /\ Continues(req[q], req'[q])
  BY <1>3 DEF StopActive
<1>5. ASSUME Load(q)
      PROVE  /\ req[q].step = "load"
             /\ \/ Ends(req'[q])
                \/ /\ Continues(req[q], req'[q]) /\ run' = run
                   /\ \/ req'[q].step = "load"
                      \/ req'[q].step = "create" /\ req[q].op = "start"
                      \/ req'[q].step = "read" /\ req[q].op = "reset"
  <2>1. req[q].step = "load" /\ req[q].op \in {"start", "reset"}
    BY <1>5 DEF Load, TypeInv, RequestOK
  <2>2. CASE End(q)
    BY <1>2, <2>1, <2>2
  <2>3. CASE ~End(q)
    <3>1. PICK n, step :
            /\ Move(q, [req[q] EXCEPT !.loads = n, !.step = step]) /\ run' = run
            /\ step = IF n < Len(LoadOrder) THEN "load"
                      ELSE IF req[q].op = "start" THEN "create" ELSE "read"
      BY <1>5, <2>3 DEF Load
    <3>2. req'[q] = [req[q] EXCEPT !.loads = n, !.step = step]
      BY <1>1, <3>1
    <3>3. req'[q].step = step /\ Continues(req[q], req'[q])
      BY <1>0, <3>2 DEF RequestType, Continues
    <3> QED
      BY <2>1, <3>1, <3>3
  <2> QED
    BY <2>2, <2>3
<1>6. ASSUME ResetRead(q)
      PROVE  /\ req[q].step = "read" /\ req'[q].step = "clear"
             /\ req'[q].op = req[q].op /\ req'[q].run = ActiveRun
  <2>1. req'[q] = [req[q] EXCEPT !.step = "clear", !.run = ActiveRun, !.row = ReadRow]
    BY <1>1, <1>6 DEF ResetRead
  <2> QED
    BY <1>0, <1>6, <2>1 DEF RequestType, ResetRead
<1>7. ASSUME ClearRun(q)
      PROVE  req[q].step = "clear" /\ req'[q].step = "clearHistory" /\ Continues(req[q], req'[q])
  <2>1. PICK deleted : req'[q] = [req[q] EXCEPT !.step = "clearHistory", !.deleted = deleted]
    BY <1>1, <1>7 DEF ClearRun
  <2> QED
    BY <1>0, <1>7, <2>1 DEF RequestType, ClearRun, Continues
<1>8. ASSUME Find(q)
      PROVE  /\ req[q].step = "find"
             /\ \/ Ends(req'[q])
                \/ /\ Continues(req[q], req'[q])
                   /\ \/ /\ req'[q].step = "skip" /\ req[q].op = "advance"
                         /\ Recorded(req[q].event, req[q].key) # {}
                      \/ req'[q].step = "insert"
  <2>1. \/ End(q)
        \/ /\ req[q].op = "advance" /\ Move(q, [req[q] EXCEPT !.step = "skip"])
           /\ Recorded(req[q].event, req[q].key) # {}
        \/ Move(q, [req[q] EXCEPT !.step = "insert"])
    BY <1>8 DEF Find
  <2>2. req[q].step = "find"
    BY <1>8 DEF Find
  <2> QED
    BY <1>2, <1>3, <2>1, <2>2
<1>9. ASSUME Insert(q)
      PROVE  /\ req[q].step = "insert" /\ Unclaimed(q)
             /\ \/ Ends(req'[q])
                \/ /\ req'[q].step = "look" /\ Continues(req[q], req'[q])
                   /\ Recorded(req[q].event, req[q].key) = {}
  BY <1>2, <1>3, <1>9 DEF Insert
<1>10. ASSUME Fail(q)
       PROVE  req'[q].step = "record" /\ Continues(req[q], req'[q])
  <2>1. req'[q] = [req[q] EXCEPT !.step = "record", !.failed = TRUE, !.changes = {}]
    BY <1>1, <1>10 DEF Fail
  <2> QED
    BY <1>0, <2>1 DEF RequestType, Continues
<1>11. ASSUME Look(q)
       PROVE  /\ req[q].step = "look"
              /\ req'[q].step \in {"apply", "record"}
              /\ req'[q].op = req[q].op /\ req'[q].run = req[q].run /\ req'[q].row = req[q].row
              /\ req'[q].event = req[q].event /\ req'[q].key = req[q].key
              /\ req'[q].step = "apply" => /\ req'[q].seen = world.priority[What(q).incident]
                                           /\ Raises(req'[q])
  <2>1. req[q].step = "look"
    BY <1>11 DEF Look
  <2>2. CASE Fail(q)
    BY <1>10, <2>1, <2>2 DEF Continues
  <2>3. CASE ~Fail(q)
    <3> DEFINE seen == world.priority[What(q).incident]
    <3>1. PICK step \in {"apply", "record"} :
            /\ Move(q, [req[q] EXCEPT !.step = step, !.seen = seen])
            /\ ~(What(q).kind = "ESCALATE_PRIORITY" /\ What(q).rank <= seen)
      BY <1>11, <2>3 DEF Look
    <3>2. req'[q] = [req[q] EXCEPT !.step = step, !.seen = seen]
      BY <1>1, <3>1
    <3> HIDE DEF seen
    <3>3. /\ req'[q].step = step /\ req'[q].seen = seen
          /\ req'[q].op = req[q].op /\ req'[q].run = req[q].run /\ req'[q].row = req[q].row
          /\ req'[q].event = req[q].event /\ req'[q].key = req[q].key
      BY <1>0, <3>2 DEF RequestType
    <3>4. What(q).rank \in Int /\ seen \in Int
      <4>1. req[q].event \in Events /\ What(q) \in Payloads
        BY <2>1, EventAssumption DEF TypeInv, RequestOK, EventSteps, What
      <4> QED
        BY <4>1 DEF TypeInv, TablesOK, Worlds, Payloads, Ranks, seen
    <3>5. Raises(req'[q])
      BY <3>1, <3>3, <3>4 DEF Raises, What
    <3> QED
      BY <2>1, <3>3, <3>5 DEF seen
  <2> QED
    BY <2>2, <2>3
<1>12. ASSUME Apply(q)
       PROVE  /\ req[q].step = "apply" /\ req'[q].step \in {"release", "record"}
              /\ Continues(req[q], req'[q])
  <2>1. req[q].step = "apply"
    BY <1>12 DEF Apply
  <2>2. CASE Fail(q)
    BY <1>10, <2>1, <2>2
  <2>3. CASE ~Fail(q)
    <3>1. PICK step \in {"release", "record"} :
            Move(q, [req[q] EXCEPT !.step = step, !.changes = {"changed"}])
      BY <1>12, <2>3 DEF Apply
    <3>2. req'[q] = [req[q] EXCEPT !.step = step, !.changes = {"changed"}]
      BY <1>1, <3>1
    <3> QED
      BY <1>0, <2>1, <3>2 DEF RequestType, Continues
  <2> QED
    BY <2>2, <2>3
<1>13. ASSUME Release(q)
       PROVE  req[q].step = "release" /\ req'[q].step = "record" /\ Continues(req[q], req'[q])
  <2>1. PICK changes : Move(q, [req[q] EXCEPT !.step = "record", !.changes = changes])
    BY <1>13 DEF Release
  <2>2. req'[q] = [req[q] EXCEPT !.step = "record", !.changes = changes]
    BY <1>1, <2>1
  <2> QED
    BY <1>0, <1>13, <2>2 DEF RequestType, Continues, Release
<1>14. /\ CreateRun(q) => req[q].step = "create" /\ Ends(req'[q])
       /\ ClearHistory(q) => req[q].step = "clearHistory" /\ Ends(req'[q])
       /\ WriteStatus(q) => req[q].step = "status" /\ Ends(req'[q])
       /\ Record(q) => req[q].step = "record" /\ Ends(req'[q])
       /\ Skip(q) => req[q].step = "skip" /\ Ends(req'[q])
       /\ Abort(q) => Ends(req'[q])
  BY <1>2 DEF CreateRun, ClearHistory, WriteStatus, Record, Skip, Abort
<1> QED
  BY <1>4, <1>5, <1>6, <1>7, <1>8, <1>9, <1>11, <1>12, <1>13, <1>14
-----------------------------------------------------------------------------
(* Types, and room for the runs                                            *)

\* At the beginning the tables are empty and no request is in flight.
LEMMA TypeInitially == Init => TypeInv /\ RoomForRuns
<1> SUFFICES ASSUME Init PROVE TypeInv /\ RoomForRuns
  OBVIOUS
<1>1. TablesOK
  <2>1. run = <<>> /\ RunsOK(run)
    BY DEF Init, RunsOK
  <2>2. history \in [Events -> EventRows \cup {NoRow}] /\ outbox \in [Events -> Notices]
    BY DEF Init, Notices
  <2>3. world \in Worlds
    BY ScenarioAssumption DEF Init
  <2>4. entered \in 0..MaxRequests /\ overlapped \in BOOLEAN
    <3>1. MaxRequests \in Nat
      BY SettingAssumption
    <3>2. entered \in 0..MaxRequests
      BY <3>1 DEF Init
    <3> QED
      BY <3>2 DEF Init
  <2> QED
    BY <2>1, <2>2, <2>3, <2>4 DEF TablesOK
<1>2. \A q \in Requests : req[q] = Fresh
  BY DEF Init
<1>3. Fresh \in RequestType
  BY DEF Fresh, RequestType, Ops, Steps, AllKeys
<1>4. RequestOK(Fresh, <<>>)
  BY DEF RequestOK, Fresh, EventSteps
<1>5. TypeInv
  BY <1>1, <1>3, <1>4 DEF TypeInv, Init
<1>6. Starters = {}
  BY <1>2 DEF Starters, Fresh
<1>7. RoomForRuns
  BY <1>6, SettingAssumption, FS_EmptySet DEF RoomForRuns, Init
<1> QED
  BY <1>5, <1>7

\* Only the end of a start adds a run.
LEMMA LengthIs ==
  ASSUME TypeInv, NEW q \in Requests, EnterRequest(q) \/ Work(q) \/ Abort(q)
  PROVE  Len(run') = Len(run) + (IF CreateRun(q) THEN 1 ELSE 0)
<1>0. /\ RunsOK(run) /\ Len(run) \in Nat /\ RequestOK(req[q], run) /\ req[q].run \in 0..Len(run)
      /\ (req[q].run # 0 => req[q].run \in 1..Len(run))
  BY DEF TypeInv, TablesOK, RequestOK, RunsOK
<1>1. CASE run' = run
  <2>1. ~CreateRun(q)
    <3> SUFFICES ASSUME CreateRun(q) PROVE FALSE
      OBVIOUS
    <3>1. RunsOK(Stopped(req[q].run)) /\ Len(Stopped(req[q].run)) = Len(run)
      BY <1>0, StoppedRuns
    <3>2. Len(run') = Len(run) + 1
      BY <1>0, <3>1 DEF CreateRun, RunsOK
    <3> QED
      BY <1>0, <1>1, <3>2
  <2> QED
    BY <1>0, <1>1, <2>1
<1>2. CASE CreateRun(q)
  <2>1. RunsOK(Stopped(req[q].run)) /\ Len(Stopped(req[q].run)) = Len(run)
    BY <1>0, StoppedRuns
  <2> QED
    BY <1>2, <2>1 DEF CreateRun, RunsOK
<1>3. CASE Load(q)
  <2>1. Len(run') = Len(run) /\ ~CreateRun(q)
    BY <1>0, <1>3, StoppedRuns DEF Load, CreateRun
  <2> QED
    BY <1>0, <2>1
<1>4. CASE ClearHistory(q) \/ WriteStatus(q)
  <2>1. ~CreateRun(q)
    BY <1>4 DEF ClearHistory, WriteStatus, CreateRun
  <2>2. Len(run') = Len(run)
    <3>1. run' = run \/ \E k, x : run' = [run EXCEPT ![k] = x]
      BY <1>4 DEF ClearHistory, Cleared, WriteStatus
    <3> QED
      BY <1>0, <3>1 DEF RunsOK
  <2> QED
    BY <1>0, <2>1, <2>2
<1>5. CASE Record(q) \/ Skip(q)
  <2>1. ~CreateRun(q) /\ (run' = run \/ (run' = RunAfter(q) /\ req[q].step \in {"record", "skip"}))
    BY <1>5 DEF Record, Skip, CreateRun, tables
  <2> QED
    BY <1>0, <2>1, RunAfterIs
<1>6. CASE EnterRequest(q) \/ Abort(q)
  <2>1. run' = run
    BY <1>6 DEF EnterRequest, Start, Reset, Control, Advance, Inject, Acknowledge, Enter, Abort, tables
  <2> QED
    BY <1>1, <2>1
<1>7. CASE StopActive(q) \/ ResetRead(q) \/ ClearRun(q) \/ Find(q) \/ Insert(q) \/ Look(q) \/ Apply(q)
             \/ Release(q)
  <2>1. run' = run
    BY <1>7 DEF StopActive, ResetRead, ClearRun, Find, Insert, Look, Apply, Release, tables
  <2> QED
    BY <1>1, <2>1
<1> QED
  BY <1>2, <1>3, <1>4, <1>5, <1>6, <1>7 DEF Work

\* The runs that are there and those that are being started never pass the bound.
LEMMA RoomStep == TypeInv /\ RoomForRuns /\ [Next]_vars => RoomForRuns'
<1> SUFFICES ASSUME TypeInv, RoomForRuns, [Next]_vars PROVE RoomForRuns'
  OBVIOUS
<1>0. Len(run) \in Nat /\ req \in [Requests -> RequestType] /\ MaxRuns \in Nat
  BY SettingAssumption DEF TypeInv, TablesOK, RunsOK
<1>1. /\ IsFiniteSet(Starters) /\ Cardinality(Starters) \in Nat
      /\ IsFiniteSet(Starters') /\ Cardinality(Starters)' \in Nat
  <2>1. IsFiniteSet(Requests) /\ Starters \subseteq Requests /\ Starters' \subseteq Requests
    BY SettingAssumption DEF Starters
  <2> QED
    BY <2>1, FS_Subset, FS_CardinalityType
<1>2. ASSUME Len(run') = Len(run), Starters' \subseteq Starters PROVE RoomForRuns'
  <2>1. Cardinality(Starters') <= Cardinality(Starters)
    BY <1>1, <1>2, FS_Subset
  <2> QED
    BY <1>0, <1>1, <1>2, <2>1 DEF RoomForRuns
<1>3. CASE UNCHANGED vars
  BY <1>2, <1>3 DEF vars, tables, ledger, Starters
<1>4. CASE Next
  <2>1. PICK q \in Requests : EnterRequest(q) \/ Work(q) \/ Abort(q)
    BY <1>4 DEF Next
  <2>2. /\ Len(run') = Len(run) + (IF CreateRun(q) THEN 1 ELSE 0)
        /\ \A o \in Requests \ {q} : req'[o] = req[o]
    BY <2>1, LengthIs, OthersStay
  <2>3. CASE Start(q)
    <3>1. req[q].op = "none" /\ ~CreateRun(q)
      <4>1. req[q].step = "idle" /\ RequestOK(req[q], run)
        BY <2>3, EnterIs DEF EnterRequest, TypeInv
      <4> QED
        BY <4>1 DEF RequestOK, CreateRun
    <3>2. Starters' = Starters \cup {q} /\ q \notin Starters
      BY <2>2, <2>3, <3>1, EnterIs DEF Starters
    <3>3. Cardinality(Starters') = Cardinality(Starters) + 1
      BY <1>1, <3>2, FS_AddElement
    <3>4. Len(run) + Cardinality(Starters) < MaxRuns
      BY <2>3 DEF Start, Starters
    <3> QED
      BY <1>0, <1>1, <2>2, <3>1, <3>3, <3>4 DEF RoomForRuns
  <2>4. CASE CreateRun(q)
    <3>1. req[q].op = "start" /\ Ends(req'[q])
      BY <2>4, WorkIs DEF TypeInv, RequestOK
    <3>2. Starters' = Starters \ {q} /\ q \in Starters
      BY <2>2, <3>1 DEF Starters, Ends
    <3>3. Cardinality(Starters') = Cardinality(Starters) - 1
      BY <1>1, <3>2, FS_RemoveElement
    <3> QED
      BY <1>0, <1>1, <2>2, <2>4, <3>3 DEF RoomForRuns
  <2>5. CASE ~Start(q) /\ ~CreateRun(q)
    <3>1. req'[q].op # "start" \/ req'[q].op = req[q].op
      <4>1. CASE EnterRequest(q)
        BY <2>5, <4>1, EnterIs DEF EnterRequest
      <4>2. CASE Work(q)
        <5>1. /\ StopActive(q) \/ ResetRead(q) \/ ClearRun(q) \/ Look(q) \/ Apply(q) \/ Release(q)
                   => req'[q].op = req[q].op
              /\ Load(q) \/ Find(q) \/ Insert(q) => Ends(req'[q]) \/ req'[q].op = req[q].op
              /\ ClearHistory(q) \/ WriteStatus(q) \/ Record(q) \/ Skip(q) => Ends(req'[q])
          BY WorkIs DEF Continues
        <5> QED
          BY <2>5, <4>2, <5>1 DEF Work, Ends
      <4>3. CASE Abort(q)
        BY <4>3, WorkIs DEF Ends
      <4> QED
        BY <2>1, <4>1, <4>2, <4>3
    <3>2. Starters' \subseteq Starters
      BY <2>2, <3>1 DEF Starters
    <3>3. Len(run') = Len(run)
      BY <1>0, <2>2, <2>5
    <3> QED
      BY <1>2, <3>2, <3>3
  <2> QED
    BY <2>3, <2>4, <2>5
<1> QED
  BY <1>3, <1>4

-----------------------------------------------------------------------------
(* Events are carried out one at a time                                    *)

\* At the beginning nothing is carried out.
LEMMA ClaimedInitially == Init => \A q \in Requests : Claimed(q)
BY DEF Init, Claimed, Fresh, Dispatching

\* No step lets two requests carry out the same event.
LEMMA ClaimedStep ==
  TypeInv /\ (\A q \in Requests : Claimed(q)) /\ [Next]_vars => \A q \in Requests : Claimed(q)'
<1> SUFFICES ASSUME TypeInv, \A q \in Requests : Claimed(q), [Next]_vars
             PROVE  \A q \in Requests : Claimed(q)'
  OBVIOUS
<1>0. history \in [Events -> EventRows \cup {NoRow}]
  BY DEF TypeInv, TablesOK
\* A step that carries on what was being carried out, and records nothing.
<1>1. ASSUME NEW q \in Requests, \A o \in Requests \ {q} : req'[o] = req[o],
             \A e \in Events : history'[e] \in {history[e], NoRow},
             \/ req'[q].step \notin Dispatching
             \/ /\ req[q].step \in Dispatching
                /\ req'[q].event = req[q].event /\ req'[q].key = req[q].key
      PROVE  \A o \in Requests : Claimed(o)'
  <2> SUFFICES ASSUME NEW o \in Requests, req'[o].step \in Dispatching
               PROVE  Claimed(o)'
    BY DEF Claimed
  <2>1. \A p \in Requests : req'[p].step \in Dispatching =>
          /\ req[p].step \in Dispatching
          /\ req'[p].event = req[p].event /\ req'[p].key = req[p].key
    BY <1>1
  <2>2. req[o].step \in Dispatching /\ req'[o].event = req[o].event /\ req'[o].key = req[o].key
    BY <2>1
  <2>3. /\ Recorded(req[o].event, req[o].key) = {}
        /\ \A p \in Requests \ {o} : ~Claims(p, req[o].event, req[o].key)
    BY <2>2 DEF Claimed
  <2>4. Recorded(req[o].event, req[o].key)' = {}
    BY <1>1, <2>2, <2>3 DEF Recorded
  <2>5. \A p \in Requests \ {o} : ~Claims(p, req[o].event, req[o].key)'
    BY <2>1, <2>2, <2>3 DEF Claims, Dispatching
  <2> QED
    BY <2>4, <2>5 DEF Claimed
<1>2. CASE UNCHANGED vars
  BY <1>2 DEF vars, tables, ledger, Claimed, Recorded, Claims
<1>3. CASE Next
  <2>1. PICK q \in Requests : EnterRequest(q) \/ Work(q) \/ Abort(q)
    BY <1>3 DEF Next
  <2>2. \A o \in Requests \ {q} : req'[o] = req[o]
    BY <2>1, OthersStay
  <2>3. CASE EnterRequest(q)
    <3>1. history' = history
      BY <2>3 DEF EnterRequest, Start, Reset, Control, Advance, Inject, Acknowledge, Enter, tables
    <3>2. req'[q].step \notin Dispatching
      <4>1. req[q].step = "idle"
        BY <2>3, EnterIs
      <4> QED
        BY <2>3, <4>1, EnterIs DEF EnterRequest, Dispatching
    <3> QED
      BY <1>1, <2>2, <3>1, <3>2
  <2>4. CASE \/ StopActive(q) \/ Load(q) \/ CreateRun(q) \/ ResetRead(q) \/ ClearRun(q)
             \/ WriteStatus(q) \/ Find(q) \/ Skip(q) \/ Abort(q)
    <3>1. history' = history
      BY <2>4 DEF StopActive, Load, CreateRun, ResetRead, ClearRun, WriteStatus, Find, Skip, Abort, tables
    <3>2. req'[q].step \notin Dispatching
      BY <2>4, WorkIs DEF Ends, Dispatching
    <3> QED
      BY <1>1, <2>2, <3>1, <3>2
  <2>5. CASE ClearHistory(q)
    <3>1. history' = [e \in Events |-> NoRow]
      BY <2>5 DEF ClearHistory
    <3>2. req'[q].step \notin Dispatching
      BY <2>5, WorkIs DEF Ends, Dispatching
    <3> QED
      BY <1>1, <2>2, <3>1, <3>2
  <2>6. CASE Look(q) \/ Apply(q) \/ Release(q)
    <3>1. history' = history
      BY <2>6 DEF Look, Apply, Release, tables
    <3>2. /\ req[q].step \in Dispatching
          /\ req'[q].event = req[q].event /\ req'[q].key = req[q].key
      BY <2>6, WorkIs DEF Continues, Dispatching
    <3> QED
      BY <1>1, <2>2, <3>1, <3>2
  <2>7. CASE Insert(q)
    <3>1. history' = history
      BY <2>7 DEF Insert, tables
    <3>2. CASE Ends(req'[q])
      <4>1. req'[q].step \notin Dispatching
        BY <3>2 DEF Ends, Dispatching
      <4> QED
        BY <1>1, <2>2, <3>1, <4>1
    <3>3. CASE ~Ends(req'[q])
      <4>1. /\ req'[q].event = req[q].event /\ req'[q].key = req[q].key
            /\ Unclaimed(q) /\ Recorded(req[q].event, req[q].key) = {}
            /\ req[q].step = "insert"
        BY <2>7, <3>3, WorkIs DEF Continues
      <4> SUFFICES ASSUME NEW o \in Requests, req'[o].step \in Dispatching
                   PROVE  Claimed(o)'
        BY DEF Claimed
      <4>2. CASE o = q
        <5>1. Recorded(req[o].event, req[o].key)' = {}
          BY <3>1, <4>1, <4>2 DEF Recorded
        <5>2. \A p \in Requests \ {o} : ~Claims(p, req[o].event, req[o].key)'
          BY <2>2, <4>1, <4>2 DEF Unclaimed, Claims
        <5> QED
          BY <5>1, <5>2 DEF Claimed
      <4>3. CASE o # q
        <5>1. req'[o] = req[o] /\ req[o].step \in Dispatching
          BY <2>2, <4>3
        <5>2. /\ Recorded(req[o].event, req[o].key) = {}
              /\ \A p \in Requests \ {o} : ~Claims(p, req[o].event, req[o].key)
          BY <5>1 DEF Claimed
        <5>3. Recorded(req[o].event, req[o].key)' = {}
          BY <3>1, <5>1, <5>2 DEF Recorded
        <5>4. ~Claims(o, req[q].event, req[q].key)
          BY <4>1, <4>3 DEF Unclaimed
        <5>5. \A p \in Requests \ {o} : ~Claims(p, req[o].event, req[o].key)'
          BY <2>2, <4>1, <5>1, <5>2, <5>4 DEF Claims, Dispatching
        <5> QED
          BY <5>3, <5>5 DEF Claimed
      <4> QED
        BY <4>2, <4>3
    <3> QED
      BY <3>2, <3>3
  <2>8. CASE Record(q)
    <3>1. req[q].step = "record" /\ req'[q].step \notin Dispatching /\ req[q].step \in Dispatching
      BY <2>8, WorkIs DEF Ends, Dispatching
    <3>2. CASE history' = history
      BY <1>1, <2>2, <3>1, <3>2
    <3>3. CASE history' # history
      <4> DEFINE e == req[q].event
      <4>1. PICK notice : history' = [history EXCEPT ![e] = RowOf(q, notice)]
        BY <2>8, <3>3 DEF Record, tables
      <4>2. RowOf(q, notice).key = req[q].key
        BY DEF RowOf
      <4> SUFFICES ASSUME NEW o \in Requests, req'[o].step \in Dispatching
                   PROVE  Claimed(o)'
        BY DEF Claimed
      <4>3. o # q /\ req'[o] = req[o] /\ req[o].step \in Dispatching
        BY <2>2, <3>1
      <4>4. /\ Recorded(req[o].event, req[o].key) = {}
            /\ \A p \in Requests \ {o} : ~Claims(p, req[o].event, req[o].key)
        BY <4>3 DEF Claimed
      <4>5. req[o].event # e /\ ~(req[o].key # NoKey /\ req[q].key = req[o].key)
        <5>1. ~Claims(q, req[o].event, req[o].key)
          BY <4>3, <4>4
        <5> QED
          BY <3>1, <5>1 DEF Claims, Dispatching
      <4>6. Recorded(req[o].event, req[o].key)' = {}
        <5> SUFFICES ASSUME NEW x \in Events, history'[x] # NoRow,
                            x = req[o].event \/ (req[o].key # NoKey /\ history'[x].key = req[o].key)
                     PROVE  FALSE
          BY <4>3 DEF Recorded
        <5>1. CASE x = e
          <6>1. history'[x] = RowOf(q, notice)
            BY <1>0, <4>1, <5>1
          <6> QED
            BY <4>2, <4>5, <5>1, <6>1
        <5>2. CASE x # e
          <6>1. history'[x] = history[x]
            BY <1>0, <4>1, <5>2
          <6> QED
            BY <4>4, <6>1 DEF Recorded
        <5> QED
          BY <5>1, <5>2
      <4>7. \A p \in Requests \ {o} : ~Claims(p, req[o].event, req[o].key)'
        BY <2>2, <3>1, <4>3, <4>4 DEF Claims, Dispatching
      <4> QED
        BY <4>6, <4>7 DEF Claimed
    <3> QED
      BY <3>2, <3>3
  <2> QED
    BY <2>1, <2>3, <2>4, <2>5, <2>6, <2>7, <2>8 DEF Work
<1> QED
  BY <1>2, <1>3
-----------------------------------------------------------------------------
(* Notifications and priorities                                            *)

\* No step leaves an event with changes and without a notification.
LEMMA AnnouncedStep == TypeInv /\ ChangeIsAnnounced /\ [Next]_vars => ChangeIsAnnounced'
<1> SUFFICES ASSUME TypeInv, ChangeIsAnnounced, [Next]_vars PROVE ChangeIsAnnounced'
  OBVIOUS
<1>0. /\ history \in [Events -> EventRows \cup {NoRow}] /\ outbox \in [Events -> Notices]
      /\ NoRow.changes = {}
  BY DEF TypeInv, TablesOK, NoRow
<1>1. CASE UNCHANGED <<history, outbox>>
  BY <1>1 DEF ChangeIsAnnounced
<1>2. ASSUME NEW q \in Requests, Acknowledge(q) PROVE ChangeIsAnnounced'
  BY <1>0, <1>2 DEF Acknowledge, ChangeIsAnnounced
<1>3. ASSUME NEW q \in Requests, ClearHistory(q) PROVE ChangeIsAnnounced'
  BY <1>0, <1>3 DEF ClearHistory, ChangeIsAnnounced
<1>4. ASSUME NEW q \in Requests, Record(q) PROVE ChangeIsAnnounced'
  <2> DEFINE e == req[q].event
  <2>1. \A notice : RowOf(q, notice).changes = req[q].changes
    BY DEF RowOf
  <2>2. "NONE" \notin NoticesAfter
    BY DEF NoticesAfter
  <2>3. CASE req[q].changes = {} /\ history' = [history EXCEPT ![e] = RowOf(q, "NONE")] /\ outbox' = outbox
    BY <1>0, <2>1, <2>3 DEF ChangeIsAnnounced
  <2>4. CASE \E notice \in NoticesAfter : /\ outbox' = [outbox EXCEPT ![e] = notice]
                                          /\ history' = [history EXCEPT ![e] = RowOf(q, notice)]
    BY <1>0, <2>1, <2>2, <2>4 DEF ChangeIsAnnounced
  <2> QED
    BY <1>1, <1>4, <2>3, <2>4 DEF Record, tables
<1>5. CASE Next
  <2>1. PICK q \in Requests : EnterRequest(q) \/ Work(q) \/ Abort(q)
    BY <1>5 DEF Next
  <2>2. CASE EnterRequest(q)
    BY <1>1, <1>2, <2>2 DEF EnterRequest, Start, Reset, Control, Advance, Inject, Enter, tables
  <2>3. CASE \/ StopActive(q) \/ Load(q) \/ CreateRun(q) \/ ResetRead(q) \/ ClearRun(q)
             \/ WriteStatus(q) \/ Find(q) \/ Skip(q) \/ Abort(q)
    BY <1>1, <2>3 DEF StopActive, Load, CreateRun, ResetRead, ClearRun, WriteStatus, Find, Skip,
       Abort, tables
  <2>4. CASE Insert(q) \/ Look(q) \/ Apply(q) \/ Release(q)
    BY <1>1, <2>4 DEF Insert, Look, Apply, Release, tables
  <2> QED
    BY <1>3, <1>4, <2>1, <2>2, <2>3, <2>4 DEF Work
<1> QED
  BY <1>1, <1>5 DEF vars, tables

\* In every scenario an incident that is not there has no priority.
LEMMA PriorityInitially == Init => PriorityInv
<1> SUFFICES ASSUME Init PROVE PriorityInv
  OBVIOUS
<1>1. AbsentIsLowest(world)
  BY ScenarioAssumption DEF Init, AbsentIsLowest
<1>2. \A q \in Requests : Raises(req[q])
  BY DEF Init, Fresh, Raises
<1> QED
  BY <1>1, <1>2 DEF PriorityInv

\* What an event changes: an escalation raises what it has seen, and a new
\* ticket takes the place of an incident that had no priority.
LEMMA EffectIs ==
  ASSUME TypeInv, PriorityInv, NEW q \in Requests, req[q].step = "apply", Accepts(q)
  PROVE  LET after == Effect(What(q)) IN
         /\ AbsentIsLowest(after)
         /\ \A i \in Incidents :
              after.priority[i] < world.priority[i] => req[q].seen < world.priority[i]
<1> DEFINE p == What(q)
           after == Effect(p)
           Raised ==
             /\ AbsentIsLowest(after)
             /\ \A i \in Incidents :
                  after.priority[i] < world.priority[i] => req[q].seen < world.priority[i]
<1>1. p \in Payloads /\ p = Payload[req[q].event]
  BY EventAssumption DEF TypeInv, RequestOK, EventSteps, What
<1>2. /\ p.incident \in Incidents /\ p.rank \in Int /\ p.rank >= 1
      /\ world \in Worlds /\ req[q].seen \in Int
      /\ \A i \in Incidents : world.priority[i] \in Int
  BY <1>1 DEF Payloads, Ranks, TypeInv, TablesOK, Worlds, RequestType
<1>3. AbsentIsLowest(world) /\ (p.kind = "ESCALATE_PRIORITY" => p.rank > req[q].seen)
  BY <1>1 DEF PriorityInv, Raises
<1>4. /\ p.kind = "NEW_TICKET" => world.incident[p.incident] = "ABSENT"
      /\ p.kind = "ESCALATE_PRIORITY" => world.incident[p.incident] = "OPEN"
  BY DEF Accepts, StatusOf
<1> HIDE DEF p
<1>5. ASSUME p.kind = "NEW_TICKET" PROVE Raised
  <2>1. /\ after.incident = [world.incident EXCEPT ![p.incident] = "OPEN"]
        /\ after.priority = [world.priority EXCEPT ![p.incident] = p.rank]
    BY <1>2, <1>5 DEF Effect, Worlds
  <2>2. world.priority[p.incident] = 1
    BY <1>2, <1>3, <1>4, <1>5 DEF AbsentIsLowest
  <2> HIDE DEF after
  <2>9. Raised
    BY <1>2, <1>3, <2>1, <2>2 DEF AbsentIsLowest, Worlds
  <2> QED
    BY <2>9
<1>6. ASSUME p.kind = "RESOLVE_TICKET" PROVE Raised
  <2>1. /\ after.incident = [world.incident EXCEPT ![p.incident] = "RESOLVED"]
        /\ after.priority = world.priority
    BY <1>2, <1>6 DEF Effect, Worlds
  <2> HIDE DEF after
  <2>9. Raised
    BY <1>2, <1>3, <2>1 DEF AbsentIsLowest, Worlds
  <2> QED
    BY <2>9
<1>7. ASSUME p.kind = "ESCALATE_PRIORITY" PROVE Raised
  <2>1. /\ after.incident = world.incident
        /\ after.priority = [world.priority EXCEPT ![p.incident] = p.rank]
    BY <1>2, <1>7 DEF Effect, Worlds
  <2> HIDE DEF after
  <2>9. Raised
    BY <1>2, <1>3, <1>4, <1>7, <2>1 DEF AbsentIsLowest, Worlds
  <2> QED
    BY <2>9
<1>8. ASSUME p.kind \notin {"NEW_TICKET", "RESOLVE_TICKET", "ESCALATE_PRIORITY"} PROVE Raised
  <2>1. after.incident = world.incident /\ after.priority = world.priority
    BY <1>2, <1>8 DEF Effect, Worlds
  <2> HIDE DEF after
  <2>9. Raised
    BY <1>2, <1>3, <2>1 DEF AbsentIsLowest
  <2> QED
    BY <2>9
<1>9. Raised
  <2> HIDE DEF after
  <2> QED
    BY <1>5, <1>6, <1>7, <1>8
<1> QED
  BY <1>9 DEF p

\* Which steps change the rows of the services, and how priorities fall.
LEMMA PriorityStep ==
  TypeInv /\ PriorityInv /\ [Next]_vars =>
    /\ PriorityInv'
    /\ \A i \in Incidents : world'.priority[i] < world.priority[i] =>
         \E q \in Requests : \/ req[q].step = "load"
                             \/ /\ req[q].step = "apply"
                                /\ req[q].seen < world.priority[i]
<1> DEFINE Falls(i) == \E q \in Requests : \/ req[q].step = "load"
                                           \/ /\ req[q].step = "apply"
                                              /\ req[q].seen < world.priority[i]
<1> SUFFICES ASSUME TypeInv, PriorityInv, [Next]_vars
             PROVE  /\ PriorityInv'
                    /\ \A i \in Incidents : world'.priority[i] < world.priority[i] => Falls(i)
  OBVIOUS
<1>0. /\ world \in Worlds /\ \A i \in Incidents : world.priority[i] \in Int
      /\ AbsentIsLowest(world) /\ \A q \in Requests : Raises(req[q])
  BY DEF TypeInv, TablesOK, Worlds, Ranks, PriorityInv
<1>1. CASE UNCHANGED vars
  BY <1>0, <1>1 DEF vars, PriorityInv
<1>2. CASE Next
  <2>1. PICK q \in Requests : EnterRequest(q) \/ Work(q) \/ Abort(q)
    BY <1>2 DEF Next
  <2>2. \A o \in Requests \ {q} : req'[o] = req[o]
    BY <2>1, OthersStay
  <2>3. Raises(req'[q])
    <3>1. req'[q].step = "apply" => Raises(req'[q])
      <4>1. CASE EnterRequest(q)
        <5>1. req[q].step = "idle"
          BY <4>1, EnterIs
        <5> QED
          BY <4>1, <5>1, EnterIs DEF EnterRequest
      <4>2. CASE Look(q)
        BY <4>2, WorkIs
      <4>3. CASE StopActive(q) \/ Load(q) \/ ResetRead(q) \/ ClearRun(q) \/ Find(q) \/ Insert(q)
        BY <4>3, WorkIs DEF Ends
      <4>4. CASE Apply(q) \/ Release(q) \/ CreateRun(q) \/ ClearHistory(q) \/ WriteStatus(q)
                 \/ Record(q) \/ Skip(q) \/ Abort(q)
        BY <4>4, WorkIs DEF Ends
      <4> QED
        BY <2>1, <4>1, <4>2, <4>3, <4>4 DEF Work
    <3> QED
      BY <3>1 DEF Raises
  <2>4. \A o \in Requests : Raises(req'[o])
    BY <1>0, <2>2, <2>3
  <2>5. ASSUME AbsentIsLowest(world'),
               \A i \in Incidents : world'.priority[i] < world.priority[i] => Falls(i)
        PROVE  /\ PriorityInv'
               /\ \A i \in Incidents : world'.priority[i] < world.priority[i] => Falls(i)
    BY <2>4, <2>5 DEF PriorityInv
  <2>6. CASE world' = world
    BY <1>0, <2>5, <2>6
  <2>7. CASE Load(q)
    <3>1. req[q].step = "load" /\ req[q].scenario \in Scenarios
      BY <2>7 DEF Load, TypeInv, RequestOK
    <3>2. world' = world \/ world' = Loaded(LoadOrder[req[q].loads + 1], req[q].scenario)
      BY <2>7 DEF Load
    <3>3. AbsentIsLowest(Loaded(LoadOrder[req[q].loads + 1], req[q].scenario))
      <4> DEFINE loaded == Loaded(LoadOrder[req[q].loads + 1], req[q].scenario)
      <4>1. \/ loaded.incident = world.incident /\ loaded.priority = world.priority
            \/ /\ loaded.incident = InitialState[req[q].scenario].incident
               /\ loaded.priority = InitialState[req[q].scenario].priority
        BY <1>0 DEF Loaded, Worlds
      <4> HIDE DEF loaded
      <4>2. AbsentIsLowest(loaded)
        BY <1>0, <3>1, <4>1, ScenarioAssumption DEF AbsentIsLowest
      <4> QED
        BY <4>2 DEF loaded
    <3>4. AbsentIsLowest(world')
      BY <1>0, <3>2, <3>3
    <3> QED
      BY <2>5, <3>1, <3>4
  <2>8. CASE Apply(q)
    <3>1. req[q].step = "apply" /\ (world' = world \/ (Accepts(q) /\ world' = Effect(What(q))))
      BY <2>8 DEF Apply
    <3>2. CASE world' # world
      <4>1. /\ AbsentIsLowest(world')
            /\ \A i \in Incidents :
                 world'.priority[i] < world.priority[i] => req[q].seen < world.priority[i]
        BY <3>1, <3>2, EffectIs
      <4> QED
        BY <2>5, <3>1, <4>1
    <3> QED
      BY <2>6, <3>2
  <2>9. CASE Release(q)
    <3>1. world' = world \/ world' = [world EXCEPT !.booked[What(q).incident] = FALSE]
      BY <2>9 DEF Release
    <3>2. world'.incident = world.incident /\ world'.priority = world.priority
      BY <1>0, <3>1 DEF Worlds
    <3>3. AbsentIsLowest(world')
      BY <1>0, <3>2 DEF AbsentIsLowest
    <3> QED
      BY <1>0, <2>5, <3>2, <3>3
  <2>10. CASE EnterRequest(q)
    BY <2>6, <2>10 DEF EnterRequest, Start, Reset, Control, Advance, Inject, Acknowledge, Enter
  <2>11. CASE StopActive(q) \/ CreateRun(q) \/ ResetRead(q) \/ ClearRun(q) \/ ClearHistory(q)
              \/ WriteStatus(q) \/ Find(q) \/ Insert(q) \/ Look(q) \/ Record(q) \/ Skip(q) \/ Abort(q)
    BY <2>6, <2>11 DEF StopActive, CreateRun, ResetRead, ClearRun, ClearHistory, WriteStatus, Find,
       Insert, Look, Record, Skip, Abort
  <2> QED
    BY <2>1, <2>7, <2>8, <2>9, <2>10, <2>11 DEF Work
<1> QED
  BY <1>1, <1>2
-----------------------------------------------------------------------------
(* Requests one after the other                                            *)

\* Rows that are rewritten without becoming active leave fewer active runs.
LEMMA FewerActive ==
  ASSUME NEW rows, NEW after, Len(after) = Len(rows),
         \A k \in 1..Len(rows) : after[k] = rows[k] \/ after[k].status \notin ActiveStatuses
                                  \/ (rows[k].status \in ActiveStatuses)
  PROVE  ActiveIn(after) \subseteq ActiveIn(rows)
BY DEF ActiveIn

AddRow(rows, e, row) == [rows EXCEPT ![e] = row]

\* A row that is added to the history takes nothing away from it.
LEMMA RecordedGrows ==
  ASSUME NEW rows \in [Events -> EventRows \cup {NoRow}], NEW e \in Events, rows[e] = NoRow,
         NEW row \in EventRows
  PROVE  /\ RecordedIn(AddRow(rows, e, row), e)
         /\ \A x \in Events : RecordedIn(rows, x) => RecordedIn(AddRow(rows, e, row), x)
<1> DEFINE after == AddRow(rows, e, row)
<1>1. row # NoRow
  BY DEF EventRows, NoRow
<1>2. after[e] = row /\ \A o \in Events \ {e} : after[o] = rows[o]
  BY DEF AddRow
<1> HIDE DEF after
<1>3. RecordedIn(after, e)
  BY <1>1, <1>2 DEF RecordedIn
<1>4. ASSUME NEW x \in Events, RecordedIn(rows, x) PROVE RecordedIn(after, x)
  <2>1. PICK o \in Events : rows[o] # NoRow /\ (o = x \/ rows[o].key = x)
    BY <1>4 DEF RecordedIn
  <2>2. after[o] = rows[o]
    BY <1>2, <2>1
  <2> QED
    BY <2>1, <2>2 DEF RecordedIn
<1> QED
  BY <1>3, <1>4 DEF after

\* At the beginning no run is active.
LEMMA SequentialInitially == Init => Sequential
<1> SUFFICES ASSUME Init PROVE Sequential
  OBVIOUS
<1>1. \A q \in Requests : req[q].step = "idle" /\ UpToDate(req[q], run, history)
  BY DEF Init, Fresh, UpToDate, EventSteps
<1>2. ActiveIn(run) = {}
  BY DEF Init, ActiveIn
<1> QED
  BY <1>1, <1>2 DEF Sequential

\* One request at a time keeps one active run, whose events are recorded.
LEMMA SequentialStep ==
  TypeInv /\ (\A q \in Requests : Claimed(q)) /\ Sequential /\ [Next]_vars => Sequential'
<1> SUFFICES ASSUME TypeInv, \A q \in Requests : Claimed(q), Sequential, [Next]_vars,
                    ~overlapped'
             PROVE  Sequential'
  BY DEF Sequential
<1> DEFINE One(rows) == \A j, k \in ActiveIn(rows) : j = k
           Known(rows, recorded) == \A k \in ActiveIn(rows), e \in Events :
                                      e \in rows[k].processed => RecordedIn(recorded, e)
<1>0. /\ history \in [Events -> EventRows \cup {NoRow}] /\ RunsOK(run) /\ Len(run) \in Nat
      /\ \A q \in Requests : RequestOK(req[q], run) /\ req[q] \in RequestType
      /\ ActiveIn(run) = ActiveRuns
  BY DEF TypeInv, TablesOK, RunsOK, ActiveIn, ActiveRuns
<1>1. CASE UNCHANGED vars
  BY <1>1 DEF vars, tables, ledger, Sequential
<1>2. CASE Next
  <2>1. PICK q \in Requests : EnterRequest(q) \/ Work(q) \/ Abort(q)
    BY <1>2 DEF Next
  <2>2. \A o \in Requests \ {q} : req'[o] = req[o]
    BY <2>1, OthersStay
  <2>3. ~overlapped
    <3>1. CASE EnterRequest(q)
      BY <3>1 DEF EnterRequest, Start, Reset, Control, Advance, Inject, Acknowledge, Enter, ledger
    <3>2. CASE StopActive(q) \/ Load(q) \/ CreateRun(q) \/ ResetRead(q) \/ ClearRun(q) \/ ClearHistory(q)
               \/ WriteStatus(q)
      BY <3>2 DEF StopActive, Load, CreateRun, ResetRead, ClearRun, ClearHistory, WriteStatus, ledger
    <3>3. CASE Find(q) \/ Insert(q) \/ Look(q) \/ Apply(q) \/ Release(q) \/ Record(q) \/ Skip(q) \/ Abort(q)
      BY <3>3 DEF Find, Insert, Look, Apply, Release, Record, Skip, Abort, ledger
    <3> QED
      BY <2>1, <3>1, <3>2, <3>3 DEF Work
  <2>4. /\ \A p, o \in Requests : req[p].step # "idle" /\ req[o].step # "idle" => p = o
        /\ UpToDate(req[q], run, history) /\ One(run) /\ Known(run, history)
    BY <2>3 DEF Sequential
  <2>5. CASE Acknowledge(q)
    <3>1. UNCHANGED <<run, history, req, overlapped>>
      BY <2>5 DEF Acknowledge, ledger
    <3> QED
      BY <3>1 DEF Sequential
  <2>6. CASE ~Acknowledge(q)
    <3>1. \A o \in Requests \ {q} : req[o].step = "idle" /\ req'[o] = req[o]
      <4>1. CASE EnterRequest(q)
        BY <2>2, <2>6, <4>1 DEF EnterRequest, Start, Reset, Control, Advance, Inject, Enter
      <4>2. CASE Abort(q)
        BY <2>2, <2>4, <4>2 DEF Abort
      <4>3. CASE Work(q)
        <5>1. req[q].step # "idle"
          <6>1. CASE StopActive(q) \/ Load(q) \/ ResetRead(q) \/ ClearRun(q) \/ Find(q) \/ Insert(q)
                     \/ Look(q)
            BY <6>1, WorkIs
          <6>2. CASE Apply(q) \/ Release(q) \/ CreateRun(q) \/ ClearHistory(q) \/ WriteStatus(q)
                     \/ Record(q) \/ Skip(q)
            BY <6>2, WorkIs
          <6> QED
            BY <4>3, <6>1, <6>2 DEF Work
        <5> QED
          BY <2>2, <2>4, <5>1
      <4> QED
        BY <2>1, <4>1, <4>2, <4>3
    \* What remains is the acting request and the tables.
    <3>2. ASSUME UpToDate(req'[q], run', history'), One(run'), Known(run', history')
          PROVE  Sequential'
      <4>1. \A p, o \in Requests : req'[p].step # "idle" /\ req'[o].step # "idle" => p = o
        BY <3>1
      <4>2. \A o \in Requests \ {q} : UpToDate(req'[o], run', history')
        BY <3>1 DEF UpToDate, EventSteps
      <4>3. \A o \in Requests : UpToDate(req'[o], run', history')
        BY <3>2, <4>2
      <4> QED
        BY <3>2, <4>1, <4>3 DEF Sequential
    <3>3. \A rows, recorded, x : Ends(x) => UpToDate(x, rows, recorded)
      BY DEF Ends, UpToDate, EventSteps
    <3>4. ActiveRun # 0 => ActiveRun \in ActiveIn(run)
      BY <1>0, ActiveRunIs
    <3>5. ActiveIn(run) \subseteq {ActiveRun}
      BY <1>0, <2>4, <3>4, ActiveRunIs
    \* Steps that leave run and history alone.
    <3>6. ASSUME run' = run, history' = history, UpToDate(req'[q], run, history) PROVE Sequential'
      BY <2>4, <3>2, <3>6
    <3>7. CASE EnterRequest(q)
      <4>1. run' = run /\ history' = history
        BY <2>6, <3>7 DEF EnterRequest, Start, Reset, Control, Advance, Inject, Enter, tables
      <4>2. CASE Start(q)
        <5>1. UpToDate(req'[q], run, history)
          BY <3>5, <4>2, EnterIs DEF UpToDate, EventSteps
        <5> QED
          BY <3>6, <4>1, <5>1
      <4>3. CASE Reset(q) \/ Inject(q)
        <5>1. UpToDate(req'[q], run, history)
          BY <4>3, EnterIs DEF UpToDate, EventSteps
        <5> QED
          BY <3>6, <4>1, <5>1
      <4>4. CASE Control(q) \/ Advance(q)
        <5>1. UpToDate(req'[q], run, history)
          BY <3>4, <4>4, EnterIs DEF UpToDate, EventSteps
        <5> QED
          BY <3>6, <4>1, <5>1
      <4> QED
        BY <2>6, <3>7, <4>2, <4>3, <4>4 DEF EnterRequest
    <3>8. CASE StopActive(q) \/ ClearRun(q) \/ Insert(q) \/ Abort(q)
      <4>1. run' = run /\ history' = history
        BY <3>8 DEF StopActive, ClearRun, Insert, Abort, tables
      <4>2. Ends(req'[q]) \/ UpToDate(req'[q], run, history)
        <5>1. CASE StopActive(q) \/ ClearRun(q)
          <6>1. Continues(req[q], req'[q])
            BY <5>1, WorkIs
          <6> QED
            BY <2>4, <5>1, <6>1, WorkIs DEF UpToDate, EventSteps, Continues
        <5>2. CASE Insert(q)
          BY <2>4, <5>2, WorkIs DEF UpToDate, EventSteps, Continues
        <5>3. CASE Abort(q)
          BY <5>3, WorkIs
        <5> QED
          BY <3>8, <5>1, <5>2, <5>3
      <4> QED
        BY <3>3, <3>6, <4>1, <4>2
    <3>9. CASE ResetRead(q)
      <4>1. run' = run /\ history' = history
        BY <3>9 DEF ResetRead, tables
      <4>2. req'[q].op = "reset" /\ req'[q].step = "clear" /\ req'[q].run = ActiveRun
        <5>1. req[q].op = "reset"
          BY <1>0, <3>9, WorkIs DEF RequestOK
        <5> QED
          BY <3>9, <5>1, WorkIs
      <4>3. UpToDate(req'[q], run, history)
        BY <3>5, <4>2 DEF UpToDate, EventSteps
      <4> QED
        BY <3>6, <4>1, <4>3
    <3>10. CASE Look(q) \/ Apply(q) \/ Release(q)
      <4>1. run' = run /\ history' = history
        BY <3>10 DEF Look, Apply, Release, tables
      <4>2. /\ req[q].step \in {"look", "apply", "release"}
            /\ req'[q].step \in {"apply", "release", "record"}
            /\ req'[q].op = req[q].op /\ req'[q].run = req[q].run /\ req'[q].row = req[q].row
        BY <3>10, WorkIs DEF Continues
      <4>3. UpToDate(req'[q], run, history)
        BY <2>4, <4>2 DEF UpToDate, EventSteps
      <4> QED
        BY <3>6, <4>1, <4>3
    <3>11. CASE Find(q)
      <4>1. run' = run /\ history' = history
        BY <3>11 DEF Find, tables
      <4>2. CASE Ends(req'[q])
        BY <3>3, <3>6, <4>1, <4>2
      <4>3. CASE ~Ends(req'[q])
        <5>1. /\ req[q].step = "find" /\ Continues(req[q], req'[q])
              /\ \/ /\ req'[q].step = "skip" /\ req[q].op = "advance"
                    /\ Recorded(req[q].event, req[q].key) # {}
                 \/ req'[q].step = "insert"
          BY <3>11, <4>3, WorkIs
        <5>2. req'[q].step = "skip" => RecordedIn(history, req'[q].event)
          <6> SUFFICES ASSUME req'[q].step = "skip" PROVE RecordedIn(history, req[q].event)
            BY <5>1 DEF Continues
          <6>1. req[q].key = req[q].event /\ Recorded(req[q].event, req[q].key) # {}
            BY <1>0, <5>1 DEF RequestOK, EventSteps
          <6> QED
            BY <6>1 DEF Recorded, RecordedIn
        <5>3. UpToDate(req'[q], run, history)
          BY <2>4, <5>1, <5>2 DEF UpToDate, EventSteps, Continues
        <5> QED
          BY <3>6, <4>1, <5>3
      <4> QED
        BY <4>2, <4>3
    \* Steps that end the request and rewrite rows.
    <3>12. ASSUME Ends(req'[q]), One(run'), Known(run', history') PROVE Sequential'
      BY <3>2, <3>3, <3>12
    <3>13. ASSUME Ends(req'[q]), history' = history, ActiveIn(run') \subseteq ActiveIn(run),
                  \A k \in ActiveIn(run') : run'[k].processed = run[k].processed
           PROVE  Sequential'
      BY <2>4, <3>12, <3>13
    <3> DEFINE r == req[q].run
    <3>14. r \in 0..Len(run) /\ (r # 0 => r \in 1..Len(run))
      BY <1>0 DEF RequestOK
    <3>15. /\ RunsOK(Stopped(r)) /\ Len(Stopped(r)) = Len(run)
           /\ r # 0 => Stopped(r)[r].status = "STOPPED"
           /\ \A j \in 1..Len(run) \ {r} : Stopped(r)[j] = run[j]
      BY <1>0, <3>14, StoppedRuns
    <3>16. ASSUME ActiveIn(run) \subseteq {r} PROVE ActiveIn(Stopped(r)) = {}
      <4> SUFFICES ASSUME NEW k \in 1..Len(run), Stopped(r)[k].status \in ActiveStatuses PROVE FALSE
        BY <3>15 DEF ActiveIn
      <4>1. CASE k = r
        BY <1>0, <3>14, <3>15, <4>1 DEF ActiveStatuses
      <4>2. CASE k # r
        BY <3>15, <3>16, <4>2 DEF ActiveIn
      <4> QED
        BY <4>1, <4>2
    <3>17. CASE Load(q)
      <4>1. history' = history /\ req[q].step = "load"
        BY <3>17 DEF Load
      <4>2. CASE Ends(req'[q])
        <5>1. CASE run' = run
          BY <3>13, <4>1, <4>2, <5>1
        <5>2. CASE run' # run
          <6>1. run' = Stopped(r) /\ req[q].op = "start"
            BY <3>17, <5>2 DEF Load
          <6>2. ActiveIn(run) \subseteq {r}
            BY <2>4, <4>1, <6>1 DEF UpToDate
          <6>3. ActiveIn(run') = {}
            BY <3>16, <6>1, <6>2
          <6> QED
            BY <3>12, <4>2, <6>3
        <5> QED
          BY <5>1, <5>2
      <4>3. CASE ~Ends(req'[q])
        <5>1. /\ run' = run /\ Continues(req[q], req'[q])
              /\ \/ req'[q].step = "load"
                 \/ req'[q].step = "create" /\ req[q].op = "start"
                 \/ req'[q].step = "read" /\ req[q].op = "reset"
          BY <3>17, <4>3, WorkIs
        <5>2. UpToDate(req'[q], run, history)
          BY <2>4, <4>1, <5>1 DEF UpToDate, EventSteps, Continues
        <5> QED
          BY <3>6, <4>1, <5>1, <5>2
      <4> QED
        BY <4>2, <4>3
    <3>18. CASE CreateRun(q)
      <4> DEFINE new == NewRun(req[q].scenario, req[q].mode)
                 stopped == Stopped(r)
      <4>1. /\ req[q].step = "create" /\ run' = Append(stopped, new) /\ history' = history
            /\ Ends(req'[q])
        BY <3>18, WorkIs DEF CreateRun
      <4>2. new.processed = {}
        BY DEF NewRun
      <4>3. ActiveIn(stopped) = {}
        BY <2>4, <3>16, <4>1 DEF UpToDate
      <4>4. stopped \in Seq(RunRows) /\ Len(stopped) = Len(run)
        BY <3>15 DEF RunsOK
      <4> HIDE DEF stopped, new
      <4>5. ActiveIn(run') \subseteq {Len(run) + 1} /\ run'[Len(run) + 1] = new
        BY <1>0, <4>1, <4>3, <4>4 DEF ActiveIn
      <4>6. One(run') /\ Known(run', history')
        BY <4>2, <4>5
      <4> QED
        BY <3>12, <4>1, <4>6
    <3>19. CASE ClearHistory(q)
      <4> DEFINE read == CHOOSE x \in req[q].row : TRUE
      <4>1. /\ req[q].step = "clearHistory" /\ Ends(req'[q])
            /\ run' = IF r = 0 THEN run ELSE Cleared(r, read, req[q].scenario)
        BY <3>19, WorkIs DEF ClearHistory
      <4>2. ActiveIn(run) \subseteq {r}
        BY <2>4, <4>1 DEF UpToDate
      <4>3. ActiveIn(run') = {}
        <5>1. CASE r = 0
          BY <4>1, <4>2, <5>1 DEF ActiveIn
        <5>2. CASE r # 0
          <6>1. req[q].scenario \in Scenarios /\ HasRead(req[q], run) /\ r \in 1..Len(run)
            BY <1>0, <3>14, <4>1, <5>2 DEF RequestOK
          <6>2. read \in RunRows /\ OnTrack(read) /\ read.scenario = run[r].scenario
            BY <6>1 DEF HasRead
          <6> HIDE DEF read, r
          <6>3. LET after == Cleared(r, read, req[q].scenario) IN
                /\ Len(after) = Len(run) /\ after[r].status = "STOPPED"
                /\ \A j \in 1..Len(run) \ {r} : after[j] = run[j]
            BY <1>0, <6>1, <6>2, ClearedRuns
          <6>4. /\ Len(run') = Len(run) /\ run'[r].status = "STOPPED"
                /\ \A j \in 1..Len(run) \ {r} : run'[j] = run[j]
            BY <4>1, <5>2, <6>3
          <6> QED
            BY <4>2, <6>4 DEF ActiveIn, ActiveStatuses
        <5> QED
          BY <5>1, <5>2
      <4> QED
        BY <3>12, <4>1, <4>3
    <3>20. CASE WriteStatus(q)
      <4> DEFINE status == TargetOf[req[q].op]
      <4>1. /\ req[q].step = "status" /\ run' = WithStatus(run, r, status) /\ history' = history
            /\ Ends(req'[q])
        BY <3>20, WorkIs DEF WriteStatus, WithStatus
      <4>2. r \in ActiveIn(run) /\ r \in 1..Len(run)
        BY <2>4, <4>1 DEF UpToDate, ActiveIn
      <4>3. status \in RunStatuses
        BY <1>0, <4>1 DEF RequestOK, TargetOf, RunStatuses
      <4> HIDE DEF status, r
      <4>4. LET after == WithStatus(run, r, status) IN
            /\ Len(after) = Len(run) /\ after[r].processed = run[r].processed
            /\ \A j \in 1..Len(run) \ {r} : after[j] = run[j]
        BY <1>0, <4>2, <4>3, StatusWritten
      <4>5. /\ Len(run') = Len(run) /\ run'[r].processed = run[r].processed
            /\ \A j \in 1..Len(run) \ {r} : run'[j] = run[j]
        BY <4>1, <4>4
      <4>6. /\ ActiveIn(run') \subseteq ActiveIn(run)
            /\ \A k \in ActiveIn(run') : run'[k].processed = run[k].processed
        BY <4>2, <4>5 DEF ActiveIn
      <4> QED
        BY <3>13, <4>1, <4>6
    \* An advance that has processed its event.
    <3>21. ASSUME req[q].step \in {"record", "skip"}, run' = RunAfter(q), Ends(req'[q]),
                  \A e \in Events : RecordedIn(history, e) => RecordedIn(history', e),
                  req[q].op = "advance" => RecordedIn(history', req[q].event)
           PROVE  Sequential'
      <4>1. /\ Len(run') = Len(run)
            /\ \A k \in 1..Len(run) :
                 \/ run'[k] = run[k]
                 \/ /\ req[q].op = "advance" /\ k = r
                    /\ run'[k].status \in {run[k].status, "COMPLETED"}
                    /\ \A x \in req[q].row : run'[k].processed = x.processed \cup {req[q].event}
        BY <1>0, <3>21, RunAfterIs
      <4>2. req[q].op = "advance" => req[q].row = {run[r]}
        BY <2>4, <3>21 DEF UpToDate, EventSteps
      <4>3. \A k \in ActiveIn(run') : k \in ActiveIn(run)
        BY <4>1 DEF ActiveIn, ActiveStatuses
      <4>4. One(run')
        BY <2>4, <4>3
      <4>5. Known(run', history')
        <5> SUFFICES ASSUME NEW k \in ActiveIn(run'), NEW e \in Events, e \in run'[k].processed
                     PROVE  RecordedIn(history', e)
          OBVIOUS
        <5>1. k \in ActiveIn(run) /\ k \in 1..Len(run)
          BY <4>3 DEF ActiveIn
        <5>2. CASE e \in run[k].processed
          BY <2>4, <3>21, <5>1, <5>2
        <5>3. CASE e \notin run[k].processed
          <6>1. req[q].op = "advance" /\ run'[k].processed = run[k].processed \cup {req[q].event}
            BY <4>1, <4>2, <5>1, <5>3
          <6> QED
            BY <3>21, <5>3, <6>1
        <5> QED
          BY <5>2, <5>3
      <4> QED
        BY <3>12, <3>21, <4>4, <4>5
    <3>22. CASE Skip(q)
      <4>1. /\ req[q].step = "skip" /\ run' = RunAfter(q) /\ Ends(req'[q]) /\ history' = history
        BY <3>22, WorkIs DEF Skip
      <4>2. RecordedIn(history, req[q].event)
        BY <2>4, <4>1 DEF UpToDate
      <4> QED
        BY <3>21, <4>1, <4>2
    <3>23. CASE Record(q)
      <4> DEFINE e == req[q].event
      <4>1. req[q].step = "record" /\ Ends(req'[q])
        BY <3>23, WorkIs
      <4>2. CASE run' = run /\ history' = history
        BY <3>13, <4>1, <4>2
      <4>3. CASE ~(run' = run /\ history' = history)
        <5>1. PICK notice :
                history' = [history EXCEPT ![e] = RowOf(q, notice)] /\ run' = RunAfter(q)
          BY <3>23, <4>3 DEF Record, tables
        <5>2. e \in Events /\ RowOf(q, notice) \in EventRows
          <6>1. /\ e \in Events /\ req[q].changes \in SUBSET Changes /\ req[q].key \in AllKeys
            BY <1>0, <4>1 DEF RequestOK, EventSteps, RequestType
          <6> QED
            BY <6>1 DEF RowOf, EventRows
        <5>3. history[e] = NoRow
          <6>1. Recorded(e, req[q].key) = {}
            BY <4>1 DEF Claimed, Dispatching
          <6> QED
            BY <5>2, <6>1 DEF Recorded
        <5> DEFINE row == RowOf(q, notice)
        <5>4. history' = AddRow(history, e, row)
          BY <5>1 DEF AddRow
        <5> HIDE DEF e, row
        <5>5. /\ RecordedIn(AddRow(history, e, row), e)
              /\ \A x \in Events : RecordedIn(history, x) => RecordedIn(AddRow(history, e, row), x)
          BY <1>0, <5>2, <5>3, RecordedGrows DEF row
        <5> QED
          BY <3>21, <4>1, <5>1, <5>4, <5>5 DEF e
      <4> QED
        BY <4>2, <4>3
    <3> QED
      BY <2>1, <3>7, <3>8, <3>9, <3>10, <3>11, <3>17, <3>18, <3>19, <3>20, <3>22, <3>23 DEF Work
  <2> QED
    BY <2>5, <2>6
<1> QED
  BY <1>1, <1>2
-----------------------------------------------------------------------------
(* Theorems                                                                *)

\* What every reachable state keeps, named for the temporal steps.
Kept ==
  /\ TypeInv /\ RoomForRuns /\ \A q \in Requests : Claimed(q)
  /\ ChangeIsAnnounced /\ PriorityInv /\ Sequential

\* All parts of the inductive invariant together.
LEMMA KeptInvariant == Spec => []Kept
<1>1. Init => Kept
  <2>1. Init => ChangeIsAnnounced
    BY DEF Init, ChangeIsAnnounced, NoRow
  <2> QED
    BY <2>1, TypeInitially, ClaimedInitially, PriorityInitially, SequentialInitially DEF Kept
<1>2. Kept /\ [Next]_vars => Kept'
  <2> SUFFICES ASSUME Kept, [Next]_vars PROVE Kept'
    OBVIOUS
  <2>1. TypeInv' /\ RoomForRuns' /\ ChangeIsAnnounced'
    BY TypeStep, RoomStep, AnnouncedStep DEF Kept
  <2>2. (\A q \in Requests : Claimed(q)') /\ PriorityInv' /\ Sequential'
    BY ClaimedStep, PriorityStep, SequentialStep DEF Kept
  <2> QED
    BY <2>1, <2>2 DEF Kept
<1> QED
  BY <1>1, <1>2, PTL DEF Spec

\* Whatever requests overlap, fail or die: the tables are well formed, no run
\* passes over an enabled event of its timeline; and requests one after the
\* other leave one active run at most, all of whose events are recorded.
THEOREM TimelineStaysSound == Spec => []TimelineSound
<1>1. Kept => TimelineSound
  <2> SUFFICES ASSUME Kept PROVE TimelineSound
    OBVIOUS
  <2>1. /\ RunsOK(run) /\ run \in Seq(RunRows) /\ Len(run) \in Nat
        /\ \A k \in 1..Len(run) : run[k] \in RunRows /\ OnTrack(run[k])
    BY DEF Kept, TypeInv, TablesOK, RunsOK
  <2>2. TypeOK
    <3>1. Len(run) <= MaxRuns
      <4>1. IsFiniteSet(Starters)
        BY SettingAssumption, FS_Subset DEF Starters
      <4>2. Cardinality(Starters) \in Nat /\ MaxRuns \in Nat
        BY <4>1, FS_CardinalityType, SettingAssumption
      <4> QED
        BY <2>1, <4>2 DEF Kept, RoomForRuns
    <3>2. ASSUME NEW q \in Requests
          PROVE  /\ req[q].op \in Ops /\ req[q].step \in Steps
                 /\ req[q].scenario \in Scenarios \cup {NoKey}
                 /\ req[q].mode \in Modes \cup {NoKey}
                 /\ req[q].run \in 0..Len(run) /\ req[q].row \subseteq RunRows
                 /\ req[q].event \in Events \cup {NoKey} /\ req[q].key \in AllKeys
                 /\ req[q].loads \in 0..Len(LoadOrder) /\ req[q].seen \in 0..4
                 /\ req[q].failed \in BOOLEAN /\ req[q].changes \subseteq Changes
                 /\ req[q].deleted \subseteq Events
      <4>1. req[q] \in RequestType /\ RequestOK(req[q], run) /\ Len(LoadOrder) = 4
        BY DEF Kept, TypeInv, LoadOrder
      <4>2. req[q].run \in 0..Len(run)
        BY <4>1 DEF RequestOK
      <4> QED
        BY <4>1, <4>2 DEF RequestType
    <3> QED
      BY <2>1, <3>1, <3>2 DEF TypeOK, Kept, TypeInv, TablesOK
  <2>3. NothingSkipped
    BY <2>1 DEF NothingSkipped, OnTrack
  <2>4. ProcessedIsRecorded /\ OneActiveRun
    <3>1. CASE overlapped
      BY <3>1 DEF ProcessedIsRecorded, OneActiveRun
    <3>2. CASE ~overlapped
      <4>1. /\ \A j, k \in ActiveRuns : j = k
            /\ \A k \in ActiveRuns, e \in Events : e \in run[k].processed => RecordedIn(history, e)
        BY <3>2 DEF Kept, Sequential, ActiveIn, ActiveRuns
      <4>2. ProcessedIsRecorded
        <5> SUFFICES ASSUME NEW k \in ActiveRuns, NEW e \in run[k].processed
                     PROVE  Recorded(e, e) # {}
          BY DEF ProcessedIsRecorded
        <5>1. e \in Events
          BY <2>1 DEF ActiveRuns, RunRows
        <5>2. RecordedIn(history, e) /\ e # NoKey
          BY <4>1, <5>1, EventAssumption
        <5> QED
          BY <5>2 DEF RecordedIn, Recorded
      <4>3. OneActiveRun
        <5>1. CASE ActiveRuns = {}
          BY <5>1, FS_EmptySet DEF OneActiveRun
        <5>2. CASE ActiveRuns # {}
          <6>1. PICK k \in ActiveRuns : TRUE
            BY <5>2
          <6>2. ActiveRuns = {k}
            BY <4>1, <6>1
          <6>3. Cardinality({k}) = 1
            BY FS_Singleton
          <6>4. Cardinality(ActiveRuns) <= 1
            BY <6>2, <6>3
          <6> QED
            BY <6>4 DEF OneActiveRun
        <5> QED
          BY <5>1, <5>2
      <4> QED
        BY <4>2, <4>3
    <3> QED
      BY <3>1, <3>2
  <2> QED
    BY <2>2, <2>3, <2>4 DEF TimelineSound
<1> QED
  BY <1>1, KeptInvariant, PTL

\* No two requests carry out the same event or an event with the same key, and
\* none carries out what has been recorded.
THEOREM DispatchedOnce == Spec => []OneDispatchPerKey
<1>1. Kept => OneDispatchPerKey
  BY DEF Kept, Claimed, OneDispatchPerKey, Claims, Dispatching
<1> QED
  BY <1>1, KeptInvariant, PTL

\* An event that changed the enterprise keeps its notification, also through
\* resets that delete notifications and events one after the other.
THEOREM ChangesAnnounced == Spec => []ChangeIsAnnounced
<1>1. Kept => ChangeIsAnnounced
  BY DEF Kept
<1> QED
  BY <1>1, KeptInvariant, PTL

\* A priority falls only when a scenario is loaded, or by an escalation that
\* had read it before another one raised it.
THEOREM PrioritiesRise == Spec => PriorityOnlyRaised
<1> DEFINE Rises == \A i \in Incidents : world'.priority[i] < world.priority[i] =>
                      \E q \in Requests : \/ req[q].step = "load"
                                          \/ /\ req[q].step = "apply"
                                             /\ req[q].seen < world.priority[i]
<1>1. Kept /\ [Next]_vars => [Rises]_vars
  BY PriorityStep DEF Kept
<1>2. Spec => [][Rises]_vars
  BY <1>1, KeptInvariant, PTL DEF Spec
<1> QED
  BY <1>2 DEF PriorityOnlyRaised

=============================================================================
