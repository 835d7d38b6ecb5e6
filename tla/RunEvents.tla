------------------------------ MODULE RunEvents ------------------------------
(***************************************************************************)
(* The audit log of one run (run_events) and the event streams that show   *)
(* it.                                                                     *)
(*                                                                         *)
(* save_run_event numbers an event and publishes it to the connected       *)
(* streams inside the transaction of its caller.  The per-run lock is held *)
(* from the SELECT of the largest number to the flush of the new row; the  *)
(* commit comes later, when the caller's transaction ends, and the         *)
(* PostgreSQL transactions of other writers see only committed rows and    *)
(* their own.  Writers are the graph nodes of the run's tasks and          *)
(* cancel_run.                                                             *)
(*                                                                         *)
(* A stream first reads the log and only then subscribes to the publisher. *)
(***************************************************************************)
EXTENDS Integers, FiniteSets, Sequences

CONSTANTS
  Events,    \* events that can be written (the bound of the log)
  Writers,   \* database sessions that can write to the run's log together
  Clients    \* event-stream connections

VARIABLES
  place,     \* "unused", "flushed" (uncommitted), "committed" or "undone"
  number,    \* sequence_number of a flushed or committed event
  owner,     \* the writer whose transaction flushed the event
  lock,      \* the holder of _run_locks[run_id]
  largest,   \* per writer: the max_seq it has read while it holds the lock
  stream,    \* per client: "closed", "reading" (history sent) or "open"
  history,   \* per client: the events of the history query
  queue      \* per client: the events its asyncio.Queue was given, in order

log == <<place, number, owner>>
streams == <<stream, history, queue>>
vars == <<log, lock, largest, streams>>

NoWriter == "none"
ASSUME WritersAssumption == NoWriter \notin Writers
ASSUME EventsAssumption == IsFiniteSet(Events)

Committed == {e \in Events : place[e] = "committed"}
FlushedBy(w) == {e \in Events : place[e] = "flushed" /\ owner[e] = w}

\* Mutant: rows that others have not committed are read.
DirtyRead(w) == {e \in Events : place[e] \in {"flushed", "committed"}}

\* READ COMMITTED: the committed rows and the transaction's own.
VisibleTo(w) == Committed \cup FlushedBy(w)

-----------------------------------------------------------------------------
Init ==
  /\ place = [e \in Events |-> "unused"]
  /\ number = [e \in Events |-> 0]
  /\ owner = [e \in Events |-> NoWriter]
  /\ lock = NoWriter
  /\ largest = [w \in Writers |-> 0]
  /\ stream = [c \in Clients |-> "closed"]
  /\ history = [c \in Clients |-> {}]
  /\ queue = [c \in Clients |-> <<>>]

\* max_seq or 0
IsLargest(n, es) ==
  \/ es = {} /\ n = 0
  \/ \E e \in es : number[e] = n /\ \A f \in es : number[f] <= n

\* save_run_event: the lock, then SELECT sequence_number ... DESC.
SelectLargest(w) ==
  /\ lock = NoWriter
  /\ lock' = w
  /\ \E n \in {0} \cup {number[e] : e \in VisibleTo(w)} :
       IsLargest(n, VisibleTo(w)) /\ largest' = [largest EXCEPT ![w] = n]
  /\ UNCHANGED <<log, streams>>

\* event_publisher.publish: to the queues subscribed at this moment.
Published(e) ==
  [c \in Clients |-> IF stream[c] = "open" THEN Append(queue[c], e) ELSE queue[c]]

\* Mutants: the number is not incremented; it is decremented.
SameNumber(w) == largest[w]
PreviousNumber(w) == largest[w] - 1
NextNumber(w) == largest[w] + 1

\* Events differ in nothing but what becomes of them: any unused one is the next.
NextEvent == CHOOSE e \in Events : place[e] = "unused"

\* save_run_event goes on: the row is flushed, the event published, the lock
\* released.  The caller's transaction is still open.
FlushAndPublish(w, e) ==
  /\ lock = w
  /\ place[e] = "unused" /\ e = NextEvent
  /\ place' = [place EXCEPT ![e] = "flushed"]
  /\ number' = [number EXCEPT ![e] = NextNumber(w)]
  /\ owner' = [owner EXCEPT ![e] = w]
  /\ queue' = Published(e)
  /\ lock' = NoWriter
  /\ UNCHANGED <<largest, stream, history>>

\* The caller's transaction ends.  It does not end inside save_run_event
\* unless that call fails, which releases the lock as well.
EndTransaction(w, outcome) ==
  /\ place' = [e \in Events |-> IF e \in FlushedBy(w) THEN outcome ELSE place[e]]
  /\ UNCHANGED <<number, owner, largest, streams>>

Commit(w) ==
  /\ FlushedBy(w) # {} /\ lock # w
  /\ EndTransaction(w, "committed")
  /\ UNCHANGED lock

Rollback(w) ==
  /\ FlushedBy(w) # {} \/ lock = w
  /\ EndTransaction(w, "undone")
  /\ lock' = IF lock = w THEN NoWriter ELSE lock

\* Mutant: an open stream is sent the history again.
ReadHistoryAgain(c) ==
  /\ stream[c] # "reading"
  /\ stream' = [stream EXCEPT ![c] = "reading"]
  /\ history' = [history EXCEPT ![c] = Committed]
  /\ UNCHANGED <<log, lock, largest, queue>>

\* run_events_stream: the history query ...
ReadHistory(c) ==
  /\ stream[c] = "closed"
  /\ stream' = [stream EXCEPT ![c] = "reading"]
  /\ history' = [history EXCEPT ![c] = Committed]
  /\ UNCHANGED <<log, lock, largest, queue>>

\* ... whose rows are sent one by one before the client is subscribed.
Subscribe(c) ==
  /\ stream[c] = "reading"
  /\ stream' = [stream EXCEPT ![c] = "open"]
  /\ UNCHANGED <<log, lock, largest, history, queue>>

\* The client goes away: unsubscribe.
Disconnect(c) ==
  /\ stream[c] # "closed"
  /\ stream' = [stream EXCEPT ![c] = "closed"]
  /\ history' = [history EXCEPT ![c] = {}]
  /\ queue' = [queue EXCEPT ![c] = <<>>]
  /\ UNCHANGED <<log, lock, largest>>

Next ==
  \/ \E w \in Writers :
       \/ SelectLargest(w)
       \/ \E e \in Events : FlushAndPublish(w, e)
       \/ Commit(w)
       \/ Rollback(w)
  \/ \E c \in Clients :
       \/ ReadHistory(c)
       \/ Subscribe(c)
       \/ Disconnect(c)

Spec == Init /\ [][Next]_vars

-----------------------------------------------------------------------------
\* The log, the lock and the streams hold values the program can hold.
TypeOK ==
  /\ place \in [Events -> {"unused", "flushed", "committed", "undone"}]
  /\ number \in [Events -> Nat]
  /\ owner \in [Events -> Writers \cup {NoWriter}]
  /\ lock \in Writers \cup {NoWriter}
  /\ largest \in [Writers -> Nat]
  /\ stream \in [Clients -> {"closed", "reading", "open"}]
  /\ history \in [Clients -> SUBSET Events]
  /\ queue \in [Clients -> Seq(Events)]

\* However transactions overlap and roll back, the committed log has no gap:
\* every number below a committed one is committed too.
NoGaps ==
  \A e \in Committed :
    number[e] = 1 \/ \E f \in Committed : number[f] = number[e] - 1

SentTo(c) == {queue[c][i] : i \in DOMAIN queue[c]}

\* A client is never sent an event twice, neither from the history and again
\* from the queue nor twice from the queue.
NoDoubleDelivery ==
  \A c \in Clients :
    /\ history[c] \cap SentTo(c) = {}
    /\ \A i, j \in DOMAIN queue[c] : queue[c][i] = queue[c][j] => i = j

\* What one session writes reaches every client in its order, although the other
\* session may give the same numbers: history before queue, and the queue
\* ascending.  Rolled-back events are left out, as their numbers may be given
\* again.
SessionEventsAscend ==
  \A c \in Clients, w \in Writers :
    LET kept == {i \in DOMAIN queue[c] :
                   owner[queue[c][i]] = w /\ place[queue[c][i]] # "undone"} IN
    /\ \A e \in history[c], i \in kept :
         owner[e] = w => number[e] < number[queue[c][i]]
    /\ \A i, j \in kept : i < j => number[queue[c][i]] < number[queue[c][j]]

\* Duplicate numbers come from two sessions that overlap, never from one: what
\* one session has flushed and not rolled back, over all its transactions, has
\* numbers of its own.
SessionNumbersUnique ==
  \A e, f \in Events :
    /\ place[e] \in {"flushed", "committed"} /\ place[f] \in {"flushed", "committed"}
    /\ owner[e] = owner[f] /\ number[e] = number[f]
    => e = f

\* The numbers of the log can be followed: none is missing below a committed one,
\* and a session never gives one twice (save_run_event reads the largest number
\* and adds one).
NumbersSound == NoGaps /\ SessionNumbersUnique

\* What a stream is sent (history, then queue) has no event twice and keeps the
\* order of each session, although events are published before they are committed.
DeliveredInOrder == NoDoubleDelivery /\ SessionEventsAscend
=============================================================================
