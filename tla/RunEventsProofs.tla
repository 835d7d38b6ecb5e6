--------------------------- MODULE RunEventsProofs ---------------------------
(***************************************************************************)
(* Proofs about RunEvents for any number of events, writers and clients.   *)
(*                                                                         *)
(* NoGaps: a writer numbers an event one above a number it can see.  What  *)
(* it can see is committed or its own, and its own rows are committed      *)
(* together, so the predecessor of a committed number is committed.  The   *)
(* argument needs neither the uniqueness of numbers, which does not hold,  *)
(* nor that the number read is the largest.                                *)
(*                                                                         *)
(* NoDoubleDelivery: an event is published once, when it is flushed, and   *)
(* a client subscribes only after it has read the history.                 *)
(*                                                                         *)
(* SessionEventsAscend: the lock lets nobody write between the SELECT and  *)
(* the flush of a session, so its number exceeds all its earlier ones.     *)
(***************************************************************************)
EXTENDS RunEvents, SequenceTheorems, TLAPS

\* A number is 1 or follows another one in the set.
Follows(n, es) == n = 1 \/ \E f \in es : number[f] = n - 1

\* Every visible number has its predecessor among the visible ones.
Chained ==
  /\ \A e \in Committed : Follows(number[e], Committed)
  /\ \A w \in Writers : \A e \in FlushedBy(w) : Follows(number[e], VisibleTo(w))
  /\ \A w \in Writers : lock = w => Follows(largest[w] + 1, VisibleTo(w))

\* What a client has been sent exists, and a client that has not subscribed
\* has an empty queue.
SentSound ==
  /\ \A c \in Clients : \A e \in history[c] : place[e] # "unused"
  /\ \A c \in Clients : \A i \in DOMAIN queue[c] : place[queue[c][i]] # "unused"
  /\ \A c \in Clients : stream[c] # "open" => queue[c] = <<>>

\* Every reachable state is well typed.
THEOREM TypeCorrect == Spec => []TypeOK
<1>1. Init => TypeOK
  BY DEF Init, TypeOK
<1>2. TypeOK /\ [Next]_vars => TypeOK'
  <2> SUFFICES ASSUME TypeOK, [Next]_vars PROVE TypeOK'
    OBVIOUS
  <2>1. ASSUME NEW w \in Writers, SelectLargest(w) PROVE TypeOK'
    <3>1. PICK n \in {0} \cup {number[e] : e \in VisibleTo(w)} :
            largest' = [largest EXCEPT ![w] = n]
      BY <2>1 DEF SelectLargest
    <3>2. n \in Nat
      BY <3>1 DEF TypeOK, VisibleTo, Committed, FlushedBy
    <3> QED
      BY <2>1, <3>1, <3>2 DEF SelectLargest, TypeOK, log, streams
  <2>2. ASSUME NEW w \in Writers, NEW e \in Events, FlushAndPublish(w, e) PROVE TypeOK'
    <3>1. queue' \in [Clients -> Seq(Events)]
      BY <2>2 DEF FlushAndPublish, Published, TypeOK
    <3>2. number' \in [Events -> Nat]
      BY <2>2 DEF FlushAndPublish, NextNumber, TypeOK
    <3> QED
      BY <2>2, <3>1, <3>2 DEF FlushAndPublish, TypeOK
  <2>3. ASSUME NEW w \in Writers, Commit(w) \/ Rollback(w) PROVE TypeOK'
    BY <2>3 DEF Commit, Rollback, EndTransaction, TypeOK, streams
  <2>4. ASSUME NEW c \in Clients, ReadHistory(c) PROVE TypeOK'
    BY <2>4 DEF ReadHistory, TypeOK, log, Committed
  <2>5. ASSUME NEW c \in Clients, Subscribe(c) PROVE TypeOK'
    BY <2>5 DEF Subscribe, TypeOK, log
  <2>6. ASSUME NEW c \in Clients, Disconnect(c) PROVE TypeOK'
    BY <2>6 DEF Disconnect, TypeOK, log
  <2>7. CASE UNCHANGED vars
    BY <2>7 DEF vars, log, streams, TypeOK
  <2> QED
    BY <2>1, <2>2, <2>3, <2>4, <2>5, <2>6, <2>7 DEF Next
<1> QED
  BY <1>1, <1>2, PTL DEF Spec

\* One step keeps the chain.
LEMMA ChainStep ==
  ASSUME TypeOK, Chained, [Next]_vars
  PROVE  Chained'
<1>1. ASSUME NEW w \in Writers, SelectLargest(w) PROVE Chained'
  <2>1. PICK n \in {0} \cup {number[e] : e \in VisibleTo(w)} :
          largest' = [largest EXCEPT ![w] = n] /\ lock' = w
    BY <1>1 DEF SelectLargest
  <2>2. Follows(n + 1, VisibleTo(w))
    <3>1. CASE n = 0
      BY <3>1 DEF Follows
    <3>2. CASE n # 0
      <4>1. PICK e \in VisibleTo(w) : number[e] = n
        BY <2>1, <3>2
      <4>2. n \in Nat
        BY <4>1 DEF VisibleTo, Committed, FlushedBy, TypeOK
      <4> QED
        BY <4>1, <4>2 DEF Follows
    <3> QED
      BY <3>1, <3>2
  <2>3. UNCHANGED log
    BY <1>1 DEF SelectLargest
  <2>4. largest'[w] = n
    BY <2>1 DEF TypeOK
  <2> QED
    BY <2>1, <2>2, <2>3, <2>4 DEF Chained, log, Follows, VisibleTo, Committed, FlushedBy
<1>2. ASSUME NEW w \in Writers, NEW e \in Events, FlushAndPublish(w, e) PROVE Chained'
  <2>1. /\ Committed' = Committed
        /\ FlushedBy(w)' = FlushedBy(w) \cup {e}
        /\ \A v \in Writers \ {w} : FlushedBy(v)' = FlushedBy(v)
    BY <1>2 DEF FlushAndPublish, Committed, FlushedBy, TypeOK
  <2>2. e \notin Committed /\ \A v \in Writers : e \notin FlushedBy(v)
    BY <1>2 DEF FlushAndPublish, Committed, FlushedBy
  <2>3. number'[e] = largest[w] + 1 /\ \A f \in Events \ {e} : number'[f] = number[f]
    BY <1>2 DEF FlushAndPublish, NextNumber, TypeOK
  <2>4. Committed \subseteq Events /\ \A v \in Writers : FlushedBy(v) \subseteq Events
    BY DEF Committed, FlushedBy
  <2>5. \A f \in Committed : Follows(number[f], Committed)'
    BY <2>1, <2>2, <2>3, <2>4 DEF Chained, Follows
  <2>6. ASSUME NEW v \in Writers, NEW f \in FlushedBy(v)'
        PROVE  Follows(number[f], VisibleTo(v))'
    <3>1. CASE f = e
      <4>1. v = w
        BY <2>1, <2>2, <2>6, <3>1
      <4>2. Follows(largest[w] + 1, VisibleTo(w))
        BY <1>2 DEF FlushAndPublish, Chained
      <4>a. largest[w] \in Nat /\ number'[f] = largest[w] + 1
        BY <2>3, <3>1 DEF TypeOK
      <4>3. CASE largest[w] + 1 = 1
        BY <4>a, <4>3 DEF Follows
      <4>4. CASE largest[w] + 1 # 1
        <5>1. PICK g \in VisibleTo(w) : number[g] = largest[w] + 1 - 1
          BY <4>2, <4>4, <4>a DEF Follows
        <5>2. g \in Events \ {e} /\ g \in VisibleTo(w)'
          BY <5>1, <2>1, <2>2, <2>4 DEF VisibleTo
        <5> QED
          BY <5>1, <5>2, <2>3, <4>1, <4>a DEF Follows
      <4> QED
        BY <4>3, <4>4
    <3>2. CASE f # e
      <4>1. f \in FlushedBy(v) /\ f \in Events
        BY <2>1, <2>4, <2>6, <3>2
      <4>2. Follows(number[f], VisibleTo(v))
        BY <4>1 DEF Chained
      <4>3. number'[f] = number[f]
        BY <2>3, <3>2, <4>1
      <4>4. CASE number[f] = 1
        BY <4>3, <4>4 DEF Follows
      <4>5. CASE number[f] # 1
        <5>1. PICK g \in VisibleTo(v) : number[g] = number[f] - 1
          BY <4>2, <4>5 DEF Follows
        <5>2. g \in Events \ {e} /\ g \in VisibleTo(v)'
          BY <5>1, <2>1, <2>2, <2>4 DEF VisibleTo
        <5> QED
          BY <5>1, <5>2, <2>3, <4>3 DEF Follows
      <4> QED
        BY <4>4, <4>5
    <3> QED
      BY <3>1, <3>2
  <2>7. \A v \in Writers : lock' # v
    BY <1>2, WritersAssumption DEF FlushAndPublish
  <2> QED
    BY <2>1, <2>5, <2>6, <2>7 DEF Chained
<1>3. ASSUME NEW w \in Writers, Commit(w) PROVE Chained'
  <2>1. /\ Committed' = Committed \cup FlushedBy(w)
        /\ FlushedBy(w)' = {}
        /\ \A v \in Writers \ {w} : FlushedBy(v)' = FlushedBy(v)
        /\ UNCHANGED <<number, largest, lock>>
    BY <1>3 DEF Commit, EndTransaction, Committed, FlushedBy, TypeOK
  <2>2. lock # w
    BY <1>3 DEF Commit
  <2> QED
    BY <2>1, <2>2 DEF Chained, Follows, VisibleTo
<1>4. ASSUME NEW w \in Writers, Rollback(w) PROVE Chained'
  <2>1. /\ Committed' = Committed
        /\ FlushedBy(w)' = {}
        /\ \A v \in Writers \ {w} : FlushedBy(v)' = FlushedBy(v)
        /\ UNCHANGED <<number, largest>>
        /\ lock' \in {lock, NoWriter} /\ lock' # w
    BY <1>4, WritersAssumption DEF Rollback, EndTransaction, Committed, FlushedBy, TypeOK
  <2>2. \A v \in Writers : lock' = v => lock = v
    BY <2>1, WritersAssumption
  <2> QED
    BY <2>1, <2>2 DEF Chained, Follows, VisibleTo
<1>5. ASSUME NEW c \in Clients, ReadHistory(c) \/ Subscribe(c) \/ Disconnect(c)
      PROVE  UNCHANGED <<log, lock, largest>>
  BY <1>5 DEF ReadHistory, Subscribe, Disconnect
<1>6. CASE UNCHANGED <<log, lock, largest>>
  BY <1>6 DEF log, Chained, Follows, VisibleTo, Committed, FlushedBy
<1> QED
  BY <1>1, <1>2, <1>3, <1>4, <1>5, <1>6 DEF Next, vars

\* The committed log has no gap, for any interleaving of transactions.
THEOREM LogHasNoGaps == Spec => []NoGaps
<1>1. Init => Chained
  BY WritersAssumption DEF Init, Chained, Follows, Committed, FlushedBy, VisibleTo
<1>2. TypeOK /\ Chained /\ [Next]_vars => Chained'
  BY ChainStep
<1>3. Chained => NoGaps
  BY DEF Chained, Follows, NoGaps
<1> QED
  BY <1>1, <1>2, <1>3, TypeCorrect, PTL DEF Spec

\* One step of the streams: what is published was unused before.
LEMMA DeliveryStep ==
  ASSUME TypeOK, SentSound, NoDoubleDelivery, [Next]_vars
  PROVE  SentSound' /\ NoDoubleDelivery'
<1> USE DEF SentTo
<1>1. ASSUME NEW w \in Writers, NEW e \in Events, FlushAndPublish(w, e)
      PROVE  SentSound' /\ NoDoubleDelivery'
  <2>1. place[e] = "unused" /\ UNCHANGED <<history, stream>>
    BY <1>1 DEF FlushAndPublish
  <2>2. \A f \in Events : place'[f] # "unused" <=> place[f] # "unused" \/ f = e
    BY <1>1 DEF FlushAndPublish, TypeOK
  <2>3. ASSUME NEW c \in Clients
        PROVE  \/ queue'[c] = queue[c]
               \/ stream[c] = "open" /\ queue'[c] = Append(queue[c], e)
    BY <1>1 DEF FlushAndPublish, Published
  <2>4. ASSUME NEW c \in Clients
        PROVE  /\ \A i \in DOMAIN queue'[c] : place'[queue'[c][i]] # "unused"
               /\ history'[c] \cap {queue'[c][i] : i \in DOMAIN queue'[c]} = {}
               /\ \A i, j \in DOMAIN queue'[c] : queue'[c][i] = queue'[c][j] => i = j
               /\ stream'[c] # "open" => queue'[c] = <<>>
    <3> DEFINE q == queue[c]
    <3>1. q \in Seq(Events) /\ history[c] \subseteq Events
      BY DEF TypeOK
    <3>2. \A i \in DOMAIN q : q[i] \in Events /\ place[q[i]] # "unused" /\ q[i] # e
      BY <3>1, <2>1 DEF SentSound
    <3>3. e \notin history[c]
      BY <2>1 DEF SentSound
    <3>4. CASE queue'[c] = q
      BY <3>4, <3>1, <3>2, <2>1, <2>2 DEF SentSound, NoDoubleDelivery
    <3>5. CASE stream[c] = "open" /\ queue'[c] = Append(q, e)
      <4> DEFINE a == Append(q, e)
      <4>1. /\ DOMAIN a = 1..(Len(q) + 1) /\ DOMAIN q = 1..Len(q) /\ Len(q) \in Nat
            /\ \A i \in 1..Len(q) : a[i] = q[i]
            /\ a[Len(q) + 1] = e
        BY <3>1, AppendProperties
      <4> HIDE DEF a, q
      <4>2. \A i \in DOMAIN a : (i \in DOMAIN q /\ a[i] = q[i]) \/ (i = Len(q) + 1 /\ a[i] = e)
        BY <4>1
      <4> USE DEF q
      <4>3. \A i \in DOMAIN a : place'[a[i]] # "unused"
        BY <4>2, <3>2, <2>2
      <4>4. history[c] \cap {a[i] : i \in DOMAIN a} = {}
        BY <4>2, <3>3 DEF NoDoubleDelivery
      <4>5. \A i, j \in DOMAIN a : a[i] = a[j] => i = j
        BY <4>2, <3>2 DEF NoDoubleDelivery
      <4> QED
        <5>1. queue'[c] = a /\ history' = history /\ stream' = stream
          BY <3>5, <2>1 DEF a
        <5> QED
          BY <5>1, <4>3, <4>4, <4>5, <3>5
    <3> QED
      BY <3>4, <3>5, <2>3
  <2>5. \A c \in Clients : \A f \in history'[c] : place'[f] # "unused"
    BY <2>1, <2>2 DEF SentSound, TypeOK
  <2> QED
    BY <2>4, <2>5 DEF SentSound, NoDoubleDelivery
<1>2. ASSUME NEW w \in Writers, Commit(w) \/ Rollback(w)
      PROVE  SentSound' /\ NoDoubleDelivery'
  <2>1. /\ \A f \in Events : place[f] # "unused" => place'[f] # "unused"
        /\ UNCHANGED streams
    BY <1>2 DEF Commit, Rollback, EndTransaction, FlushedBy, TypeOK
  <2>2. \A c \in Clients : history[c] \subseteq Events /\ queue[c] \in Seq(Events)
    BY DEF TypeOK
  <2>3. \A c \in Clients : \A i \in DOMAIN queue[c] : queue[c][i] \in Events
    BY <2>2
  <2> QED
    BY <2>1, <2>2, <2>3 DEF streams, SentSound, NoDoubleDelivery
<1>3. ASSUME NEW c \in Clients, ReadHistory(c) PROVE SentSound' /\ NoDoubleDelivery'
  <2>1. /\ history' = [history EXCEPT ![c] = Committed]
        /\ stream' = [stream EXCEPT ![c] = "reading"]
        /\ UNCHANGED <<queue, place>>
        /\ stream[c] = "closed"
    BY <1>3 DEF ReadHistory, log
  <2>2. queue[c] = <<>> /\ \A e \in Committed : place[e] # "unused"
    BY <2>1 DEF SentSound, Committed
  <2> QED
    BY <2>1, <2>2 DEF TypeOK, SentSound, NoDoubleDelivery
<1>4. ASSUME NEW c \in Clients, Subscribe(c) PROVE SentSound' /\ NoDoubleDelivery'
  BY <1>4 DEF Subscribe, log, TypeOK, SentSound, NoDoubleDelivery
<1>5. ASSUME NEW c \in Clients, Disconnect(c) PROVE SentSound' /\ NoDoubleDelivery'
  BY <1>5 DEF Disconnect, log, TypeOK, SentSound, NoDoubleDelivery
<1>6. ASSUME NEW w \in Writers, SelectLargest(w) PROVE UNCHANGED <<log, streams>>
  BY <1>6 DEF SelectLargest
<1>7. CASE UNCHANGED <<log, streams>>
  BY <1>7 DEF log, streams, SentSound, NoDoubleDelivery
<1> QED
  BY <1>1, <1>2, <1>3, <1>4, <1>5, <1>6, <1>7 DEF Next, vars

\* No client is sent an event twice.
THEOREM DeliveredOnce == Spec => []NoDoubleDelivery
<1>1. Init => SentSound /\ NoDoubleDelivery
  BY DEF Init, SentSound, NoDoubleDelivery, SentTo
<1>2. TypeOK /\ SentSound /\ NoDoubleDelivery /\ [Next]_vars => SentSound' /\ NoDoubleDelivery'
  BY DeliveryStep
<1> QED
  BY <1>1, <1>2, TypeCorrect, PTL DEF Spec

\* The holder of the lock has read a number no smaller than those of its own
\* rows, and the history of a client is committed.
OwnBelow ==
  /\ \A w \in Writers : \A e \in Events :
       lock = w /\ owner[e] = w /\ place[e] \in {"flushed", "committed"}
         => number[e] <= largest[w]
  /\ \A c \in Clients : \A e \in history[c] : place[e] = "committed"

\* One step keeps the bound.
LEMMA OwnBelowStep ==
  ASSUME TypeOK, OwnBelow, [Next]_vars
  PROVE  OwnBelow'
<1>1. ASSUME NEW w \in Writers, SelectLargest(w) PROVE OwnBelow'
  <2>1. PICK n \in {0} \cup {number[e] : e \in VisibleTo(w)} :
          IsLargest(n, VisibleTo(w)) /\ largest' = [largest EXCEPT ![w] = n]
    BY <1>1 DEF SelectLargest
  <2>2. lock' = w /\ UNCHANGED <<place, number, owner, history>> /\ largest'[w] = n
    BY <1>1, <2>1 DEF SelectLargest, log, streams, TypeOK
  <2>3. ASSUME NEW e \in Events, owner[e] = w, place[e] \in {"flushed", "committed"}
        PROVE  number[e] <= n
    <3>1. e \in VisibleTo(w)
      BY <2>3 DEF VisibleTo, Committed, FlushedBy
    <3> QED
      BY <2>1, <3>1 DEF IsLargest
  <2> QED
    BY <2>2, <2>3 DEF OwnBelow
<1>2. ASSUME NEW w \in Writers, NEW e \in Events, FlushAndPublish(w, e) PROVE OwnBelow'
  <2>1. lock' = NoWriter /\ history' = history
    BY <1>2 DEF FlushAndPublish
  <2>2. \A f \in Events : place[f] = "committed" => place'[f] = "committed"
    BY <1>2 DEF FlushAndPublish, TypeOK
  <2> QED
    BY <2>1, <2>2, WritersAssumption DEF OwnBelow, TypeOK
<1>3. ASSUME NEW w \in Writers, Commit(w) \/ Rollback(w) PROVE OwnBelow'
  <2>1. /\ UNCHANGED <<number, owner, largest, history>>
        /\ lock' \in {lock, NoWriter}
    BY <1>3 DEF Commit, Rollback, EndTransaction, streams
  <2>2. \A f \in Events : place'[f] \in {"flushed", "committed"}
                            => place[f] \in {"flushed", "committed"}
    BY <1>3 DEF Commit, Rollback, EndTransaction, FlushedBy
  <2>3. \A f \in Events : place[f] = "committed" => place'[f] = "committed"
    BY <1>3 DEF Commit, Rollback, EndTransaction, FlushedBy
  <2> QED
    BY <2>1, <2>2, <2>3, WritersAssumption DEF OwnBelow, TypeOK
<1>4. ASSUME NEW c \in Clients, ReadHistory(c) PROVE OwnBelow'
  BY <1>4 DEF ReadHistory, OwnBelow, log, Committed, TypeOK
<1>5. ASSUME NEW c \in Clients, Subscribe(c) PROVE OwnBelow'
  BY <1>5 DEF Subscribe, OwnBelow, log
<1>6. ASSUME NEW c \in Clients, Disconnect(c) PROVE OwnBelow'
  <2>1. /\ UNCHANGED <<place, number, owner, lock, largest>>
        /\ history' = [history EXCEPT ![c] = {}]
    BY <1>6 DEF Disconnect, log
  <2>2. \A d \in Clients : history'[d] \subseteq history[d]
    BY <2>1 DEF TypeOK
  <2> QED
    BY <2>1, <2>2 DEF OwnBelow
<1>7. CASE UNCHANGED vars
  BY <1>7 DEF vars, log, streams, OwnBelow
<1> QED
  BY <1>1, <1>2, <1>3, <1>4, <1>5, <1>6, <1>7 DEF Next

\* SessionEventsAscend of one client and one session.
Ascends(c, w) ==
  /\ \A e \in history[c], i \in DOMAIN queue[c] :
       owner[e] = w /\ owner[queue[c][i]] = w /\ place[queue[c][i]] # "undone"
         => number[e] < number[queue[c][i]]
  /\ \A i, j \in DOMAIN queue[c] :
       /\ i < j
       /\ owner[queue[c][i]] = w /\ place[queue[c][i]] # "undone"
       /\ owner[queue[c][j]] = w /\ place[queue[c][j]] # "undone"
       => number[queue[c][i]] < number[queue[c][j]]

\* The property is that of every client and session.
LEMMA AscendsEverywhere == SessionEventsAscend <=> \A c \in Clients, w \in Writers : Ascends(c, w)
BY DEF SessionEventsAscend, Ascends

\* One step keeps the events of a session ascending.
LEMMA AscendStep ==
  ASSUME TypeOK, SentSound, OwnBelow, [Next]_vars,
         NEW d \in Clients, NEW v \in Writers, Ascends(d, v)
  PROVE  Ascends(d, v)'
<1> DEFINE q == queue[d]
<1>1. /\ q \in Seq(Events) /\ history[d] \subseteq Events
      /\ \A i \in DOMAIN q : q[i] \in Events /\ place[q[i]] # "unused"
      /\ \A e \in history[d] : place[e] = "committed"
  BY DEF TypeOK, SentSound, OwnBelow
<1>2. ASSUME NEW w \in Writers, NEW e \in Events, FlushAndPublish(w, e)
      PROVE  Ascends(d, v)'
  <2>1. place[e] = "unused" /\ history' = history /\ lock = w
    BY <1>2 DEF FlushAndPublish
  <2>2. \A f \in Events \ {e} : place'[f] = place[f] /\ owner'[f] = owner[f]
                                  /\ number'[f] = number[f]
    BY <1>2 DEF FlushAndPublish, TypeOK
  <2>3. /\ owner'[e] = w /\ number'[e] = largest[w] + 1
        /\ largest[w] \in Nat /\ number \in [Events -> Nat]
    BY <1>2 DEF FlushAndPublish, NextNumber, TypeOK
  <2>4. \A f \in Events : owner[f] = w /\ place[f] # "unused" /\ place[f] # "undone"
                            => number[f] < number'[e]
    <3> SUFFICES ASSUME NEW f \in Events, owner[f] = w,
                        place[f] # "unused", place[f] # "undone"
                 PROVE  number[f] < number'[e]
      OBVIOUS
    <3>1. place[f] \in {"flushed", "committed"} /\ number[f] \in Nat
      BY DEF TypeOK
    <3>2. number[f] <= largest[w]
      BY <2>1, <3>1 DEF OwnBelow
    <3> QED
      BY <2>3, <3>1, <3>2
  <2>5. e \notin history[d] /\ \A i \in DOMAIN q : q[i] # e
    BY <1>1, <2>1
  <2>6. CASE queue'[d] = q
    BY <1>1, <2>1, <2>2, <2>5, <2>6 DEF Ascends
  <2>7. CASE queue'[d] = Append(q, e)
    <3> DEFINE a == Append(q, e)
    <3>1. /\ DOMAIN a = 1..(Len(q) + 1) /\ DOMAIN q = 1..Len(q) /\ Len(q) \in Nat
          /\ \A i \in 1..Len(q) : a[i] = q[i]
          /\ a[Len(q) + 1] = e
      BY <1>1, AppendProperties
    <3>2. queue'[d] = a
      BY <2>7
    <3> HIDE DEF a
    <3>3. \A i \in DOMAIN a : (i \in DOMAIN q /\ a[i] = q[i]) \/ (i = Len(q) + 1 /\ a[i] = e)
      BY <3>1
    <3>4. ASSUME NEW f \in history[d], NEW i \in DOMAIN a,
                 owner'[f] = v, owner'[a[i]] = v, place'[a[i]] # "undone"
          PROVE  number'[f] < number'[a[i]]
      <4>1. f \in Events \ {e} /\ place[f] = "committed"
        BY <1>1, <2>5
      <4>2. CASE i \in DOMAIN q /\ a[i] = q[i]
        BY <1>1, <2>2, <2>5, <3>4, <4>1, <4>2 DEF Ascends
      <4>3. CASE a[i] = e
        BY <2>2, <2>3, <2>4, <3>4, <4>1, <4>3
      <4> QED
        BY <3>3, <4>2, <4>3
    <3>5. ASSUME NEW i \in DOMAIN a, NEW j \in DOMAIN a, i < j,
                 owner'[a[i]] = v, owner'[a[j]] = v,
                 place'[a[i]] # "undone", place'[a[j]] # "undone"
          PROVE  number'[a[i]] < number'[a[j]]
      <4>1. i \in DOMAIN q /\ a[i] = q[i]
        BY <3>1, <3>5
      <4>2. a[i] \in Events \ {e} /\ place[a[i]] # "unused"
        BY <1>1, <2>5, <4>1
      <4>3. CASE j \in DOMAIN q /\ a[j] = q[j]
        BY <1>1, <2>2, <2>5, <3>5, <4>1, <4>3 DEF Ascends
      <4>4. CASE a[j] = e
        BY <2>2, <2>3, <2>4, <3>5, <4>2, <4>4
      <4> QED
        BY <3>3, <4>3, <4>4
    <3> QED
      BY <2>1, <3>2, <3>4, <3>5 DEF Ascends
  <2> QED
    BY <1>2, <2>6, <2>7 DEF FlushAndPublish, Published
<1>3. ASSUME NEW w \in Writers, Commit(w) \/ Rollback(w) PROVE Ascends(d, v)'
  <2>1. UNCHANGED <<number, owner, history, queue>>
    BY <1>3 DEF Commit, Rollback, EndTransaction, streams
  <2>2. \A f \in Events : place'[f] # "undone" => place[f] # "undone"
    BY <1>3 DEF Commit, Rollback, EndTransaction, FlushedBy
  <2> QED
    BY <1>1, <2>1, <2>2 DEF Ascends
<1>4. ASSUME NEW c \in Clients, ReadHistory(c) PROVE Ascends(d, v)'
  <2>1. /\ UNCHANGED <<queue, place, number, owner>>
        /\ d # c => history'[d] = history[d]
        /\ d = c => queue[d] = <<>>
    BY <1>4 DEF ReadHistory, log, TypeOK, SentSound
  <2>2. CASE d = c
    BY <2>1, <2>2 DEF Ascends
  <2>3. CASE d # c
    BY <2>1, <2>3 DEF Ascends
  <2> QED
    BY <2>2, <2>3
<1>5. ASSUME NEW c \in Clients, Subscribe(c) PROVE Ascends(d, v)'
  BY <1>5 DEF Subscribe, log, Ascends
<1>6. ASSUME NEW c \in Clients, Disconnect(c) PROVE Ascends(d, v)'
  <2>1. /\ UNCHANGED <<place, number, owner>>
        /\ d # c => history'[d] = history[d] /\ queue'[d] = queue[d]
        /\ d = c => queue'[d] = <<>>
    BY <1>6 DEF Disconnect, log, TypeOK
  <2> QED
    BY <2>1 DEF Ascends
<1>7. ASSUME NEW w \in Writers, SelectLargest(w) PROVE UNCHANGED <<log, streams>>
  BY <1>7 DEF SelectLargest
<1>8. CASE UNCHANGED <<log, streams>>
  BY <1>8 DEF log, streams, Ascends
<1> QED
  BY <1>2, <1>3, <1>4, <1>5, <1>6, <1>7, <1>8 DEF Next, vars

\* Every client sees the events of one session in the order of their numbers.
THEOREM SessionOrder == Spec => []SessionEventsAscend
<1>1. Init => OwnBelow /\ SentSound /\ NoDoubleDelivery
  BY WritersAssumption DEF Init, OwnBelow, SentSound, NoDoubleDelivery, SentTo
<1>2. Init => SessionEventsAscend
  <2>1. Init => \A c \in Clients, w \in Writers : Ascends(c, w)
    BY DEF Init, Ascends
  <2> QED
    BY <2>1, AscendsEverywhere
<1>3. TypeOK /\ OwnBelow /\ [Next]_vars => OwnBelow'
  BY OwnBelowStep
<1>4. TypeOK /\ SentSound /\ NoDoubleDelivery /\ [Next]_vars => SentSound' /\ NoDoubleDelivery'
  BY DeliveryStep
<1>5. TypeOK /\ SentSound /\ OwnBelow /\ SessionEventsAscend /\ [Next]_vars
        => SessionEventsAscend'
  <2> SUFFICES ASSUME TypeOK, SentSound, OwnBelow, SessionEventsAscend, [Next]_vars
               PROVE  SessionEventsAscend'
    OBVIOUS
  <2>1. \A c \in Clients, w \in Writers : Ascends(c, w)
    BY AscendsEverywhere
  <2>2. \A c \in Clients, w \in Writers : Ascends(c, w)'
    BY <2>1, AscendStep
  <2> QED
    BY <2>2 DEF SessionEventsAscend, Ascends
<1> QED
  BY <1>1, <1>2, <1>3, <1>4, <1>5, TypeCorrect, PTL DEF Spec

\* One step gives no session a number twice.
LEMMA NumbersStep ==
  ASSUME TypeOK, OwnBelow, SessionNumbersUnique, [Next]_vars
  PROVE  SessionNumbersUnique'
<1>1. ASSUME NEW w \in Writers, NEW e \in Events, FlushAndPublish(w, e)
      PROVE  SessionNumbersUnique'
  <2>1. \A f \in Events \ {e} : place'[f] = place[f] /\ owner'[f] = owner[f]
                                  /\ number'[f] = number[f]
    BY <1>1 DEF FlushAndPublish, TypeOK
  <2>2. lock = w /\ owner'[e] = w /\ number'[e] = largest[w] + 1
    BY <1>1 DEF FlushAndPublish, NextNumber, TypeOK
  <2>3. ASSUME NEW f \in Events \ {e}, place'[f] \in {"flushed", "committed"}, owner'[f] = w
        PROVE  number'[f] # number'[e]
    <3>1. number[f] \in Nat /\ largest[w] \in Nat /\ number[f] <= largest[w]
      BY <2>1, <2>2, <2>3 DEF OwnBelow, TypeOK
    <3> QED
      BY <2>1, <2>2, <3>1
  <2>4. ASSUME NEW f \in Events \ {e}, NEW g \in Events \ {e},
               place'[f] \in {"flushed", "committed"}, place'[g] \in {"flushed", "committed"},
               owner'[f] = owner'[g], number'[f] = number'[g]
        PROVE  f = g
    BY <2>1, <2>4 DEF SessionNumbersUnique
  <2> QED
    BY <2>2, <2>3, <2>4 DEF SessionNumbersUnique
<1>2. ASSUME NEW w \in Writers, Commit(w) \/ Rollback(w) PROVE SessionNumbersUnique'
  <2>1. UNCHANGED <<number, owner>>
    BY <1>2 DEF Commit, Rollback, EndTransaction
  <2>2. \A f \in Events : place'[f] \in {"flushed", "committed"}
                            => place[f] \in {"flushed", "committed"}
    BY <1>2 DEF Commit, Rollback, EndTransaction, FlushedBy
  <2> QED
    BY <2>1, <2>2 DEF SessionNumbersUnique
<1>3. ASSUME UNCHANGED log PROVE SessionNumbersUnique'
  BY <1>3 DEF log, SessionNumbersUnique
<1>4. ASSUME NEW w \in Writers, SelectLargest(w) PROVE UNCHANGED log
  BY <1>4 DEF SelectLargest
<1>5. ASSUME NEW c \in Clients, ReadHistory(c) \/ Subscribe(c) \/ Disconnect(c)
      PROVE  UNCHANGED log
  BY <1>5 DEF ReadHistory, Subscribe, Disconnect
<1> QED
  BY <1>1, <1>2, <1>3, <1>4, <1>5 DEF Next, vars

\* What a session writes has numbers of its own, over all its transactions.
THEOREM SessionNumbers == Spec => []SessionNumbersUnique
<1>1. Init => OwnBelow /\ SessionNumbersUnique
  BY WritersAssumption DEF Init, OwnBelow, SessionNumbersUnique
<1>2. TypeOK /\ OwnBelow /\ [Next]_vars => OwnBelow'
  BY OwnBelowStep
<1>3. TypeOK /\ OwnBelow /\ SessionNumbersUnique /\ [Next]_vars => SessionNumbersUnique'
  BY NumbersStep
<1> QED
  BY <1>1, <1>2, <1>3, TypeCorrect, PTL DEF Spec
\* The numbers of the log can be followed (save_run_event): none is missing, and
\* no session gives one twice.
THEOREM NumbersHold == Spec => []NumbersSound
<1>1. NoGaps /\ SessionNumbersUnique => NumbersSound
  BY DEF NumbersSound
<1> QED
  BY <1>1, LogHasNoGaps, SessionNumbers, PTL

\* What the SSE endpoint sends to any client is sent once and, for each session,
\* in order.
THEOREM DeliveryHolds == Spec => []DeliveredInOrder
<1>1. NoDoubleDelivery /\ SessionEventsAscend => DeliveredInOrder
  BY DEF DeliveredInOrder
<1> QED
  BY <1>1, DeliveredOnce, SessionOrder, PTL
=============================================================================
