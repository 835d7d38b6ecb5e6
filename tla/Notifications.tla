---------------------------- MODULE Notifications ----------------------------
(***************************************************************************)
(* Notifications of the communication service: creation under an           *)
(* idempotency key, by versioned and by legacy calls.                      *)
(*                                                                         *)
(* A creation looks its key up, checks the id, simulates the delivery and  *)
(* inserts the row; nothing is locked before the INSERT, so two creations  *)
(* can pass the lookups together and meet at the unique columns.           *)
(***************************************************************************)
EXTENDS FiniteSets

CONSTANTS
  Clients,
  Ids,           \* notification ids, after normalisation
  Keys,          \* idempotency keys, which are stripped but keep their case
  IdOfKey,       \* the id a legacy call derives from its key
  Contents,      \* recipient, channel, subject, message and related request
  Undeliverable  \* contents for which simulate_delivery fails

NoKey == "no key"
ASSUME NotesAssumption ==
  /\ IdOfKey \in [Keys -> Ids]
  /\ NoKey \notin Keys
Payloads == [id : Ids, key : Keys \cup {NoKey}, content : Contents]
NoteStatuses == {"PENDING", "DELIVERED", "FAILED"}
NoPayload == [id |-> "none", key |-> NoKey, content |-> "none"]

VARIABLES
  notes,      \* the notifications table
  client,     \* per client: where its creation is, and its payload
  promised,   \* payloads acknowledged since the last load
  loaded      \* the rows of the last load (both are read by properties only)

noteVars == <<notes, client, promised, loaded>>

NoCreation == [at |-> "idle", payload |-> NoPayload]

NotesInit ==
  /\ notes = {} /\ loaded = {}
  /\ client = [c \in Clients |-> NoCreation]
  /\ promised = {}

-----------------------------------------------------------------------------
Goto(c, place) == client' = [client EXCEPT ![c].at = place]
Finish(c) == client' = [client EXCEPT ![c] = NoCreation]

\* create_notification
Create(c, p) ==
  /\ client[c].at = "idle"
  /\ client' = [client EXCEPT ![c] = [at |-> "lookup", payload |-> p]]
  /\ UNCHANGED <<notes, promised, loaded>>

\* create_legacy_notification: the normalised key becomes the id.
Legacy(key, content) == [id |-> IdOfKey[key], key |-> key, content |-> content]

Has(p, row) == row.id = p.id /\ row.key = p.key /\ row.content = p.content
WithKey(p) == {row \in notes : p.key # NoKey /\ row.key = p.key}

\* Mutant: the replayed payload is not compared.
ReplayAnything(p) == WithKey(p) # {}

Replay(p) == \E row \in WithKey(p) : Has(p, row)

Acknowledge(p) == promised' = promised \cup {p}

\* The key is known: the stored notification is returned, or 409 for another payload.
LookupKey(c) ==
  LET p == client[c].payload IN
  /\ client[c].at = "lookup"
  /\ IF WithKey(p) = {}
     THEN Goto(c, "insert") /\ UNCHANGED promised
     ELSE /\ Finish(c)
          /\ IF Replay(p) THEN Acknowledge(p) ELSE UNCHANGED promised
  /\ UNCHANGED <<notes, loaded>>

\* Mutant: only the id is unique.
UniqueId(p) == \A row \in notes : row.id # p.id

\* The unique columns of the table.
Unique(p) == \A row \in notes : row.id # p.id /\ (p.key # NoKey => row.key # p.key)

\* Mutant: a failed delivery leaves the status the row was created with.
PendingRow(p) ==
  [id |-> p.id, key |-> p.key, content |-> p.content,
   status |-> IF p.content \in Undeliverable THEN "PENDING" ELSE "DELIVERED"]

\* simulate_delivery decides the status before the row is stored.
Row(p) ==
  [id |-> p.id, key |-> p.key, content |-> p.content,
   status |-> IF p.content \in Undeliverable THEN "FAILED" ELSE "DELIVERED"]

\* The id is checked, the delivery simulated and the row inserted; the check
\* and the unique columns refuse the same rows.
InsertNotification(c) ==
  LET p == client[c].payload IN
  /\ client[c].at = "insert"
  /\ IF Unique(p)
     THEN notes' = notes \cup {Row(p)} /\ Acknowledge(p)
     ELSE UNCHANGED <<notes, promised>>
  /\ Finish(c)
  /\ UNCHANGED loaded

\* The related request is unknown, the delivery mode unsupported, or the
\* database fails: the session rolls back.
Refuse(c) ==
  /\ client[c].at = "insert"
  /\ Finish(c)
  /\ UNCHANGED <<notes, promised, loaded>>

\* A row of any status that the load accepts, whatever a delivery would have said.
Loaded(p, status) ==
  [id |-> p.id, key |-> p.key, content |-> p.content, status |-> status]

\* reset_communication and load_simulation_communication replace the table by
\* the seeds; bound: at most one of them.
LoadNotes ==
  /\ \/ notes' = {}
     \/ \E p \in Payloads, status \in NoteStatuses : notes' = {Loaded(p, status)}
  /\ loaded' = notes'
  /\ promised' = {}
  /\ UNCHANGED client

NotesNext ==
  \/ \E c \in Clients :
       \/ \E p \in Payloads : Create(c, p)
       \/ \E key \in Keys, content \in Contents : Create(c, Legacy(key, content))
       \/ LookupKey(c)
       \/ InsertNotification(c)
       \/ Refuse(c)
  \/ LoadNotes

NotesSpec == NotesInit /\ [][NotesNext]_noteVars

-----------------------------------------------------------------------------
\* Notifications and creations hold values the service can hold.
NotesTypeOK ==
  /\ notes \subseteq [id : Ids, key : Keys \cup {NoKey}, content : Contents,
                      status : NoteStatuses]
  /\ loaded \subseteq [id : Ids, key : Keys \cup {NoKey}, content : Contents,
                       status : NoteStatuses]
  /\ client \in [Clients -> [at : {"idle", "lookup", "insert"},
                             payload : Payloads \cup {NoPayload}]]
  /\ promised \subseteq Payloads

\* No two notifications share an id or an idempotency key, however many
\* creations pass the two lookups together.
OneNotificationPerKey ==
  \A a, b \in notes : (a.id = b.id \/ (a.key = b.key /\ a.key # NoKey)) => a = b

\* Whoever was told that a notification was created, or existed already, finds
\* the very payload it sent.
PromisesKept == \A p \in promised : \E row \in notes : Has(p, row)

\* A notification whose delivery is still open was loaded so: no creation leaves
\* one, and no creation or replay closes it.
PendingIsLoaded == \A row \in notes : row.status = "PENDING" => row \in loaded

\* What the service stores and what it tells its clients agree, however creations
\* and reloads interleave: one row for a key, none of it promised in vain, and no delivery left open.
NotesSound == NotesTypeOK /\ OneNotificationPerKey /\ PromisesKept /\ PendingIsLoaded
=============================================================================
