----------------------------- MODULE FailureModes -----------------------------
(***************************************************************************)
(* The failure mode of the communication service, which every versioned    *)
(* endpoint applies before its handler, and operators who configure it.    *)
(*                                                                         *)
(* The mode is one row.  A call reads it, sleeps for the configured delay  *)
(* and only then writes that it has been used; no transaction spans the    *)
(* two.  An UPDATE carries the columns that differ from the row its        *)
(* session has read, and no others.                                        *)
(***************************************************************************)
EXTENDS Naturals, FiniteSets

CONSTANTS
  Callers, Admins,
  MaxConfigured  \* bound: how often the mode is configured

ASSUME ModesAssumption == IsFiniteSet(Callers) /\ MaxConfigured \in Nat

Endpoints == {"notification:create", "assignment:get"}
Columns == {"enabled", "type", "once", "left", "affects", "expires"}

VARIABLES
  mode,       \* the failure_modes row
  call,       \* per caller: where it is, its endpoint and the mode it has read
  admin,      \* per operator: the mode it has read and the one it wants
  configured, \* times the mode was configured (bounds the model)
  hits        \* calls failed by a one-time mode since the last configuration
              \* (read by properties only)

modeVars == <<mode, call, admin, configured, hits>>

\* The row get_failure_mode inserts.  `left` is remaining_failures, which may
\* be NULL; `expires` tells whether expires_at is NULL, to come or past.
DefaultMode ==
  [enabled |-> FALSE, type |-> "HTTP_ERROR", once |-> FALSE, left |-> "null",
   affects |-> Endpoints, expires |-> "never"]

\* What configure_failure_mode assigns; all errors are one type.  A new expiry
\* time differs from any stored one.
Configurations ==
  {[enabled |-> on, type |-> type, once |-> once,
    left |-> IF on /\ once THEN "one" ELSE "null", affects |-> hit,
    expires |-> IF on THEN until ELSE "never"] :
     on \in BOOLEAN, type \in {"HTTP_ERROR", "DELAY"}, once \in BOOLEAN,
     hit \in {Endpoints, {"notification:create"}}, until \in {"never", "new"}}

\* Mutant: the duration is stored in the place of the time.
StoredDuration(m) == m

\* The configured expiry time, once stored.
Stored(m) == [m EXCEPT !.expires = IF @ = "new" THEN "later" ELSE @]

Idle == [at |-> "idle", endpoint |-> "none", read |-> DefaultMode]
NotConfiguring == [at |-> "idle", read |-> DefaultMode, wants |-> DefaultMode]

ModesInit ==
  /\ mode = DefaultMode
  /\ call = [c \in Callers |-> Idle]
  /\ admin = [a \in Admins |-> NotConfiguring]
  /\ configured = 0 /\ hits = 0

-----------------------------------------------------------------------------
\* apply_failure_mode

At(c, place) == call[c].at = place

\* The session's UPDATE: only columns that changed since it read the row.
Merge(read, written, row) ==
  [col \in Columns |-> IF written[col] # read[col] THEN written[col] ELSE row[col]]

Enter(c, endpoint) ==
  /\ At(c, "idle")
  /\ call' = [call EXCEPT ![c] = [at |-> "gate", endpoint |-> endpoint, read |-> DefaultMode]]
  /\ UNCHANGED <<mode, admin, configured, hits>>

\* The handler runs, or the error is returned: the gate is done.
Leave(c) == call' = [call EXCEPT ![c] = Idle]

Applies(c) == mode.enabled /\ mode.expires # "passed" /\ call[c].endpoint \in mode.affects
Late == mode.enabled /\ mode.expires = "passed"
UsedUp == mode.left = "zero"

\* No mode is on, or it is for another endpoint.
PassGate(c) ==
  /\ At(c, "gate")
  /\ ~Late /\ ~Applies(c)
  /\ Leave(c)
  /\ UNCHANGED <<mode, admin, configured, hits>>

\* The sleep begins, or the mode was found late or used up.
ReadMode(c) ==
  /\ At(c, "gate")
  /\ Late \/ Applies(c)
  /\ call' = [call EXCEPT ![c].read = mode,
                          ![c].at = IF Late \/ UsedUp THEN "disable" ELSE "sleep"]
  /\ UNCHANGED <<mode, admin, configured, hits>>

DisableMode(c) ==
  /\ At(c, "disable")
  /\ mode' = [mode EXCEPT !.enabled = FALSE]
  /\ Leave(c)
  /\ UNCHANGED <<admin, configured, hits>>

OneTime(m) == m.once \/ m.left # "null"
OneLess(left) == IF left = "null" THEN "null" ELSE "zero"

\* Mutant: the use is not written.
UseForgotten(m) == m

\* The row after the use of the mode m that was read before the sleep.
AfterUse(m) ==
  IF OneTime(m)
  THEN [m EXCEPT !.left = OneLess(@), !.enabled = FALSE]
  ELSE m

\* After the sleep: the use is written, then the call fails or was only delayed.
\* Counting stops one past the number of callers.
UseMode(c) ==
  LET m == call[c].read IN
  /\ At(c, "sleep")
  /\ mode' = Merge(m, AfterUse(m), mode)
  /\ hits' = IF m.type # "DELAY" /\ OneTime(m) /\ hits <= Cardinality(Callers)
             THEN hits + 1 ELSE hits
  /\ Leave(c)
  /\ UNCHANGED <<admin, configured>>

-----------------------------------------------------------------------------
\* configure_failure_mode reads the row and then writes every column of it.
ReadToConfigure(a, wanted) ==
  /\ admin[a].at = "idle" /\ configured < MaxConfigured
  /\ configured' = configured + 1
  /\ admin' = [admin EXCEPT ![a] = [at |-> "write", read |-> mode, wants |-> wanted]]
  /\ UNCHANGED <<mode, call, hits>>

Configure(a) ==
  /\ admin[a].at = "write"
  /\ mode' = Stored(Merge(admin[a].read, admin[a].wants, mode))
  /\ admin' = [admin EXCEPT ![a] = NotConfiguring]
  /\ hits' = 0
  /\ UNCHANGED <<call, configured>>

\* The expiry time of the mode passes.
ModeElapses ==
  /\ mode.expires = "later"
  /\ mode' = [mode EXCEPT !.expires = "passed"]
  /\ UNCHANGED <<call, admin, configured, hits>>

\* deactivate_expired_simulation_rules, when the state or the modes are listed.
DeactivateExpired ==
  /\ mode.enabled /\ mode.expires = "passed"
  /\ mode' = [mode EXCEPT !.enabled = FALSE]
  /\ UNCHANGED <<call, admin, configured, hits>>

\* reset_communication and load_simulation_communication replace all tables.
Load ==
  /\ mode' = DefaultMode
  /\ UNCHANGED <<call, admin, configured, hits>>

ModesNext ==
  \/ \E c \in Callers :
       \/ \E endpoint \in Endpoints : Enter(c, endpoint)
       \/ PassGate(c)
       \/ ReadMode(c)
       \/ DisableMode(c)
       \/ UseMode(c)
  \/ \E a \in Admins :
       \/ \E wanted \in Configurations : ReadToConfigure(a, wanted)
       \/ Configure(a)
  \/ ModeElapses
  \/ DeactivateExpired
  \/ Load

ModesSpec == ModesInit /\ [][ModesNext]_modeVars

-----------------------------------------------------------------------------
Modes ==
  [enabled : BOOLEAN, type : {"HTTP_ERROR", "DELAY"}, once : BOOLEAN,
   left : {"null", "zero", "one"}, affects : SUBSET Endpoints,
   expires : {"never", "later", "passed"}]

\* The mode, the calls and the operators hold values the service can hold.
ModesTypeOK ==
  /\ mode \in Modes
  /\ call \in [Callers -> [at : {"idle", "gate", "disable", "sleep"},
                          endpoint : Endpoints \cup {"none"}, read : Modes]]
  /\ admin \in [Admins -> [at : {"idle", "write"}, read : Modes,
                          wants : {DefaultMode} \cup Configurations]]
  /\ configured \in 0..MaxConfigured
  /\ hits \in Nat

\* A one-time failure fails only calls that were already under way when the
\* first of them reported its use: never more of them than there are callers.
OneTimeModeIsBounded == hits <= Cardinality(Callers)
\* A failure mode fails calls only as it was configured: its row is one the schema
\* of the failure request allows, and one-time failures end.
ModesSound == ModesTypeOK /\ OneTimeModeIsBounded
=============================================================================
