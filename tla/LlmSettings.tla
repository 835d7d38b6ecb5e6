----------------------------- MODULE LlmSettings -----------------------------
(***************************************************************************)
(* The language-model settings of core-api (llm_settings): one encrypted   *)
(* row of system_settings and the snapshot in memory that interpret_goal   *)
(* and the explainer use.                                                  *)
(*                                                                         *)
(* A save tests the connection, looks whether the row exists, writes it,   *)
(* commits and only then replaces the snapshot; a disconnect builds its    *)
(* settings from the snapshot and goes the same way.  Each await lets the  *)
(* requests of other administrators in.  At startup the snapshot is loaded *)
(* from the row, or from the environment if there is no row that can be    *)
(* read: another secret, another schema version, or settings that were     *)
(* accepted and do not validate a second time.                             *)
(***************************************************************************)
EXTENDS Naturals

CONSTANTS
  Admins,       \* requests that can be under way together
  Providers,
  Keys,         \* what is configured for a provider: a model and a list of credentials
  Unreadable,   \* those that do not validate when they are read back: a label of
                \* blanks is stripped to nothing, a key of the environment may be short
  Unsupported,  \* those whose model is refused once the provider is the active one
  Payloads,     \* settings that can be submitted, see SettingsOf
  Environment,  \* the settings of the environment variables
  Secrets       \* LLM_SETTINGS_ENCRYPTION_KEY and schema version over the restarts

NoKey == "none"
NoProvider == "none"
NoRow == [active |-> NoProvider, keys |-> [p \in Providers |-> NoKey], secret |-> "none"]

\* An active provider is a connected one with a supported model, and none is
\* active only if none is connected: LLMSettingsInput, _from_environment.
Connected(s) == {p \in Providers : s.keys[p] # NoKey}
Settings(active, keys) == [active |-> active, keys |-> keys]
AllSettings == [active : Providers \cup {NoProvider}, keys : [Providers -> Keys \cup {NoKey}]]
WellFormed(s) ==
  /\ s \in AllSettings
  /\ IF Connected(s) = {} THEN s.active = NoProvider ELSE s.active \in Connected(s)
  /\ s.active \in Connected(s) => s.keys[s.active] \notin Unsupported

\* LLMSettingsInput of settings that are read back.
Validates(s) ==
  \A p \in Connected(s) :
    s.keys[p] \notin Unreadable /\ (p = s.active => s.keys[p] \notin Unsupported)

ASSUME SettingsAssumption ==
  /\ \A s \in Payloads \cup {Environment} : WellFormed(s)
  /\ NoRow.secret \notin Secrets

VARIABLES
  row,      \* the row of system_settings: the settings and the secret they are encrypted with
  runtime,  \* LLMSettingsService._runtime
  secret,   \* the secret (and release) of the running process
  request,  \* per administrator
  saved,    \* settings that were committed
  off,      \* providers disconnected by a request that met no other, and not submitted since
  raced     \* the last two commits were both waiting to replace the snapshot

settingsVars == <<row, runtime, secret, request, saved, off, raced>>

\* Mutant: the provider that is disconnected stays the active one.
RemainsActive(s, rest) == s.active

\* The active provider if it is still there, else the next one.
Active(s, rest) ==
  IF s.active \in rest \/ rest = {} THEN (IF rest = {} THEN NoProvider ELSE s.active)
  ELSE CHOOSE p \in rest : TRUE

\* disconnect: the settings of the snapshot without these providers.
Without(s, removed) ==
  Settings(Active(s, Connected(s) \ removed),
           [p \in Providers |-> IF p \in removed THEN NoKey ELSE s.keys[p]])

\* The row can be read back with this secret and release.
Readable(r, key) == r.secret = key /\ Validates(Settings(r.active, r.keys))

\* Mutant: the environment's providers are kept beside the stored ones.
LoadedBesideEnvironment(r, key) ==
  IF Readable(r, key)
    THEN Settings(IF r.active = NoProvider THEN Environment.active ELSE r.active,
                  [p \in Providers |-> IF r.keys[p] = NoKey THEN Environment.keys[p] ELSE r.keys[p]])
    ELSE Environment

\* load
Loaded(r, key) ==
  IF Readable(r, key) THEN Settings(r.active, r.keys) ELSE Environment

-----------------------------------------------------------------------------
Quiet == [at |-> "quiet", new |-> Environment, removed |-> {}, found |-> FALSE, alone |-> FALSE]

SettingsInit ==
  /\ row = NoRow
  /\ runtime = Environment
  /\ secret \in Secrets
  /\ request = [a \in Admins |-> Quiet]
  /\ saved = {} /\ off = {} /\ raced = FALSE

Others(a) == {b \in Admins \ {a} : request[b].at # "quiet"}

\* The request begins; it and those it meets are no longer alone.
Begins(a, r) ==
  /\ request[a].at = "quiet"
  /\ request' = [b \in Admins |->
       IF b = a THEN [r EXCEPT !.alone = (Others(a) = {})]
       ELSE [request[b] EXCEPT !.alone = FALSE]]
  /\ UNCHANGED <<row, runtime, secret, saved, raced>>

\* save_llm_settings: rules_only is refused, the active provider is a connected one.
Submit(a, s) ==
  /\ Begins(a, [Quiet EXCEPT !.at = "selecting", !.new = s])
  /\ off' = off \ Connected(s)

\* disconnect_llm_settings: one provider, or all of them; what is left must
\* validate, else the request fails before it has begun.
DisconnectProviders(a, removed) ==
  /\ Validates(Without(runtime, removed))
  /\ Begins(a, [Quiet EXCEPT !.at = "selecting", !.new = Without(runtime, removed),
                             !.removed = removed])
  /\ UNCHANGED off

Becomes(a, r) ==
  /\ request' = [request EXCEPT ![a] = r]
  /\ UNCHANGED <<row, runtime, secret, saved, off, raced>>

SelectRow(a) ==
  /\ request[a].at = "selecting"
  /\ Becomes(a, [request[a] EXCEPT !.at = "writing", !.found = (row # NoRow)])

\* test_connections refuses a credential, before the row is looked for; the
\* database fails; or the key of the inserted row exists meanwhile.
Fail(a) ==
  /\ request[a].at \in {"selecting", "writing"}
  /\ Becomes(a, Quiet)

\* Mutant: the snapshot is replaced before the commit.
SelectAndPublish(a) ==
  /\ request[a].at = "selecting"
  /\ request' = [request EXCEPT ![a].at = "writing", ![a].found = (row # NoRow)]
  /\ runtime' = request[a].new
  /\ UNCHANGED <<row, secret, saved, off, raced>>

CommitRow(a) ==
  /\ request[a].at = "writing"
  /\ request[a].found \/ row = NoRow
  /\ row' = [active |-> request[a].new.active, keys |-> request[a].new.keys, secret |-> secret]
  /\ saved' = {request[a].new} \cup (saved \cap ({runtime} \cup {request[b].new : b \in Admins}))
  /\ raced' = (\E b \in Admins : request[b].at = "publishing")
  /\ request' = [request EXCEPT ![a].at = "publishing"]
  /\ UNCHANGED <<runtime, secret, off>>

\* Mutant: a disconnect only writes the row.
InUseAfter(a) == IF request[a].removed = {} THEN request[a].new ELSE runtime
\* save: self._runtime = runtime
InUse(a) == request[a].new

Publish(a) ==
  /\ request[a].at = "publishing"
  /\ runtime' = InUse(a)
  /\ off' = IF request[a].alone THEN off \cup request[a].removed ELSE off
  /\ request' = [request EXCEPT ![a] = Quiet]
  /\ UNCHANGED <<row, secret, saved, raced>>

\* The process stops and starts again: lifespan.  A provider of the environment
\* is back in use when the row cannot be read.
Restart(key) ==
  /\ secret' = key
  /\ runtime' = Loaded(row, key)
  /\ request' = [a \in Admins |-> Quiet]
  /\ off' = IF Readable(row, key) THEN off ELSE off \ Connected(Environment)
  /\ raced' = FALSE
  /\ UNCHANGED <<row, saved>>

SettingsNext ==
  \/ \E a \in Admins :
       \/ \E s \in Payloads : Submit(a, s)
       \/ \E p \in Providers : DisconnectProviders(a, {p})
       \/ DisconnectProviders(a, Providers)
       \/ SelectRow(a)
       \/ Fail(a)
       \/ CommitRow(a)
       \/ Publish(a)
  \/ \E key \in Secrets : Restart(key)

SettingsSpec == SettingsInit /\ [][SettingsNext]_settingsVars

-----------------------------------------------------------------------------
\* The row, the snapshot and the requests hold settings the program can hold: an
\* active provider is a connected one with a supported model, and none is active
\* only if none is connected.
SettingsTypeOK ==
  /\ Settings(row.active, row.keys) \in AllSettings
  /\ row = NoRow \/ row.secret \in Secrets
  /\ secret \in Secrets
  /\ \A s \in {runtime} \cup {request[a].new : a \in Admins} : WellFormed(s)

\* Whatever fails on the way, only settings that were committed, or those of the
\* environment, are ever used to call a provider.
OnlySavedInUse == runtime \in saved \cup {Environment}

\* A provider that was disconnected is used no more, neither by the running
\* process nor after a restart, until someone submits it again; only requests
\* that met another may bring it back, or a restart that cannot read the row and
\* finds the provider in the environment.
DisconnectedStaysOff ==
  off \cap (Connected(runtime) \cup Connected(row)) = {}

\* The snapshot is what the row says, or the environment's if the row does not
\* validate; unless two commits were waiting together to replace it: those may
\* replace it in the other order.
SnapshotFollowsRow ==
  LET stored == Settings(row.active, row.keys) IN
  /\ ~raced /\ row.secret = secret
  /\ \A a \in Admins : request[a].at # "publishing"
  => runtime = stored \/ (~Validates(stored) /\ runtime = Environment)

\* The settings in use are usable and are those that were saved: they are well
\* formed, never the settings of a save that failed, and follow the stored row.
SettingsSound == SettingsTypeOK /\ OnlySavedInUse /\ SnapshotFollowsRow
=============================================================================
