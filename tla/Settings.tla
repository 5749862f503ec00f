------------------------------ MODULE Settings ------------------------------
(***************************************************************************)
(* The configuration of a running server: loaded from a file and the       *)
(* environment, and replaced by settings requests under a persistence      *)
(* lock.  A configuration is reduced to a plain field and one provider     *)
(* token with its three origins: a value in the file, a reference to an    *)
(* environment variable, a variable that overrides both.  Requests replace *)
(* the field, the token and the reference, and the variables override the  *)
(* field and the reference at every start.                                 *)
(***************************************************************************)
EXTENDS Integers

CONSTANTS Requests,      \* clients that put settings
          Values,        \* of the fields
          Unusable,      \* values that validation refuses
          Typed,         \* tokens people put into the file or the settings form
          EnvSecrets,    \* tokens that only the environment holds
          MaxPuts,       \* bound: settings requests
          MaxRestarts,   \* bound: process starts after the first
          None, NoWriter

ASSUME SettingsAssumption ==
    /\ MaxPuts \in Nat /\ MaxRestarts \in Nat
    /\ Typed \cap EnvSecrets = {} /\ None \notin Typed \cup EnvSecrets
    /\ NoWriter \notin Requests

VARIABLES file,      \* the TOML file
          env,       \* environment of the process
          memory,    \* the configuration in use
          lock,      \* holder of the persistence lock
          put,       \* settings requests
          puts, starts

settingsVars == <<file, env, memory, lock, put, puts, starts>>

Or(a, b) == IF a # None THEN a ELSE b

\* Process variables and a .env file beside them: the plain field under its present and its old
\* name, the reference, and the two kinds of secrets.
Environment == [plain: {None, 1}, legacy: {None, 2}, refers: BOOLEAN,
                direct: {None} \cup EnvSecrets, named: {None} \cup EnvSecrets]

\* normalize_legacy_file: a token under its old name counts where the new name is absent.
Normalized(f) == [plain |-> f.plain, token |-> Or(f.token, f.old), ref |-> f.ref]

\* resolve_secrets: never into the field that is serialised.
ResolvedSecret(ref, e) == Or(e.direct, IF ref THEN e.named ELSE None)
Resolved(c, e) == [plain |-> c.plain, token |-> c.token, ref |-> c.ref, secret |-> ResolvedSecret(c.ref, e)]

LayeredAll(c, e) == [c EXCEPT !.plain = Or(e.plain, @), !.ref = @ \/ e.refers, !.token = Or(e.direct, @)]

\* filtered_environment: plain variables override the file, those that hold secrets are left out.
Layered(c, e) == [c EXCEPT !.plain = Or(e.plain, @), !.ref = @ \/ e.refers]

\* apply_legacy_overrides: the old variable names come last.
LegacyOverrides(c, e) == [c EXCEPT !.plain = Or(e.legacy, @)]

\* FixerConfig::validate.
Acceptable(c) == c.plain \notin Unusable

\* resolve_reference: a referenced variable that is missing is an error.
Resolves(ref, e) == ref => e.named # None

Overridden(c, e) == Resolved(LegacyOverrides(Layered(c, e), e), e)
Load(f, e) == Overridden(Normalized(f), e)
Loads(f, e) == LET c == Load(f, e) IN Resolves(c.ref, e) /\ Acceptable(c)

NoPut == [pc |-> "idle"]

InitSettings ==
    /\ file \in [plain: Values \cup Unusable, token: {None} \cup Typed, ref: BOOLEAN, old: {None} \cup Typed]
    /\ env \in {e \in Environment : Loads(file, e)}
    /\ memory = Load(file, env)
    /\ lock = NoWriter /\ puts = 0 /\ starts = 0
    /\ put = [u \in Requests |-> NoPut]

(* update_settings: a copy of the configuration is edited before the persistence lock is taken. *)
UpdatedSecret(c, change) ==
    CASE change = "clear" -> [c EXCEPT !.token = None, !.ref = FALSE]
      [] change \in Typed -> [c EXCEPT !.token = change, !.ref = FALSE]
      [] OTHER -> c

\* validate_settings; what it lets through is edited in.
Admissible(x) == x \notin Unusable
Applied(c, x, change) == UpdatedSecret([c EXCEPT !.plain = x], change)

Edit(u) ==
    /\ put[u].pc = "idle" /\ puts < MaxPuts
    /\ puts' = puts + 1
    /\ \E x \in {v \in Values \cup Unusable : Admissible(v)}, change \in Typed \cup {"clear", "keep"} :
          put' = [put EXCEPT ![u] = [pc |-> "edited", next |-> Applied(memory, x, change)]]
    /\ UNCHANGED <<file, env, memory, lock, starts>>

(* replace_after: resolve, validate, persist and only then swap. *)
TakeLock(u) ==
    /\ put[u].pc = "edited" /\ lock = NoWriter
    /\ lock' = u
    /\ put' = [put EXCEPT ![u].pc = "locked", ![u].next = Resolved(@, env)]
    /\ UNCHANGED <<file, env, memory, puts, starts>>

\* The serialised form has no resolved secret; the rename replaces the whole file.
Persisted(c) == [plain |-> c.plain, token |-> c.token, ref |-> c.ref, old |-> None]

PersistUnlocked(u) ==
    /\ put[u].pc = "locked"
    /\ file' = Persisted(put[u].next)
    /\ lock' = NoWriter
    /\ put' = [put EXCEPT ![u].pc = "persisted"]
    /\ UNCHANGED <<env, memory, puts, starts>>

Persist(u) ==
    /\ put[u].pc = "locked"
    /\ file' = Persisted(put[u].next)
    /\ put' = [put EXCEPT ![u].pc = "persisted"]
    /\ UNCHANGED <<env, memory, lock, puts, starts>>

\* A media root has gone since, the directory is not writable, the disk is full.
PersistFails(u) ==
    /\ put[u].pc = "locked"
    /\ lock' = NoWriter
    /\ put' = [put EXCEPT ![u] = NoPut]
    /\ UNCHANGED <<file, env, memory, puts, starts>>

Swap(u) ==
    /\ put[u].pc = "persisted"
    /\ memory' = put[u].next
    /\ lock' = NoWriter
    /\ put' = [put EXCEPT ![u] = NoPut]
    /\ UNCHANGED <<file, env, puts, starts>>

(* The process ends, at any moment, and starts again, perhaps in another environment. *)
RestartServer ==
    /\ starts < MaxRestarts
    /\ starts' = starts + 1
    /\ env' \in {e \in Environment : Loads(file, e)}
    /\ memory' = Load(file, env')
    /\ lock' = NoWriter
    /\ put' = [u \in Requests |-> NoPut]
    /\ UNCHANGED <<file, puts>>

NextSettings ==
    \/ \E u \in Requests : Edit(u) \/ TakeLock(u) \/ Persist(u) \/ PersistFails(u) \/ Swap(u)
    \/ RestartServer
SpecSettings == InitSettings /\ [][NextSettings]_settingsVars
-----------------------------------------------------------------------------
(* A secret that only the environment holds never reaches the file, through any sequence of      *)
(* loads, settings requests and restarts.                                                        *)
SecretsStayOut == file.token \notin EnvSecrets /\ file.old \notin EnvSecrets

(* Whenever no request is under way, a restart in the same environment would load exactly the    *)
(* configuration in use, but for what the environment overrides: a variable wins again over what *)
(* a request has put in its place.  Writers do not overtake each other between file and memory.  *)
FileIsCurrent ==
    (\A u \in Requests : put[u].pc \in {"idle", "edited"}) => Load(file, env) = Overridden(memory, env)
=============================================================================
