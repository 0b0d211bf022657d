------------------------------ MODULE QuotaCache ------------------------------
(***************************************************************************)
(* QuotaCache of ai_router/kimi_quota.py: handler threads ask for a refresh *)
(* and describe the cache, a daemon thread fetches the quota from the local *)
(* Kimi server.  The monotonic clock appears as two ages in ticks, which   *)
(* saturate where the code stops telling them apart, so time is unbounded. *)
(***************************************************************************)
EXTENDS Naturals

CONSTANTS
  Cooldown,      \* QUOTA_REFRESH_COOLDOWN_S in ticks
  StaleAfter,    \* QUOTA_STALE_AFTER_S in ticks
  WindowNames    \* WINDOW_NAMES

ASSUME QuotaAssumption == Cooldown \in Nat \ {0} /\ StaleAfter \in Nat

VARIABLES
  checking,      \* _checking
  refresher,     \* "idle", "spawning": request_check left the lock, "running"
  attemptAge,    \* time since _last_attempt_mono; Cooldown also when None
  successAge,    \* time since _last_success_mono
  windows,       \* names of the cached _windows
  succeeded,     \* _last_success_at is not None
  failed,        \* _failed
  lastRefresh    \* history: how the last refresh that ran ended

quotaVars == <<checking, refresher, attemptAge, successAge, windows, succeeded,
               failed, lastRefresh>>

QuotaInit ==
  /\ checking = FALSE
  /\ refresher = "idle"
  /\ attemptAge = Cooldown
  /\ successAge = StaleAfter + 1
  /\ windows = {}
  /\ succeeded = FALSE
  /\ failed = FALSE
  /\ lastRefresh = "none"

-----------------------------------------------------------------------------

\* What a refresh finds: for every instance record whether it passes the checks
\* of _server_port (local host, pid and port in range, a live process of this
\* user running the Kimi binary), whether the private token file is usable,
\* whether the server answers in bounds, and what it says of each quota window.
Servers ==
  [instances : SUBSET BOOLEAN, token : BOOLEAN, answers : BOOLEAN, kind : {"ok", "error"},
   usages : [WindowNames -> {"valid", "invalid", "absent"}]]

\* _server_port: the first instance record that passes
HasPort(server) == TRUE \in server.instances

\* parse_quota: malformed windows are skipped
QuotaWindows(server) == {n \in WindowNames : server.usages[n] = "valid"}

\* fetch_kimi_quota: whether its status is 'available'.  Every error becomes
\* 'unavailable', so does a reply without a usable window.
Available(server) ==
  /\ HasPort(server)
  /\ server.token
  /\ server.answers
  /\ server.kind = "ok"
  /\ QuotaWindows(server) # {}

\* describe
State ==
  IF checking THEN "checking"
  ELSE IF ~succeeded THEN "unavailable"
  ELSE IF failed \/ successAge > StaleAfter THEN "stale"
  ELSE "available"

\* request_check, the part under the lock
RequestRefresh ==
  /\ ~checking
  /\ attemptAge >= Cooldown
  /\ checking' = TRUE
  /\ attemptAge' = 0
  /\ refresher' = "spawning"
  /\ UNCHANGED <<successAge, windows, succeeded, failed, lastRefresh>>

\* _spawn_daemon
Spawn ==
  /\ refresher = "spawning"
  /\ refresher' = "running"
  /\ UNCHANGED <<checking, attemptAge, successAge, windows, succeeded, failed, lastRefresh>>

\* Seeded fault: request_check lets the spawner's exception through
SpawnRaises ==
  /\ refresher = "spawning"
  /\ refresher' = "idle"
  /\ UNCHANGED <<checking, attemptAge, successAge, windows, succeeded, failed, lastRefresh>>

\* the spawner raises: the cooldown has begun nevertheless
SpawnFails ==
  /\ refresher = "spawning"
  /\ refresher' = "idle"
  /\ checking' = FALSE
  /\ UNCHANGED <<attemptAge, successAge, windows, succeeded, failed, lastRefresh>>

\* _refresh that got the quota
RefreshSucceeds(server) ==
  /\ refresher = "running"
  /\ Available(server)
  /\ refresher' = "idle"
  /\ checking' = FALSE
  /\ windows' = QuotaWindows(server)
  /\ succeeded' = TRUE
  /\ failed' = FALSE
  /\ successAge' = 0
  /\ lastRefresh' = "good"
  /\ UNCHANGED attemptAge

\* Seeded fault: _refresh does not mark the surviving data
RefreshFailsUnmarked(server) ==
  /\ refresher = "running"
  /\ ~Available(server)
  /\ refresher' = "idle"
  /\ checking' = FALSE
  /\ lastRefresh' = "bad"
  /\ UNCHANGED <<attemptAge, successAge, windows, succeeded, failed>>

\* _refresh that did not: older windows stay, marked as such
RefreshFails(server) ==
  /\ refresher = "running"
  /\ ~Available(server)
  /\ refresher' = "idle"
  /\ checking' = FALSE
  /\ failed' = (failed \/ succeeded)
  /\ lastRefresh' = "bad"
  /\ UNCHANGED <<attemptAge, successAge, windows, succeeded>>

\* one tick of time.monotonic()
Tick ==
  /\ attemptAge < Cooldown \/ successAge <= StaleAfter
  /\ attemptAge' = IF attemptAge < Cooldown THEN attemptAge + 1 ELSE attemptAge
  /\ successAge' = IF successAge <= StaleAfter THEN successAge + 1 ELSE successAge
  /\ UNCHANGED <<checking, refresher, windows, succeeded, failed, lastRefresh>>

QuotaNext ==
  \/ RequestRefresh
  \/ Spawn
  \/ SpawnFails
  \/ \E server \in Servers : RefreshSucceeds(server) \/ RefreshFails(server)
  \/ Tick

QuotaSpec == QuotaInit /\ [][QuotaNext]_quotaVars

-----------------------------------------------------------------------------

\* Quota shown as available is there, young enough, and no refresh has failed
\* since it was fetched, in whatever order refreshes, their failures and the
\* clock interleave (QuotaCache docstring).
AvailableIsFresh ==
  State = "available" =>
    /\ windows # {}
    /\ lastRefresh = "good"
    /\ successAge <= StaleAfter

\* No refresh, however it ends and even if its thread cannot be started, keeps
\* the cache busy for ever: again and again a new one may begin.
RefreshPossibleAgain == []<>(~checking /\ attemptAge >= Cooldown)

=============================================================================
