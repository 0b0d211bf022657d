---------------------------- MODULE UpdateRegistry ----------------------------
(***************************************************************************)
(* ai_router/updates.py inside the dashboard process: HTTP handler threads *)
(* call request_check, every accepted check is a thread executing _run,    *)
(* and the main thread calls shutdown once.                                *)
(*                                                                         *)
(* request_check registers its threads under the lock and starts them      *)
(* after releasing it, so registration and start are separate actions.     *)
(* A version is a number, 0 stands for None.                               *)
(***************************************************************************)
EXTENDS Naturals, Sequences, FiniteSets

CONSTANTS
  Coders,        \* WORKERS
  MaxChecks,     \* _max_checks
  Handlers,      \* HTTP handler threads, one request_check each
  Selections,    \* the worker lists they post: requested_workers wants distinct ones
  Versions,      \* versions a source may publish
  ThreadsFail    \* whether the system may refuse to start a thread

ASSUME RegistryAssumption ==
  /\ MaxChecks \in Nat \ {0}
  /\ Selections \subseteq Seq(Coders)
  /\ \A sel \in Selections : \A i, k \in DOMAIN sel : sel[i] = sel[k] => i = k
  /\ Versions \subseteq Nat \ {0}
  /\ ThreadsFail \in BOOLEAN

VARIABLES
  entry,      \* _entries: latest version, checking flag, error flag
  thread,     \* _threads and its member: "none", "registered", "running"
  toStart,    \* request_check(): its queued list; NotYet before the call
  closing,    \* shutdown(): "no", "joining", then "closed" or "raised"
  toJoin,     \* shutdown(): the threads listed and not joined yet
  joinLapsed  \* shutdown(): some join has timed out

registryVars == <<entry, thread, toStart, closing, toJoin, joinLapsed>>

NotYet == <<"not called">>

RegistryInit ==
  /\ entry = [w \in Coders |-> [latest |-> 0, checking |-> FALSE, error |-> FALSE]]
  /\ thread = [w \in Coders |-> "none"]
  /\ toStart = [h \in Handlers |-> NotYet]
  /\ closing = "no"
  /\ toJoin = {}
  /\ joinLapsed = FALSE

-----------------------------------------------------------------------------

\* A reply of the pinned source, as fetch_latest_version tells replies apart:
\* whether the connection worked, the HTTP status, whether the final address is
\* still allowed, what Content-Length declares, what the body really is.
Replies ==
  [connected : BOOLEAN, status : {200, 404}, allowed : BOOLEAN,
   declared : {"small", "large", "nonsense"}, small : BOOLEAN, version : Versions \cup {0}]

\* fetch_latest_version with the parser's strict x.y.z: the version, or 0 and an
\* error code.  A declared length that is no number is ignored, the bytes that
\* were read count in any case.
Fetch(reply) ==
  IF /\ reply.connected
     /\ reply.status = 200
     /\ reply.allowed
     /\ reply.declared # "large"
     /\ reply.small
  THEN reply.version ELSE 0

\* classify_update_state, as status() shows it
UpdateState(w, installed) ==
  IF entry[w].checking THEN "checking"
  ELSE IF 0 \in {installed, entry[w].latest} THEN "unknown"
  ELSE IF installed < entry[w].latest THEN "update-available"
  ELSE IF installed = entry[w].latest THEN "up-to-date"
  ELSE "stale"

Registered == {w \in Coders : thread[w] # "none"}

\* Seeded fault: the bound counts the threads that already run
RegistrableCountingRunning(sel) ==
  LET running == {w \in Coders : thread[w] = "running"}
      queued[n \in 0 .. Len(sel)] ==
        IF n = 0 THEN <<>>
        ELSE IF /\ ~entry[sel[n]].checking
                /\ thread[sel[n]] = "none"
                /\ Cardinality(running) + Len(queued[n - 1]) < MaxChecks
        THEN Append(queued[n - 1], sel[n])
        ELSE queued[n - 1]
  IN  queued[Len(sel)]

\* The workers of a selection request_check registers: those not being checked,
\* in order, as long as there is room; the rest is deferred
Registrable(sel) ==
  LET queued[n \in 0 .. Len(sel)] ==
        IF n = 0 THEN <<>>
        ELSE IF /\ ~entry[sel[n]].checking
                /\ thread[sel[n]] = "none"
                /\ Cardinality(Registered) + Len(queued[n - 1]) < MaxChecks
        THEN Append(queued[n - 1], sel[n])
        ELSE queued[n - 1]
  IN  queued[Len(sel)]

\* Seeded fault: request_check does not look at _stopping
RequestCheckAnyTime(h, sel) ==
  LET queued == Registrable(sel)
      chosen == {queued[i] : i \in DOMAIN queued}
  IN  /\ toStart[h] = NotYet
      /\ toStart' = [toStart EXCEPT ![h] = queued]
      /\ entry' = [w \in Coders |->
                     IF w \in chosen
                     THEN [entry[w] EXCEPT !.checking = TRUE, !.error = FALSE]
                     ELSE entry[w]]
      /\ thread' = [w \in Coders |-> IF w \in chosen THEN "registered" ELSE thread[w]]
      /\ UNCHANGED <<closing, toJoin, joinLapsed>>

\* request_check, the part under the lock; once stopping it raises instead
RequestCheck(h, sel) ==
  /\ closing = "no"
  /\ RequestCheckAnyTime(h, sel)

\* request_check: for thread in queued: thread.start()
StartThread(h) ==
  /\ toStart[h] \notin {NotYet, <<>>}
  /\ thread' = [thread EXCEPT ![Head(toStart[h])] = "running"]
  /\ toStart' = [toStart EXCEPT ![h] = Tail(@)]
  /\ UNCHANGED <<entry, closing, toJoin, joinLapsed>>

\* start() raises: the request fails, and this thread and those queued behind it
\* stay registered and unstarted
StartFails(h) ==
  /\ ThreadsFail
  /\ toStart[h] \notin {NotYet, <<>>}
  /\ toStart' = [toStart EXCEPT ![h] = <<>>]
  /\ UNCHANGED <<entry, thread, closing, toJoin, joinLapsed>>

\* Seeded fault: only a successful check ends
FinishKeepsChecking(w, reply) ==
  /\ thread[w] = "running"
  /\ entry' = [entry EXCEPT ![w] =
                 IF Fetch(reply) # 0
                 THEN [latest |-> Fetch(reply), checking |-> FALSE, error |-> FALSE]
                 ELSE [@ EXCEPT !.error = TRUE]]
  /\ thread' = [thread EXCEPT ![w] = "none"]
  /\ UNCHANGED <<toStart, closing, toJoin, joinLapsed>>

\* _run: fetch, then publish the result and unregister under the lock
Finish(w, reply) ==
  /\ thread[w] = "running"
  /\ entry' = [entry EXCEPT ![w] =
                 IF Fetch(reply) # 0
                 THEN [latest |-> Fetch(reply), checking |-> FALSE, error |-> FALSE]
                 ELSE [@ EXCEPT !.checking = FALSE, !.error = TRUE]]
  /\ thread' = [thread EXCEPT ![w] = "none"]
  /\ UNCHANGED <<toStart, closing, toJoin, joinLapsed>>

\* shutdown: set _stopping and list the threads, under the lock
Shutdown ==
  /\ closing = "no"
  /\ closing' = "joining"
  /\ toJoin' = Registered
  /\ UNCHANGED <<entry, thread, toStart, joinLapsed>>

\* shutdown: the next thread.join(timeout) returns, at the latest after 8 s; a
\* thread that was registered but not started makes it raise
Join(w) ==
  /\ closing = "joining"
  /\ w \in toJoin
  /\ closing' = IF thread[w] = "registered" THEN "raised" ELSE closing
  /\ joinLapsed' = (joinLapsed \/ thread[w] = "running")
  /\ toJoin' = toJoin \ {w}
  /\ UNCHANGED <<entry, thread, toStart>>

ShutdownReturns ==
  /\ closing = "joining"
  /\ toJoin = {}
  /\ closing' = "closed"
  /\ UNCHANGED <<entry, thread, toStart, toJoin, joinLapsed>>

RegistryNext ==
  \/ \E h \in Handlers :
       \/ \E sel \in Selections : RequestCheck(h, sel)
       \/ StartThread(h)
       \/ StartFails(h)
  \/ \E w \in Coders : Join(w) \/ \E reply \in Replies : Finish(w, reply)
  \/ Shutdown
  \/ ShutdownReturns

RegistrySpec == RegistryInit /\ [][RegistryNext]_registryVars

\* Nobody is left to start the registered thread of w: StartFails dropped it.
Abandoned(w) ==
  /\ thread[w] = "registered"
  /\ \A h \in Handlers : \A i \in DOMAIN toStart[h] : toStart[h][i] # w

-----------------------------------------------------------------------------

\* However the requests of several browsers interleave with starting threads,
\* at most _max_checks outbound checks run at a time (UpdateRegistry docstring).
CheckersBounded ==
  Cardinality({w \in Coders : thread[w] = "running"}) <= MaxChecks

\* When shutdown returns and no join timed out, every check has ended and no
\* request can start another: the process may exit without killing a fetch.
NoCheckOutlivesShutdown ==
  closing = "closed" /\ ~joinLapsed => \A w \in Coders : thread[w] = "none"

\* A worker shown as "checking" gets a definite state again, whatever the source
\* answers; the exception is a check whose thread the system refused, which the
\* registry never takes back.
CheckSettles ==
  \A w \in Coders, installed \in Versions :
    UpdateState(w, installed) = "checking"
      ~> UpdateState(w, installed) # "checking" \/ Abandoned(w)

=============================================================================
