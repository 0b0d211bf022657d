---------------------------- MODULE ProviderHealth ----------------------------
(***************************************************************************)
(* The health of one worker as its provider tests show it: how             *)
(* Supervisor.run classifies the end of a test, what the row keeps of it,  *)
(* and what the dashboard card and `ai-worker status` make of the latest   *)
(* row.  Tests of one worker may overlap (the dashboard and the command    *)
(* line both start them) and the clock may be set back.                    *)
(***************************************************************************)
EXTENDS Integers, Sequences, FiniteSetsExt

CONSTANTS
  MaxTests,  \* bound: tests that are ever started
  MaxClock,  \* bound: the clock's last value
  Freshness  \* TEST_FRESHNESS_SECONDS

VARIABLES
  clock,        \* the system clock
  clockSetBack, \* history: it was set back
  tests,        \* the rows of the tests in the order of their insertion
  starting,     \* a wrapper was launched whose row does not exist yet
  configured    \* the provider snapshot says CONFIGURED

healthVars == <<clock, clockSetBack, tests, starting, configured>>

HealthInit ==
  /\ clock = 1
  /\ clockSetBack = FALSE
  /\ tests = <<>>
  /\ starting = FALSE
  /\ configured \in BOOLEAN

-----------------------------------------------------------------------------
\* The end of a test

\* How a run ends: what _communicate reports, the exit code, the first error
\* pattern its output matches and what the adapter parses from it
Outcomes ==
  [cause : {"cancelled", "timed_out", "oversized"}, exit : {1}, pattern : {"none"},
   output : {"none"}]
  \cup [cause : {"exited"}, exit : {0, 1, 55},
        pattern : {"none", "AUTH_ERROR", "RATE_LIMITED", "QUOTA_OR_BILLING"},
        output : {"none", "malformed", "text", "report"}]

\* the status that goes with the code of an error pattern
PatternStatus ==
  [AUTH_ERROR |-> "auth_error", RATE_LIMITED |-> "rate_limited", QUOTA_OR_BILLING |-> "failed"]

\* _classify; the remaining error patterns end like a crash
Classify(o) ==
  IF o.cause = "cancelled" THEN <<"cancelled", "CANCELLED">>
  ELSE IF o.cause = "timed_out" THEN <<"timed_out", "TIMEOUT">>
  ELSE IF o.cause = "oversized" THEN <<"failed", "OUTPUT_LIMIT">>
  ELSE IF o.exit = 55 THEN <<"failed", "BUDGET_EXHAUSTED">>
  ELSE IF o.exit # 0 /\ o.pattern # "none" THEN <<PatternStatus[o.pattern], o.pattern>>
  ELSE IF o.output = "malformed" \/ (o.exit = 0 /\ o.output = "none")
  THEN <<"invalid_output", "INVALID_OUTPUT">>
  ELSE IF o.exit # 0 THEN <<"failed", "WORKER_CRASH">>
  ELSE <<"completed", "">>

\* validate_usage_report turns a completed test without a report into a failure
TestVerdict(o) ==
  IF Classify(o)[1] = "completed" /\ o.output # "report"
  THEN <<"invalid_output", "USAGE_REPORT_MISMATCH">>
  ELSE Classify(o)

Healthy(o) == o.cause = "exited" /\ o.exit = 0 /\ o.output = "report"

Running(t) == tests[t].status = "running"

\* start_provider_test launches a wrapper, or `ai-worker test` starts
BeginTest ==
  /\ ~starting
  /\ starting' = TRUE
  /\ UNCHANGED <<clock, clockSetBack, tests, configured>>

\* create_job and start_job; a wrapper may also die before
RecordTest ==
  /\ starting
  /\ starting' = FALSE
  /\ tests' \in {tests} \cup
       IF Len(tests) = MaxTests THEN {}
       ELSE {Append(tests, [status |-> "running", code |-> "", created |-> clock,
                            completed |-> 0, healthy |-> FALSE])}
  /\ UNCHANGED <<clock, clockSetBack, configured>>

Ended(t, status, code, healthy) ==
  tests' = [tests EXCEPT ![t] = [@ EXCEPT !.status = status, !.code = code,
                                          !.completed = clock, !.healthy = healthy]]

\* Seeded fault: a test counts as passed whatever the worker answered
EndTestUnvalidated(t) ==
  /\ Running(t)
  /\ \E o \in Outcomes : Ended(t, Classify(o)[1], Classify(o)[2], Healthy(o))
  /\ UNCHANGED <<clock, clockSetBack, starting, configured>>

\* run: finish_job with the verdict of the test
EndTest(t) ==
  /\ Running(t)
  /\ \E o \in Outcomes : Ended(t, TestVerdict(o)[1], TestVerdict(o)[2], Healthy(o))
  /\ UNCHANGED <<clock, clockSetBack, starting, configured>>

\* finish_job after request_cancel, or recovery of a test whose owner is gone
EndTestOtherwise(t) ==
  /\ Running(t)
  /\ \/ Ended(t, "cancelled", "CANCELLED", FALSE)
     \/ Ended(t, "failed", "INTERRUPTED", FALSE)
  /\ UNCHANGED <<clock, clockSetBack, starting, configured>>

TimePasses ==
  /\ clock < MaxClock
  /\ clock' = clock + 1
  /\ UNCHANGED <<clockSetBack, tests, starting, configured>>

SetClockBack ==
  /\ clock' \in 1 .. clock - 1
  /\ clockSetBack' = TRUE
  /\ UNCHANGED <<tests, starting, configured>>

\* a restarted dashboard loads its snapshot again
LoadSnapshot ==
  /\ configured' \in BOOLEAN
  /\ UNCHANGED <<clock, clockSetBack, tests, starting>>

HealthNext ==
  \/ BeginTest \/ RecordTest
  \/ \E t \in DOMAIN tests : EndTest(t) \/ EndTestOtherwise(t)
  \/ TimePasses \/ SetClockBack \/ LoadSnapshot

HealthSpec == HealthInit /\ [][HealthNext]_healthVars

-----------------------------------------------------------------------------
\* What is shown

\* provider_tests(limit=1): ORDER BY created_at DESC, rowid DESC
LatestTest ==
  Max({t \in DOMAIN tests : \A u \in DOMAIN tests : tests[u].created <= tests[t].created})

\* the age of the latest test, by the clock of the reader
Age == clock - (IF Running(LatestTest) THEN tests[LatestTest].created
                                       ELSE tests[LatestTest].completed)

Fresh == Age \in 0 .. Freshness

\* Controller.providers: the badge of a worker's card, by its latest test
CardStatus ==
  LET last == tests[LatestTest]
      ifConfigured(status) == IF configured THEN status ELSE "UNAVAILABLE"
  IN IF starting THEN "TESTING"
     ELSE IF tests = <<>> THEN ifConfigured("NOT_TESTED")
     ELSE IF last.status = "running" THEN "TESTING"
     ELSE IF last.code = "AUTH_ERROR" THEN "AUTH_REQUIRED"
     ELSE IF last.code \in {"RATE_LIMITED", "QUOTA_OR_BILLING"} THEN "DEGRADED"
     ELSE IF ~Fresh THEN ifConfigured("TEST_STALE")
     ELSE IF last.status = "completed" THEN ifConfigured("READY")
     ELSE "DEGRADED"

\* `ai-worker status`
CommandLineStatus ==
  LET last == tests[LatestTest]
  IN IF tests = <<>> THEN "UNKNOWN"
     ELSE IF last.status = "running" THEN "TESTING"
     ELSE IF last.status = "completed" THEN "LAST_TEST_SUCCEEDED"
     ELSE IF last.code = "AUTH_ERROR" THEN "AUTH_REQUIRED"
     ELSE "LAST_TEST_FAILED"

-----------------------------------------------------------------------------

\* A card says READY only on the evidence of the test that was started last: the
\* CLI of a configured worker ended by itself with exit 0 and its own usage
\* report, no longer ago than the freshness window.  Overlapping tests that end
\* out of order do not matter; after the clock was set back, the test shown is
\* still a healthy one.  The command line agrees.
ReadyMeansHealthyTest ==
  CardStatus = "READY" =>
    /\ configured /\ ~starting
    /\ tests[LatestTest].healthy
    /\ clock - tests[LatestTest].completed \in 0 .. Freshness
    /\ clockSetBack \/ LatestTest = Len(tests)
    /\ CommandLineStatus = "LAST_TEST_SUCCEEDED"

=============================================================================
