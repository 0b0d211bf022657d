----------------------------- MODULE UsageTotals -----------------------------
(***************************************************************************)
(* Token counters: what the adapters take from the output of a job         *)
(* (workers/qwen.py, workers/kimi.py), what its row keeps, and the totals  *)
(* the store shows for the retained history (ai_router/state.py).  A CLI   *)
(* may leave any counter out; a total that misses one must say so.         *)
(***************************************************************************)
EXTENDS Integers, Sequences, SequencesExt, FiniteSets

CONSTANTS
  Wires,   \* the usage records a Kimi session may leave, one per model request
  RowLimit, \* job_token_totals' limit on the rows it reads
  MaxRows  \* bound: rows in the history

VARIABLE rows    \* the jobs that ended, oldest first

Counters == {"input", "output", "cached"}

\* a record is the set of fields that hold a valid number; Broken has no usage object
Broken == {"broken"}

\* tokens per request: Kimi splits its input in three fields
KimiFields == [inputOther |-> 1, inputCacheRead |-> 2, inputCacheCreation |-> 4, output |-> 8]

QwenFields == [input |-> 1, output |-> 8, cached |-> 2]

Fields == Counters \cup DOMAIN KimiFields \cup Broken

ASSUME UsageAssumption ==
  /\ RowLimit \in Nat
  /\ \A wire \in Wires : wire \in Seq(SUBSET Fields)

Unknown == -1
NoUsage == [c \in Counters |-> Unknown]

UsageInit == rows = <<>>

-----------------------------------------------------------------------------

\* QwenAdapter.parse_output: the usage of the last result event, counter by
\* counter; cached_tokens has two names
QwenUsage(record) ==
  [c \in Counters |-> IF c \in record THEN QwenFields[c] ELSE Unknown]

Field(record, f) == IF f \in record THEN KimiFields[f] ELSE Unknown

\* collect_usage: the counters of one usage.record
KimiValues(record) ==
  [input |-> IF {"inputOther", "inputCacheRead", "inputCacheCreation"} \subseteq record
             THEN KimiFields.inputOther + KimiFields.inputCacheRead
                  + KimiFields.inputCacheCreation
             ELSE Unknown,
   output |-> Field(record, "output"),
   cached |-> Field(record, "inputCacheRead")]

\* Seeded fault: a missing counter does not spoil the later ones
AddLatest(total, value) ==
  IF value = Unknown THEN Unknown
  ELSE IF total = Unknown THEN value ELSE total + value

\* collect_usage: once unknown, a total stays unknown
Add(total, value) ==
  IF total = Unknown \/ value = Unknown THEN Unknown ELSE total + value

\* collect_usage: the sums over one session's records
KimiUsage(wire) ==
  IF wire = <<>> \/ Broken \in ToSet(wire) THEN NoUsage
  ELSE [c \in Counters |->
          LET total[n \in 0 .. Len(wire)] ==
                IF n = 0 THEN 0 ELSE Add(total[n - 1], KimiValues(wire[n])[c])
          IN  total[Len(wire)]]

\* finish_job
Store(worker, status, wire, usage) ==
  /\ Len(rows) < MaxRows
  /\ rows' = Append(rows, [worker |-> worker, status |-> status, wire |-> wire,
                           usage |-> usage])

QwenCompletes == \E record \in SUBSET Counters :
  Store("qwen", "completed", <<record>>, QwenUsage(record))

\* the session file may also be missing, ambiguous, unsafe or too large
KimiCompletes == \E wire \in Wires, usable \in BOOLEAN :
  Store("kimi", "completed", wire, IF usable THEN KimiUsage(wire) ELSE NoUsage)

\* no usage is taken from a job that did not complete
JobFails == \E worker \in {"qwen", "kimi"} : Store(worker, "failed", <<>>, NoUsage)

\* the history cleanup deletes old rows
DeleteOldest ==
  /\ rows # <<>>
  /\ rows' = Tail(rows)

UsageNext == QwenCompletes \/ KimiCompletes \/ JobFails \/ DeleteOldest

UsageSpec == UsageInit /\ [][UsageNext]_rows

-----------------------------------------------------------------------------
\* job_token_totals

\* its query: the newest completed rows, as positions in the history
Selected ==
  LET completed == {i \in DOMAIN rows : rows[i].status = "completed"}
  IN  {i \in completed : Cardinality({k \in completed : k >= i}) <= RowLimit}

\* the rows of a worker that have some usage
Bearing(worker) ==
  {i \in Selected : rows[i].worker = worker /\ rows[i].usage # NoUsage}

\* the total shown for a counter
Total(worker, c) ==
  LET total[n \in 0 .. Len(rows)] ==
        IF n = 0 THEN 0
        ELSE IF n \in Bearing(worker) THEN Add(total[n - 1], rows[n].usage[c])
        ELSE total[n - 1]
  IN  IF Bearing(worker) = {} THEN Unknown ELSE total[Len(rows)]

-----------------------------------------------------------------------------

\* the fields a counter is made of, and the tokens each request spent on it
FieldsOf(worker, c) ==
  IF worker = "kimi" /\ c = "input" THEN {"inputOther", "inputCacheRead", "inputCacheCreation"}
  ELSE IF worker = "kimi" /\ c = "cached" THEN {"inputCacheRead"}
  ELSE {c}

Spent(worker, c) ==
  CASE c = "output" -> 8
    [] c = "cached" -> 2
    [] c = "input"  -> IF worker = "kimi" THEN 7 ELSE 1

\* A total is the number of tokens that all requests of the retained,
\* usage-bearing jobs spent, or it is unknown: a sum that misses a request or a
\* field of one, in whatever job and in whatever order, is never shown as a total.
TotalsCompleteOrUnknown ==
  \A worker \in {"qwen", "kimi"}, c \in Counters :
    LET bearing == Bearing(worker)
        reported == \A i \in bearing : \A record \in ToSet(rows[i].wire) :
                      FieldsOf(worker, c) \subseteq record
        requests[n \in 0 .. Len(rows)] ==
          IF n = 0 THEN 0 ELSE requests[n - 1] + IF n \in bearing THEN Len(rows[n].wire) ELSE 0
    IN Total(worker, c) = IF bearing # {} /\ reported
                          THEN requests[Len(rows)] * Spent(worker, c)
                          ELSE Unknown

=============================================================================
