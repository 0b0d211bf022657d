----------------------------- MODULE MCWorkerJobs -----------------------------
(***************************************************************************)
(* TLC instance of what surrounds a job: its launch, its private           *)
(* directory, the file broker its worker uses, and what the dashboard      *)
(* tells of the workers and hosts.  The components have no variable in     *)
(* common, so `part` picks the one that moves; the others stay in one      *)
(* initial state.                                                          *)
(***************************************************************************)
EXTENDS WorkerLaunch, EditWorkspace, ProviderHealth, UsageTotals, HostExecutable,
        WorktreeBroker, TLC

VARIABLE part

Symmetry == Permutations(EditJobs)

\* Kimi sessions of up to two requests; a record lacks at most one field
Records ==
  {r \in SUBSET DOMAIN KimiFields : "inputOther" \in r /\ Cardinality(r) >= 3} \cup {Broken}

MCWires == {<<>>} \cup {<<r>> : r \in Records} \cup {<<r, s>> : r \in Records, s \in Records}

\* 101 stands for a directory that is no NVM bin
MCPaths == {<<>>, <<101, 9>>, <<18, 10>>, <<10, 101, 18>>}

\* Worktrees with a plain and a sensitive entry
Leaf(name, e) ==
  [p \in {<<name>>} \cup {<<name, b>> : b \in Names} |-> IF p = <<name>> THEN e ELSE "absent"]

Folder(name, e, beneath) ==
  [p \in {<<name>>} \cup {<<name, b>> : b \in Names} |-> IF p = <<name>> THEN e ELSE beneath[p[2]]]

PlainEntries ==
  {Leaf("src", e) : e \in {"absent", "special", "once", "twice"}}
  \cup {Folder("src", e, beneath) : e \in {"directory", "link"},
                                    beneath \in [Names -> {"absent", "link", "once", "unreadable"}]}

SensitiveEntries ==
  {Leaf("key", e) : e \in {"absent", "once"}}
  \cup {Folder("key", e, [b \in Names |-> "once"]) : e \in {"directory", "link"}}

MCTrees ==
  {[p \in TreePaths |-> IF p[1] = "src" THEN s[p] ELSE k[p]] :
     s \in PlainEntries, k \in SensitiveEntries}

workerJobsVars ==
  <<launchVars, workspaceVars, healthVars, rows, hostVars, brokerVars, part>>

RestOf(p) ==
  /\ UNCHANGED part
  /\ IF p = "launch" THEN TRUE ELSE UNCHANGED launchVars
  /\ IF p = "workspace" THEN TRUE ELSE UNCHANGED workspaceVars
  /\ IF p = "health" THEN TRUE ELSE UNCHANGED healthVars
  /\ IF p = "usage" THEN TRUE ELSE UNCHANGED rows
  /\ IF p = "host" THEN TRUE ELSE UNCHANGED hostVars
  /\ IF p = "broker" THEN TRUE ELSE UNCHANGED brokerVars

OneLaunch ==
  /\ request = [worker |-> "qwen", mode |-> "read-only", budget |-> 0, isTest |-> TRUE]
  /\ ~landlock
  /\ saved = [preset |-> 0, profile |-> "default"]
  /\ config = [endpoint |-> [m \in Models |-> "other"], activeIsReviewed |-> FALSE]

OneHost ==
  /\ machine = [fixed |-> TRUE, install |-> [v \in NodeVersions |-> "absent"]]
  /\ path = <<>>

Init ==
  /\ part \in {"launch", "workspace", "health", "usage", "host", "broker"}
  /\ LaunchInit
  /\ part = "launch" \/ OneLaunch
  /\ WorkspaceInit
  /\ HealthInit
  /\ part = "health" \/ configured
  /\ UsageInit
  /\ HostInit
  /\ part = "host" \/ OneHost
  /\ BrokerInit
  /\ part = "broker" \/ tree = [p \in TreePaths |-> "absent"]

Next ==
  \/ part = "launch"    /\ LaunchNext    /\ RestOf(part)
  \/ part = "workspace" /\ WorkspaceNext /\ RestOf(part)
  \/ part = "health"    /\ HealthNext    /\ RestOf(part)
  \/ part = "usage"     /\ UsageNext     /\ RestOf(part)
  \/ part = "host"      /\ HostNext      /\ RestOf(part)
  \/ part = "broker"    /\ BrokerNext    /\ RestOf(part)

Spec == Init /\ [][Next]_workerJobsVars

=============================================================================
