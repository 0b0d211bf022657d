---------------------------- MODULE WorkspaceProofs ----------------------------
(***************************************************************************)
(* Theorems about EditWorkspace, for every set of jobs: what a job's       *)
(* directory, its row and the two ways to remove them keep from one        *)
(* another; and about WorktreeBroker, for all names and worktrees.         *)
(***************************************************************************)
EXTENDS EditWorkspace, WorktreeBroker, SequenceTheorems, TLAPS

-----------------------------------------------------------------------------
(* The inductive invariant, in named parts. *)

Steps ==
  {"slot", "failing", "made", "added", "prepared", "spawned", "working", "finished",
   "collected", "returned", "crashed"}

Contents == {"no directory", "worktree", "request.json", "edits"}

WorkspaceTypeOK ==
  /\ row \in [EditJobs -> {"queued", "running", "terminal", "deleted"}]
  /\ step \in [EditJobs -> Steps]
  /\ alive \in [EditJobs -> BOOLEAN]
  /\ dir \in [EditJobs -> SUBSET Contents]
  /\ known \in [EditJobs -> BOOLEAN]
  /\ discard \in [EditJobs -> {"idle", "checked", "removed", "done"}]
  /\ started \in [EditJobs -> BOOLEAN]
  /\ removalFailed \in [EditJobs -> BOOLEAN]

\* Before the worktree exists nothing can be discarded, before the worker starts
\* nothing is edited.
PreparationInv(j) ==
  /\ step[j] \in {"slot", "made"} => "worktree" \notin dir[j] /\ discard[j] = "idle"
  /\ step[j] \in {"slot", "made", "added"} => "edits" \notin dir[j] /\ ~alive[j]
  /\ step[j] = "prepared" => ~alive[j]

\* start_job finds a queued row, and a row does not become queued again.
StartedInv(j) ==
  /\ step[j] \in {"slot", "made", "added", "prepared", "spawned"} => ~started[j]
  /\ started[j] => row[j] # "queued"

\* A discard under way works on an ended job, and once its worktree is gone
\* nobody edits in it.
DiscardInv(j) ==
  /\ discard[j] \in {"checked", "removed"} => row[j] \in {"terminal", "deleted"}
  /\ discard[j] = "removed" => "worktree" \notin dir[j] /\ "edits" \notin dir[j]

\* What the cleanup has seen stays true: a candidate's row is settled, and a job
\* that ran gets no second worktree after its directory was seen without one.
SweepInv(j) ==
  /\ j \in candidates => row[j] \in {"terminal", "deleted"}
  /\ sweep = "preview" /\ j \in candidates /\ started[j] => "worktree" \notin dir[j]
  /\ row[j] = "deleted" /\ started[j] => "worktree" \notin dir[j]

\* The adapter knows every directory with a copy of the request, until it cleans up.
RequestInv(j) ==
  /\ "request.json" \in dir[j] /\ ~removalFailed[j] => known[j]
  /\ step[j] = "returned" => ~known[j]

JobInv(j) ==
  PreparationInv(j) /\ StartedInv(j) /\ DiscardInv(j) /\ SweepInv(j) /\ RequestInv(j)

WorkspaceInv == WorkspaceTypeOK /\ \A j \in EditJobs : JobInv(j)

-----------------------------------------------------------------------------
(* Lemmas: the actions preserve the inductive invariant. *)

\* The initial states satisfy it.
LEMMA WorkspaceInitInv == WorkspaceInit => WorkspaceInv
<1> SUFFICES ASSUME WorkspaceInit PROVE WorkspaceInv
  OBVIOUS
<1>1. WorkspaceTypeOK
  BY DEF WorkspaceInit, WorkspaceTypeOK, NoDir, Steps, Contents
<1>2. ASSUME NEW j \in EditJobs PROVE JobInv(j)
  <2>1. /\ step[j] = "slot" /\ dir[j] = {"no directory"} /\ discard[j] = "idle"
        /\ row[j] = "queued" /\ sweep = "idle" /\ candidates = {}
    BY DEF WorkspaceInit, NoDir
  <2>2. ~known[j] /\ ~started[j] /\ ~alive[j]
    BY DEF WorkspaceInit
  <2> QED
    BY <2>1, <2>2 DEF JobInv, PreparationInv, StartedInv, DiscardInv, SweepInv, RequestInv
<1> QED  BY <1>1, <1>2 DEF WorkspaceInv

\* The steps of prepare_request.
LEMMA PreparationKeepsInv ==
  ASSUME WorkspaceInv, NEW j \in EditJobs,
         \/ RefuseEdit(j) \/ MakeJobDir(j) \/ AddWorktree(j) \/ WriteRequest(j)
         \/ RollBack(j) \/ RollBackFails(j)
  PROVE  WorkspaceInv'
<1> USE DEF WorkspaceInv, WorkspaceTypeOK, JobInv, PreparationInv, StartedInv, DiscardInv,
            SweepInv, RequestInv, StepTo, Put, NoDir, Steps, Contents, outsideVars, workerVars
<1>1. CASE RefuseEdit(j)  BY <1>1 DEF RefuseEdit
<1>2. CASE MakeJobDir(j)  BY <1>2 DEF MakeJobDir
<1>3. CASE AddWorktree(j)  BY <1>3 DEF AddWorktree
<1>4. CASE WriteRequest(j)
  <2>1. /\ UNCHANGED <<row, alive, started, discard, sweep, candidates, removalFailed>>
        /\ step[j] = "added"
    BY <1>4 DEF WriteRequest
  <2>2. CASE dir[j] = NoDir
    <3>1. UNCHANGED <<dir, known>> /\ step' = [step EXCEPT ![j] = "failing"]
      BY <1>4, <2>2 DEF WriteRequest
    <3> QED  BY <2>1, <3>1
  <2>3. CASE dir[j] # NoDir
    <3> DEFINE content == dir[j] \cup {"request.json"}
    <3>1. /\ dir' = [dir EXCEPT ![j] = content]
          /\ step' = [step EXCEPT ![j] = "prepared"]
          /\ known' = [known EXCEPT ![j] = TRUE]
      BY <1>4, <2>3 DEF WriteRequest
    <3>2. content \in SUBSET Contents /\ content \ {"request.json"} = dir[j] \ {"request.json"}
      OBVIOUS
    <3> HIDE DEF content
    <3>3. WorkspaceTypeOK'  BY <2>1, <3>1, <3>2
    <3>4. ASSUME NEW k \in EditJobs
          PROVE  PreparationInv(k)' /\ StartedInv(k)' /\ DiscardInv(k)' /\ SweepInv(k)'
      <4>1. CASE k = j  BY <2>1, <3>1, <3>2, <4>1
      <4>2. CASE k # j  BY <2>1, <3>1, <4>2
      <4> QED  BY <4>1, <4>2
    <3>5. ASSUME NEW k \in EditJobs PROVE RequestInv(k)'
      <4>1. CASE k = j
        <5>1. known'[k] /\ step'[k] = "prepared"  BY <3>1, <4>1
        <5> QED  BY <5>1
      <4>2. CASE k # j  BY <2>1, <3>1, <4>2
      <4> QED  BY <4>1, <4>2
    <3> QED  BY <3>3, <3>4, <3>5
  <2> QED  BY <2>2, <2>3
<1>5. CASE RollBack(j)
  <2>1. WorkspaceTypeOK'  BY <1>5 DEF RollBack
  <2>2. ASSUME NEW k \in EditJobs PROVE JobInv(k)'
    BY <1>5, <2>2 DEF RollBack
  <2> QED  BY <2>1, <2>2
<1>6. CASE RollBackFails(j)
  <2>1. PICK content \in SUBSET (IF step[j] = "made" THEN {"worktree"}
                                 ELSE dir[j] \cup {"request.json"}) :
          dir' = [dir EXCEPT ![j] = content]
    BY <1>6 DEF RollBackFails
  <2>2. /\ UNCHANGED <<row, alive, started, known, discard, sweep, candidates>>
        /\ step[j] \in {"made", "added"} /\ step' = [step EXCEPT ![j] = "failing"]
        /\ removalFailed' = [removalFailed EXCEPT ![j] = TRUE]
    BY <1>6 DEF RollBackFails
  <2>3. content \in SUBSET Contents
    BY <2>1
  <2>4. discard[j] = "removed" => "worktree" \notin content /\ "edits" \notin content
    <3>1. CASE step[j] = "made"  BY <3>1
    <3>2. CASE step[j] # "made"
      <4>1. content \in SUBSET (dir[j] \cup {"request.json"})  BY <2>1, <3>2
      <4> QED  BY <4>1
    <3> QED  BY <3>1, <3>2
  <2>5. WorkspaceTypeOK'  BY <2>1, <2>2, <2>3
  <2>6. ASSUME NEW k \in EditJobs PROVE JobInv(k)'
    <3>1. CASE k = j
      <4>1. dir'[k] = content /\ step'[k] = "failing" /\ removalFailed'[k] /\ ~started[k]
        BY <2>1, <2>2, <3>1
      <4>2. PreparationInv(k)' /\ StartedInv(k)'  BY <2>2, <4>1
      <4>3. DiscardInv(k)'  BY <2>2, <2>4, <3>1, <4>1
      <4>4. SweepInv(k)'  BY <2>2, <4>1
      <4>5. RequestInv(k)'  BY <4>1
      <4> QED  BY <4>2, <4>3, <4>4, <4>5
    <3>2. CASE k # j  BY <2>1, <2>2, <3>2
    <3> QED  BY <3>1, <3>2
  <2> QED  BY <2>5, <2>6
<1> QED  BY <1>1, <1>2, <1>3, <1>4, <1>5, <1>6

\* The worker's life and edits.
LEMMA WorkingKeepsInv ==
  ASSUME WorkspaceInv, NEW j \in EditJobs,
         \/ SpawnEdit(j) \/ SpawnFails(j) \/ StartEdit(j) \/ EditNotStarted(j)
         \/ WorkerEdits(j) \/ WorkerEnds(j)
  PROVE  WorkspaceInv'
<1> USE DEF WorkspaceInv, WorkspaceTypeOK, JobInv, PreparationInv, StartedInv, DiscardInv,
            SweepInv, RequestInv, StepTo, Put, NoDir, Steps, Contents, outsideVars, workerVars
<1>1. CASE SpawnEdit(j)  BY <1>1 DEF SpawnEdit
<1>2. CASE SpawnFails(j)  BY <1>2 DEF SpawnFails
<1>3. CASE StartEdit(j)  BY <1>3 DEF StartEdit
<1>4. CASE EditNotStarted(j)  BY <1>4 DEF EditNotStarted
<1>5. CASE WorkerEdits(j)
  <2> DEFINE content == dir[j] \cup {"edits"}
  <2>1. /\ dir' = [dir EXCEPT ![j] = content] /\ "worktree" \in dir[j] /\ alive[j]
        /\ UNCHANGED <<row, step, alive, started, known, discard, sweep, candidates,
                       removalFailed>>
    BY <1>5 DEF WorkerEdits
  <2>2. content \in SUBSET Contents /\ content \ {"edits"} = dir[j] \ {"edits"}
    OBVIOUS
  <2> HIDE DEF content
  <2>3. WorkspaceTypeOK'  BY <2>1, <2>2
  <2>4. ASSUME NEW k \in EditJobs PROVE JobInv(k)'
    <3>1. CASE k = j
      <4>1. dir'[k] = content  BY <2>1, <3>1
      <4>2. \A c : c # "edits" => (c \in dir'[k] <=> c \in dir[k])  BY <2>2, <3>1, <4>1
      <4>3. PreparationInv(k)' /\ StartedInv(k)' /\ DiscardInv(k)'  BY <2>1, <3>1, <4>2
      <4>4. SweepInv(k)' /\ RequestInv(k)'  BY <2>1, <3>1, <4>2
      <4> QED  BY <4>3, <4>4
    <3>2. CASE k # j  BY <2>1, <3>2
    <3> QED  BY <3>1, <3>2
  <2> QED  BY <2>3, <2>4
<1>6. CASE WorkerEnds(j)  BY <1>6 DEF WorkerEnds
<1> QED  BY <1>1, <1>2, <1>3, <1>4, <1>5, <1>6

\* The end of the supervisor.
LEMMA EndingKeepsInv ==
  ASSUME WorkspaceInv, NEW j \in EditJobs,
         \/ FinishEdit(j) \/ CollectDiff(j) \/ FailEdit(j) \/ InterruptEdit(j)
         \/ CleanUpEdit(j) \/ CleanUpFails(j) \/ CrashEdit(j) \/ SettleRow(j)
  PROVE  WorkspaceInv'
<1> USE DEF WorkspaceInv, WorkspaceTypeOK, JobInv, PreparationInv, StartedInv, DiscardInv,
            SweepInv, RequestInv, StepTo, Put, NoDir, Steps, Contents, outsideVars, workerVars
<1>1. CASE FinishEdit(j)  BY <1>1 DEF FinishEdit
<1>2. CASE CollectDiff(j)  BY <1>2 DEF CollectDiff
<1>3. CASE FailEdit(j)
  <2>1. CASE UNCHANGED row  BY <1>3, <2>1 DEF FailEdit
  <2>2. CASE row[j] \in {"queued", "running"} /\ row' = [row EXCEPT ![j] = "terminal"]
    BY <1>3, <2>2 DEF FailEdit
  <2> QED  BY <1>3, <2>1, <2>2 DEF FailEdit
<1>4. CASE InterruptEdit(j)  BY <1>4 DEF InterruptEdit
<1>5. CASE CleanUpEdit(j)
  <2>1. /\ UNCHANGED <<row, alive, started, discard, sweep, candidates, removalFailed>>
        /\ step[j] = "collected" /\ step' = [step EXCEPT ![j] = "returned"]
        /\ known' = [known EXCEPT ![j] = FALSE]
    BY <1>5 DEF CleanUpEdit
  <2>2. \A k \in EditJobs \ {j} : dir'[k] = dir[k]
    BY <1>5 DEF CleanUpEdit
  <2>3. dir'[j] = dir[j] \/ (known[j] /\ dir'[j] = dir[j] \ {"request.json"})
    BY <1>5 DEF CleanUpEdit
  <2>4. dir'[j] = dir[j] => ~known[j] \/ "request.json" \notin dir[j]
    <3>1. CASE known[j] /\ dir[j] # NoDir
      <4>1. dir'[j] = dir[j] \ {"request.json"}  BY <1>5, <3>1 DEF CleanUpEdit
      <4> QED  BY <4>1
    <3>2. CASE dir[j] = NoDir  BY <3>2
    <3> QED  BY <3>1, <3>2
  <2>5. WorkspaceTypeOK'
    <3>1. dir' \in [EditJobs -> SUBSET Contents]
      <4>1. CASE UNCHANGED dir  BY <4>1
      <4>2. CASE dir' = [dir EXCEPT ![j] = dir[j] \ {"request.json"}]
        <5>1. dir[j] \ {"request.json"} \in SUBSET Contents  OBVIOUS
        <5> QED  BY <4>2, <5>1
      <4> QED  BY <1>5, <4>1, <4>2 DEF CleanUpEdit
    <3> QED  BY <2>1, <3>1
  <2>6. ASSUME NEW k \in EditJobs
        PROVE  PreparationInv(k)' /\ StartedInv(k)' /\ DiscardInv(k)' /\ SweepInv(k)'
    <3>1. CASE k = j
      <4>1. \A c : c \in dir'[k] => c \in dir[k]  BY <2>3, <3>1
      <4> QED  BY <2>1, <3>1, <4>1
    <3>2. CASE k # j  BY <2>1, <2>2, <3>2
    <3> QED  BY <3>1, <3>2
  <2>7. ASSUME NEW k \in EditJobs PROVE RequestInv(k)'
    <3>1. CASE k = j
      <4>1. ~known'[k] /\ (removalFailed'[k] <=> removalFailed[k])  BY <2>1, <3>1
      <4>2. "request.json" \in dir'[k] => "request.json" \in dir[k] /\ ~known[k]
        BY <2>3, <2>4, <3>1
      <4>3. RequestInv(k)  OBVIOUS
      <4> QED  BY <4>1, <4>2, <4>3
    <3>2. CASE k # j  BY <2>1, <2>2, <3>2
    <3> QED  BY <3>1, <3>2
  <2> QED  BY <2>5, <2>6, <2>7
<1>6. CASE CleanUpFails(j)  BY <1>6 DEF CleanUpFails
<1>7. CASE CrashEdit(j)  BY <1>7 DEF CrashEdit
<1>8. CASE SettleRow(j)  BY <1>8 DEF SettleRow
<1> QED  BY <1>1, <1>2, <1>3, <1>4, <1>5, <1>6, <1>7, <1>8

\* Discards and the cleanup.
LEMMA RemovalKeepsInv ==
  ASSUME WorkspaceInv,
         \/ \E j \in EditJobs : \/ CheckDiscard(j) \/ RemoveWorktree(j) \/ RemoveJobDir(j)
                                \/ DiscardFails(j) \/ Expire(j)
         \/ SelectCandidates \/ SpareRetained \/ DeleteRows
  PROVE  WorkspaceInv'
<1> USE DEF WorkspaceInv, WorkspaceTypeOK, JobInv, PreparationInv, StartedInv, DiscardInv,
            SweepInv, RequestInv, Put, NoDir, Steps, Contents, supervisorVars
<1>1. ASSUME NEW j \in EditJobs, CheckDiscard(j) PROVE WorkspaceInv'
  BY <1>1 DEF CheckDiscard, DiscardAnyJob
<1>2. ASSUME NEW j \in EditJobs, RemoveWorktree(j) PROVE WorkspaceInv'
  BY <1>2 DEF RemoveWorktree
<1>3. ASSUME NEW j \in EditJobs, RemoveJobDir(j) PROVE WorkspaceInv'
  BY <1>3 DEF RemoveJobDir
<1>4. ASSUME NEW j \in EditJobs, DiscardFails(j) PROVE WorkspaceInv'
  BY <1>4 DEF DiscardFails
<1>5. ASSUME NEW j \in EditJobs, Expire(j) PROVE WorkspaceInv'
  BY <1>5 DEF Expire
<1>6. CASE SelectCandidates  BY <1>6 DEF SelectCandidates
<1>7. CASE SpareRetained  BY <1>7 DEF SpareRetained
<1>8. CASE DeleteRows  BY <1>8 DEF DeleteRows
<1> QED  BY <1>1, <1>2, <1>3, <1>4, <1>5, <1>6, <1>7, <1>8

\* Every step preserves it.
LEMMA WorkspaceNextInv == WorkspaceInv /\ [WorkspaceNext]_workspaceVars => WorkspaceInv'
<1> SUFFICES ASSUME WorkspaceInv, [WorkspaceNext]_workspaceVars PROVE WorkspaceInv'
  OBVIOUS
<1>1. CASE UNCHANGED workspaceVars
  BY <1>1 DEF workspaceVars, WorkspaceInv, WorkspaceTypeOK, JobInv, PreparationInv,
              StartedInv, DiscardInv, SweepInv, RequestInv
<1>2. CASE WorkspaceNext
  BY <1>2, PreparationKeepsInv, WorkingKeepsInv, EndingKeepsInv, RemovalKeepsInv DEF WorkspaceNext
<1> QED  BY <1>1, <1>2

-----------------------------------------------------------------------------
(* The theorems. *)

\* The invariant holds throughout.
THEOREM WorkspaceInductive == WorkspaceSpec => []WorkspaceInv
BY WorkspaceInitInv, WorkspaceNextInv, PTL DEF WorkspaceSpec

\* Whatever the cleanup, discards and supervisors do to each other, and whenever
\* the retention elapses, the worktree of a job that ran stays reachable through
\* its row.
THEOREM WorktreesStayReachable == WorkspaceSpec => []StartedWorktreeKeepsRow
<1>1. WorkspaceInv => StartedWorktreeKeepsRow
  BY DEF WorkspaceInv, JobInv, SweepInv, StartedWorktreeKeepsRow, Reviewable
<1> QED  BY <1>1, WorkspaceInductive, PTL

\* A worker's edits disappear only by a confirmed discard of an ended job.
THEOREM EditsAreSafe == WorkspaceSpec => EditsVanishOnlyByDiscard
<1>1. ASSUME WorkspaceInv, [WorkspaceNext]_workspaceVars
      PROVE  [\A j \in EditJobs : "edits" \in dir[j] /\ "edits" \notin dir'[j]
                => discard[j] = "checked" /\ row[j] \notin {"queued", "running"}]_workspaceVars
  <2> USE DEF WorkspaceInv, WorkspaceTypeOK, JobInv, PreparationInv, DiscardInv, Put, NoDir
  <2>1. CASE UNCHANGED workspaceVars  BY <2>1
  <2>2. ASSUME NEW j \in EditJobs, MakeJobDir(j) \/ AddWorktree(j) \/ RollBack(j)
        PROVE  \A k \in EditJobs : "edits" \in dir[k] => "edits" \in dir'[k]
    BY <1>1, <2>2 DEF MakeJobDir, AddWorktree, RollBack, StepTo
  <2>3. ASSUME NEW j \in EditJobs,
               WriteRequest(j) \/ RollBackFails(j) \/ WorkerEdits(j) \/ CleanUpEdit(j)
        PROVE  \A k \in EditJobs : "edits" \in dir[k] => "edits" \in dir'[k]
    <3>1. CASE WriteRequest(j)  BY <1>1, <3>1 DEF WriteRequest, StepTo
    <3>2. CASE RollBackFails(j)
      <4>1. /\ \E content : dir' = [dir EXCEPT ![j] = content]
            /\ step[j] \in {"made", "added"}
        BY <3>2 DEF RollBackFails, StepTo
      <4>2. "edits" \notin dir[j] /\ dir \in [EditJobs -> SUBSET Contents]  BY <1>1, <4>1
      <4>3. \A k \in EditJobs \ {j} : dir'[k] = dir[k]  BY <4>1, <4>2
      <4> QED  BY <4>2, <4>3
    <3>3. CASE WorkerEdits(j)  BY <1>1, <3>3 DEF WorkerEdits
    <3>4. CASE CleanUpEdit(j)
      <4>1. UNCHANGED dir \/ dir' = [dir EXCEPT ![j] = dir[j] \ {"request.json"}]
        BY <3>4 DEF CleanUpEdit
      <4>2. "edits" \in dir[j] => "edits" \in dir[j] \ {"request.json"}  OBVIOUS
      <4>3. dir \in [EditJobs -> SUBSET Contents]  BY <1>1
      <4> QED  BY <4>1, <4>2, <4>3
    <3> QED  BY <2>3, <3>1, <3>2, <3>3, <3>4
  <2>4. ASSUME NEW j \in EditJobs, RemoveJobDir(j)
        PROVE  \A k \in EditJobs : "edits" \in dir[k] => "edits" \in dir'[k]
    BY <1>1, <2>4 DEF RemoveJobDir
  <2>5. ASSUME NEW j \in EditJobs, RemoveWorktree(j), NEW k \in EditJobs,
               "edits" \in dir[k], "edits" \notin dir'[k]
        PROVE  discard[k] = "checked" /\ row[k] \notin {"queued", "running"}
    BY <1>1, <2>5 DEF RemoveWorktree
  <2>6. ASSUME NEW j \in EditJobs,
               \/ RefuseEdit(j) \/ SpawnEdit(j) \/ SpawnFails(j) \/ StartEdit(j)
               \/ EditNotStarted(j) \/ WorkerEnds(j) \/ FinishEdit(j) \/ CollectDiff(j)
               \/ FailEdit(j) \/ InterruptEdit(j) \/ CleanUpFails(j) \/ CrashEdit(j)
               \/ SettleRow(j) \/ CheckDiscard(j) \/ DiscardFails(j) \/ Expire(j)
        PROVE  UNCHANGED dir
    BY <2>6 DEF RefuseEdit, SpawnEdit, SpawnFails, StartEdit, EditNotStarted, WorkerEnds,
                FinishEdit, CollectDiff, FailEdit, InterruptEdit, CleanUpFails, CrashEdit,
                SettleRow, CheckDiscard, DiscardAnyJob, DiscardFails, Expire
  <2>7. CASE SelectCandidates \/ SpareRetained \/ DeleteRows
    BY <2>7 DEF SelectCandidates, SpareRetained, DeleteRows
  <2> QED
    BY <1>1, <2>1, <2>2, <2>3, <2>4, <2>5, <2>6, <2>7 DEF WorkspaceNext
<1> QED
  BY <1>1, WorkspaceInductive, PTL DEF WorkspaceSpec, EditsVanishOnlyByDiscard

\* A supervisor that returns leaves the request's text behind only if the removal
\* failed.
THEOREM RequestsAreRemoved == WorkspaceSpec => []RequestTextRemoved
<1>1. WorkspaceInv => RequestTextRemoved
  BY DEF WorkspaceInv, JobInv, RequestInv, RequestTextRemoved
<1> QED  BY <1>1, WorkspaceInductive, PTL

-----------------------------------------------------------------------------
(* The file broker of an editing worker. *)

\* The paths before and up to a path of one or two components.
LEMMA ShortPaths ==
  ASSUME NEW a, NEW b
  PROVE  /\ Before(<<a>>) = {} /\ UpTo(<<a>>) = {<<a>>}
         /\ Before(<<a, b>>) = {<<a>>} /\ UpTo(<<a, b>>) = {<<a>>, <<a, b>>}
<1>0. <<a>> \in Seq({a, b}) /\ <<a, b>> \in Seq({a, b})
  OBVIOUS
<1>1. Len(<<a>>) = 1 /\ Len(<<a, b>>) = 2
  OBVIOUS
<1>2. SubSeq(<<a>>, 1, Len(<<a>>)) = <<a>> /\ SubSeq(<<a, b>>, 1, Len(<<a, b>>)) = <<a, b>>
  BY <1>0, SubSeqFull, Zenon
<1>3. SubSeq(<<a, b>>, 1, 1) = <<a>>
  <2> DEFINE s == <<a, b>>
             t == SubSeq(s, 1, 1)
  <2>1. \A i \in 1 .. 1 : s[i] \in {a, b}
    OBVIOUS
  <2> HIDE DEF s
  <2>2. t \in Seq({a, b}) /\ Len(t) = 1 /\ \A i \in 1 .. 1 : t[i] = s[i]
    BY <2>1, SubSeqProperties
  <2> HIDE DEF t
  <2>3. t[1] = a  BY <2>2 DEF s
  <2>4. \A i \in 1 .. Len(t) : t[i] = <<a>>[i]
    BY <2>2, <2>3
  <2>5. t = <<a>>  BY <1>0, <1>1, <2>2, <2>4, SeqEqual
  <2> QED  BY <2>5 DEF t, s
<1>4. 1 .. 1 - 1 = {} /\ 1 .. 1 = {1} /\ 1 .. 2 - 1 = {1} /\ 1 .. 2 = {1, 2}
  OBVIOUS
<1>5. Before(<<a>>) = {}  BY <1>1, <1>4 DEF Before
<1>6. Before(<<a, b>>) = {SubSeq(<<a, b>>, 1, k) : k \in {1}}  BY <1>1, <1>4 DEF Before
<1>7. UpTo(<<a>>) = {SubSeq(<<a>>, 1, k) : k \in {1}}  BY <1>1, <1>4 DEF UpTo
<1>8. UpTo(<<a, b>>) = {SubSeq(<<a, b>>, 1, k) : k \in {1, 2}}  BY <1>1, <1>4 DEF UpTo
<1> QED  BY <1>1, <1>2, <1>3, <1>5, <1>6, <1>7, <1>8, Zenon

\* What is used of paths: the way to one.
LEMMA TheWay ==
  ASSUME NEW p \in TreePaths
  PROVE  /\ Before(p) \subseteq TreePaths /\ p \notin Before(p) /\ UpTo(p) = Before(p) \cup {p}
         /\ \A d \in Before(p) : Before(d) = {}
         /\ SafeRel(p) => \A d \in Before(p) : SafeRel(d)
<1>1. ASSUME NEW a \in Names, p = <<a>>
      PROVE  Before(p) = {} /\ UpTo(p) = {p}
  BY <1>1, ShortPaths, Zenon
<1>2. ASSUME NEW a \in Names, NEW b \in Names, p = <<a, b>>
      PROVE  /\ Before(p) = {<<a>>} /\ UpTo(p) = {<<a>>, p} /\ Before(<<a>>) = {}
             /\ <<a>> \in TreePaths /\ p # <<a>>
             /\ SafeRel(p) => SafeRel(<<a>>)
  <2>1. Before(p) = {<<a>>} /\ UpTo(p) = {<<a>>, p} /\ Before(<<a>>) = {}
    BY <1>2, ShortPaths, Zenon
  <2>2. <<a>> \in TreePaths /\ p # <<a>>
    BY <1>2 DEF TreePaths
  <2>3. SafeRel(p) => SafeRel(<<a>>)
    BY <1>2 DEF SafeRel
  <2> QED  BY <2>1, <2>2, <2>3
<1>3. \/ \E a \in Names : p = <<a>>
      \/ \E a, b \in Names : p = <<a, b>>
  BY DEF TreePaths
<1>4. CASE \E a \in Names : p = <<a>>
  BY <1>1, <1>4
<1>5. CASE \E a, b \in Names : p = <<a, b>>
  <2>1. PICK a \in Names, b \in Names : p = <<a, b>>
    BY <1>5
  <2> QED  BY <1>2, <2>1
<1> QED  BY <1>3, <1>4, <1>5

\* A path of plain components lies in the worktree.
LEMMA PlainPaths ==
  ASSUME NEW p \in AskedPaths, SafeRel(p), p # <<>>
  PROVE  p \in TreePaths /\ \A k \in DOMAIN p : p[k] \notin SensitiveNames
<1>1. CASE p = <<"..", "outside">>
  <2>1. p[1] \in Names /\ p[2] \in Names
    BY <1>1 DEF SafeRel, Names
  <2> QED  BY <1>1, <2>1, BrokerAssumption DEF TreePaths, SafeRel
<1>2. CASE p \in TreePaths
  BY <1>2, BrokerAssumption DEF SafeRel
<1> QED  BY <1>1, <1>2 DEF AskedPaths

\* Between opening and writing a file: it is a file of the worktree, and no link is
\* on the way to it.
BrokerInv ==
  /\ tree \in [TreePaths -> Entries]
  /\ doing \in {"idle", "writing"}
  /\ doing = "writing" =>
       /\ call.tool \in {"write_file", "replace_in_file"}
       /\ call.path \in AskedPaths \ {<<>>} /\ SafeRel(call.path)
       /\ \A d \in Before(call.path) : tree[d] # "link"
       /\ tree[call.path] = "empty"

\* What making the parents changes.
LEMMA Parents ==
  ASSUME BrokerInv, NEW p \in AskedPaths, ParentSafe(p)
  PROVE  /\ p \in TreePaths
         /\ WithParents(p) \in [TreePaths -> Entries]
         /\ WithParents(p)[p] = tree[p]
         /\ \A d \in Before(p) : WithParents(p)[d] = "directory"
         /\ \A q \in TreePaths : WithParents(p)[q] # tree[q] =>
               q \in Before(p) /\ tree[q] = "absent" /\ WithParents(p)[q] = "directory"
<1>1. p \in TreePaths  BY PlainPaths DEF ParentSafe
<1>2. Before(p) \subseteq TreePaths /\ p \notin Before(p)  BY <1>1, TheWay
<1> QED  BY <1>1, <1>2 DEF BrokerInv, ParentSafe, WithParents, Entries

\* A path on the way to a plain one may be written: no sensitive name, no link.
Unrestricted(p) ==
  /\ \A k \in DOMAIN p : p[k] \notin SensitiveNames
  /\ \A d \in Before(p) : tree[d] # "link"

\* Whatever is on a way the parents of which may be made.
LEMMA WayUnrestricted ==
  ASSUME BrokerInv, NEW p \in AskedPaths, ParentSafe(p)
  PROVE  Unrestricted(p) /\ \A d \in Before(p) : Unrestricted(d)
<1>1. p \in TreePaths /\ Unrestricted(p)
  BY PlainPaths DEF ParentSafe, Unrestricted
<1>2. ASSUME NEW d \in Before(p) PROVE Unrestricted(d)
  <2>1. d \in TreePaths /\ SafeRel(d) /\ Before(d) = {}
    BY <1>1, TheWay DEF ParentSafe
  <2> QED  BY <2>1, BrokerAssumption DEF Unrestricted, SafeRel
<1> QED  BY <1>1, <1>2

\* The three parts of BrokerConfined.
Touched ==
  \A p \in TreePaths : tree'[p] # tree[p] =>
    /\ Unrestricted(p)
    /\ \/ p = call'.path /\ tree[p] \in Files \cup {"absent"}
       \/ p \in Before(call'.path) /\ tree[p] = "absent" /\ tree'[p] = "directory"

RejectedKeeps ==
  answer' = "rejected" => \A p \in TreePaths : tree[p] \in Files => tree'[p] = tree[p]

ListedReadable ==
  call'.tool = "list_files" /\ answer' = "ok" =>
    \A p \in Listed(call'.path) : tree[p] = "unreadable" \/ Readable(p)

\* What is listed can be read, whatever directory the listing starts from.
LEMMA ListedMeansReadable ==
  ASSUME NEW start, NEW p \in Listed(start)
  PROVE  tree[p] = "unreadable" \/ Readable(p)
<1>1. /\ p \in TreePaths /\ SafeRel(p) /\ tree[p] \in Files
      /\ \A d \in Before(p) : tree[d] = "directory"
  BY DEF Listed
<1>2. UpTo(p) = Before(p) \cup {p}  BY <1>1, TheWay
<1>3. p # <<>>  BY <1>1 DEF TreePaths
<1> QED  BY <1>1, <1>2, <1>3 DEF Readable, SafeTarget, IsFile, Files

\* Every step of the broker keeps the invariant and to its part of the property.
LEMMA BrokerStep ==
  ASSUME BrokerInv, BrokerNext
  PROVE  BrokerInv' /\ Touched /\ RejectedKeeps /\ ListedReadable
<1>1. CASE HandleRead \/ RefuseWrite
  BY <1>1, ListedMeansReadable
  DEF HandleRead, RefuseWrite, Ask, BrokerInv, Touched, RejectedKeeps, ListedReadable
<1>2. CASE MakeParentsOnly
  <2>1. PICK p \in AskedPaths :
          /\ doing = "idle" /\ doing' = "idle" /\ ParentSafe(p) /\ answer' = "rejected"
          /\ call' = [tool |-> "write_file", path |-> p] /\ tree' = WithParents(p)
    BY <1>2 DEF MakeParentsOnly, Ask
  <2>2. BrokerInv'  BY <2>1, Parents DEF BrokerInv
  <2>3. Touched  BY <2>1, Parents, WayUnrestricted DEF Touched
  <2>4. RejectedKeeps /\ ListedReadable
    BY <2>1, Parents DEF RejectedKeeps, ListedReadable, Files
  <2> QED  BY <2>2, <2>3, <2>4
<1>3. CASE OpenFile
  <2>1. PICK tool \in {"write_file", "replace_in_file"}, p \in AskedPaths :
          /\ ParentSafe(p) /\ Writable(p) /\ doing' = "writing" /\ answer' = "none"
          /\ call' = [tool |-> tool, path |-> p]
          /\ tree' = [WithParents(p) EXCEPT ![p] = "empty"]
    BY <1>3 DEF OpenFile, Ask
  <2>2. p \in TreePaths /\ p \notin Before(p) /\ Before(p) \subseteq TreePaths
    BY <2>1, Parents, TheWay
  <2>3. /\ tree' \in [TreePaths -> Entries] /\ tree'[p] = "empty"
        /\ \A q \in TreePaths : q # p => tree'[q] = WithParents(p)[q]
    BY <2>1, <2>2, Parents DEF Entries, Files
  <2>4. BrokerInv'
    BY <2>1, <2>2, <2>3, Parents DEF BrokerInv, ParentSafe
  <2>5. Touched
    BY <2>1, <2>2, <2>3, Parents, WayUnrestricted DEF Touched, Writable
  <2>6. RejectedKeeps /\ ListedReadable
    BY <2>1 DEF RejectedKeeps, ListedReadable
  <2> QED  BY <2>4, <2>5, <2>6
<1>4. CASE WriteFile
  <2>1. /\ doing' = "idle" /\ answer' = "ok" /\ call' = call
        /\ \E new \in {"written", "replaced"} : tree' = [tree EXCEPT ![call.path] = new]
    BY <1>4 DEF WriteFile
  <2>2. /\ call.tool \in {"write_file", "replace_in_file"} /\ tree[call.path] = "empty"
        /\ call.path \in AskedPaths \ {<<>>} /\ SafeRel(call.path)
        /\ \A d \in Before(call.path) : tree[d] # "link"
    BY <1>4 DEF WriteFile, BrokerInv
  <2>3. BrokerInv'
    BY <2>1, <2>2 DEF BrokerInv, Entries, Files
  <2>4. Unrestricted(call.path)
    BY <2>2, PlainPaths DEF Unrestricted
  <2>5. Touched
    BY <2>1, <2>2, <2>4 DEF Touched, BrokerInv, Files
  <2>6. RejectedKeeps /\ ListedReadable
    BY <2>1, <2>2 DEF RejectedKeeps, ListedReadable
  <2> QED  BY <2>3, <2>5, <2>6
<1>5. CASE WriteFileFails
  BY <1>5 DEF WriteFileFails, BrokerInv, Touched, RejectedKeeps, ListedReadable
<1> QED  BY <1>1, <1>2, <1>3, <1>4, <1>5 DEF BrokerNext

\* The broker keeps a worker to its worktree: no file with a sensitive name, none
\* behind a link, none but the one it names.
THEOREM BrokerStaysInside == BrokerSpec => BrokerConfined
<1>1. BrokerInit => BrokerInv
  BY BrokerAssumption DEF BrokerInit, BrokerInv
<1>2. BrokerInv /\ [BrokerNext]_brokerVars => BrokerInv'
  <2>1. BrokerInv /\ UNCHANGED brokerVars => BrokerInv'
    BY DEF BrokerInv, brokerVars
  <2> QED  BY <2>1, BrokerStep
<1>3. BrokerInv /\ [BrokerNext]_brokerVars =>
        [Touched /\ RejectedKeeps /\ ListedReadable]_brokerVars
  BY BrokerStep
<1>4. [Touched /\ RejectedKeeps /\ ListedReadable]_brokerVars =>
        [/\ \A p \in TreePaths : tree'[p] # tree[p] =>
              /\ \A k \in DOMAIN p : p[k] \notin SensitiveNames
              /\ \A d \in Before(p) : tree[d] # "link"
              /\ \/ p = call'.path /\ tree[p] \in Files \cup {"absent"}
                 \/ p \in Before(call'.path) /\ tree[p] = "absent" /\ tree'[p] = "directory"
         /\ answer' = "rejected" => \A p \in TreePaths : tree[p] \in Files => tree'[p] = tree[p]
         /\ call'.tool = "list_files" /\ answer' = "ok" =>
              \A p \in Listed(call'.path) : tree[p] = "unreadable" \/ Readable(p)]_brokerVars
  BY Zenon DEF Touched, RejectedKeeps, ListedReadable, Unrestricted
<1> QED  BY <1>1, <1>2, <1>3, <1>4, PTL DEF BrokerSpec, BrokerConfined

=============================================================================
