----------------------------- MODULE WorkerLaunch -----------------------------
(***************************************************************************)
(* From a request to the running worker CLI: what Supervisor.run hands     *)
(* from step to step (ai_router/request.py, workers/qwen.py, workers/      *)
(* kimi.py) and the Landlock wrapper of isolated edits (bin/               *)
(* sandbox_exec.py, ai_router/landlock.py).  While a job waits, the user   *)
(* may save other settings and edit the worker's own configuration.  The   *)
(* waiting, the row and the job directory are in Supervisor and            *)
(* EditWorkspace.                                                          *)
(***************************************************************************)
EXTENDS Integers, Sequences, SequencesExt

CONSTANTS
  Limit,         \* MAX_TOOL_CALLS_LIMIT
  ReadOnlyBudget \* READ_ONLY_QWEN_BUDGET

ASSUME LaunchAssumption == Limit \in Nat /\ ReadOnlyBudget \in Nat

VARIABLES
  request,  \* what the command submitted: worker, mode, budget, isTest
  landlock, \* the kernel has Landlock
  stage,    \* control point
  saved,    \* saved settings: coding preset and model profile
  config,   \* the worker's own configuration: endpoint of each model, and the active pair
  model,    \* adapter.requested_model
  budget,   \* launch_request.max_tool_calls
  command,  \* the built command: model, budget and write roots of the wrapper
  applied,  \* what sandbox_exec.py has done so far, in order
  presets,  \* history: the presets in force since the request was submitted
  vetted    \* history: the models verifiable since the slot was taken

launchVars == <<request, landlock, stage, saved, config, model, budget, command, applied,
                presets, vetted>>

Omitted == -3
Unlimited == -1

Models == {"default", "other"}
WriteRoots == {"job directory", "credentials"}

Presets == {Unlimited} \cup 0 .. Limit

\* "keyed" is the reviewed endpoint with a static key in the worker's own entry
Configs == [endpoint : [Models -> {"reviewed", "keyed", "other"}], activeIsReviewed : BOOLEAN]

NoCommand == [model |-> "default", budget |-> Omitted, roots |-> <<"not built">>]

\* delegate and run send what the user asks for, test sends a read-only request
\* with budget 0
Requests ==
  {r \in [worker : {"qwen", "kimi"}, mode : {"read-only", "isolated-edit"},
          budget : {Omitted, Unlimited, -2} \cup 0 .. Limit + 1, isTest : BOOLEAN] :
     r.isTest => r.mode = "read-only" /\ r.budget = IF r.worker = "qwen" THEN 0 ELSE Omitted}

LaunchInit ==
  /\ request \in Requests
  /\ landlock \in BOOLEAN
  /\ stage = "submitted"
  /\ saved \in [preset : Presets, profile : Models]
  /\ config \in Configs
  /\ model = "default"
  /\ budget = Omitted
  /\ command = NoCommand
  /\ applied = <<>>
  /\ presets = {saved.preset}
  /\ vetted = {}

-----------------------------------------------------------------------------
\* What the adapters accept

\* parse_request: Kimi has no budget; Qwen's is -1 or 0 .. Limit
Acceptable(r) ==
  r.budget = Omitted \/ (r.worker = "qwen" /\ r.budget \in Presets)

\* qwen.verified_model_profiles: the entries on the Token Plan endpoint
QwenProfiles == {m \in Models : config.endpoint[m] # "other"}

\* kimi.verified_model_profiles: the aliases of a managed, keyless provider on its
\* endpoint
KimiProfiles == {m \in Models : config.endpoint[m] = "reviewed"}

\* QwenAdapter.configuration_info: the active model and endpoint, and the one
\* entry of that model, are the reviewed ones
QwenReviewed == config.activeIsReviewed /\ "default" \in QwenProfiles

QwenSelects(m) == m \in QwenProfiles

\* Kimi's reviewed default needs no discovery
KimiSelects(m) == m = "default" \/ m \in KimiProfiles

QwenVerifies(m) == QwenReviewed /\ (m = "default" \/ m \in QwenProfiles)

KimiVerifies(m) == m = "default" \/ m \in KimiProfiles

Profiles == IF request.worker = "qwen" THEN QwenProfiles ELSE KimiProfiles

\* validate_model_profile_selection: without discovery only the default
SelectableProfiles == IF Profiles = {} THEN {"default"} ELSE Profiles

\* build_command of each adapter: budget and write roots of the wrapped command
QwenCommand ==
  [model |-> model,
   budget |-> IF budget # Omitted THEN budget
              ELSE IF request.mode = "isolated-edit" THEN Unlimited ELSE ReadOnlyBudget,
   roots |-> IF request.mode = "isolated-edit" THEN <<"job directory">> ELSE <<>>]

KimiCommand ==
  [model |-> model, budget |-> Omitted,
   roots |-> IF request.mode = "isolated-edit" THEN <<"job directory", "credentials">>
             ELSE <<>>]

-----------------------------------------------------------------------------
\* Supervisor.run

Advance(here, there) ==
  /\ stage = here
  /\ stage' = there

settingVars == <<request, landlock, saved, config, presets>>

ParseRequest ==
  /\ Advance("submitted", IF Acceptable(request) THEN "parsed" ELSE "rejected")
  /\ budget' = request.budget
  /\ UNCHANGED <<settingVars, model, command, applied, vetted>>

\* _select_model_profile, then create_job records the model
SelectModel ==
  /\ stage = "parsed"
  /\ IF request.worker = "qwen" THEN QwenSelects(saved.profile) ELSE KimiSelects(saved.profile)
  /\ stage' = "queued"
  /\ model' = saved.profile
  /\ UNCHANGED <<settingVars, budget, command, applied, vetted>>

SlotTaken ==
  /\ Advance("queued", "holding")
  /\ vetted' = Profiles
  /\ UNCHANGED <<settingVars, model, budget, command, applied>>

\* prepare_request: an edit needs Landlock and, for Qwen, the reviewed configuration
PrepareLaunch ==
  /\ request.mode = "isolated-edit" =>
       landlock /\ (request.worker = "qwen" => QwenReviewed)
  /\ Advance("holding", "prepared")
  /\ UNCHANGED <<settingVars, model, budget, command, applied, vetted>>

\* Seeded fault: an explicit budget of 0 is taken for an omitted one
ResolveBudgetFalsy ==
  /\ Advance("prepared", "resolved")
  /\ budget' = IF /\ request.worker = "qwen"
                  /\ request.mode = "isolated-edit"
                  /\ ~request.isTest
                  /\ budget \in {Omitted, 0}
               THEN saved.preset
               ELSE budget
  /\ UNCHANGED <<settingVars, model, command, applied, vetted>>

\* run: the saved coding preset where the request has no budget
ResolveBudget ==
  /\ Advance("prepared", "resolved")
  /\ budget' = IF /\ request.worker = "qwen"
                  /\ request.mode = "isolated-edit"
                  /\ ~request.isTest
                  /\ budget = Omitted
               THEN saved.preset
               ELSE budget
  /\ UNCHANGED <<settingVars, model, command, applied, vetted>>

\* Seeded fault: the model is not verified again after the wait
BuildUnverified ==
  /\ Advance("resolved", "built")
  /\ command' = IF request.worker = "qwen" THEN QwenCommand ELSE KimiCommand
  /\ UNCHANGED <<settingVars, model, budget, applied, vetted>>

\* build_command: the selected model is verified again
BuildCommand ==
  /\ IF request.worker = "qwen" THEN QwenVerifies(model) ELSE KimiVerifies(model)
  /\ BuildUnverified

\* Popen: the worker itself, or the wrapper of an isolated edit
Spawn ==
  /\ Advance("built", IF command.roots = <<>> THEN "working" ELSE "sandbox")
  /\ UNCHANGED <<settingVars, model, budget, command, applied, vetted>>

\* An adapter check, a settings error or the OS stops the launch; the job fails
Refuse ==
  /\ stage \in {"parsed", "queued", "holding", "prepared", "resolved", "built"}
  /\ stage' = "failed"
  /\ UNCHANGED <<settingVars, model, budget, command, applied, vetted>>

-----------------------------------------------------------------------------
\* sandbox_exec.py

\* restrict_writes, step by step
SandboxSteps == <<"ruleset">> \o command.roots \o <<"no_new_privs", "active">>

RestrictStep ==
  /\ stage = "sandbox"
  /\ landlock
  /\ Len(applied) < Len(SandboxSteps)
  /\ applied' = Append(applied, SandboxSteps[Len(applied) + 1])
  /\ UNCHANGED <<settingVars, stage, model, budget, command, vetted>>

\* Seeded fault: the worker runs although a step of restrict_writes failed
RestrictFailsOpen ==
  /\ Len(applied) < Len(SandboxSteps)
  /\ Advance("sandbox", "working")
  /\ UNCHANGED <<settingVars, model, budget, command, applied, vetted>>

\* LandlockUnavailable or OSError: the wrapper exits without the worker
RestrictFails ==
  /\ Len(applied) < Len(SandboxSteps)
  /\ Advance("sandbox", "failed")
  /\ UNCHANGED <<settingVars, model, budget, command, applied, vetted>>

Exec ==
  /\ applied = SandboxSteps
  /\ Advance("sandbox", "working")
  /\ UNCHANGED <<settingVars, model, budget, command, applied, vetted>>

-----------------------------------------------------------------------------
\* Outside

Waiting == stage \notin {"working", "failed", "rejected", "sandbox"}

\* the dashboard or `ai-worker settings` saves; a profile must be selectable then
SaveSettings ==
  /\ Waiting
  /\ \E preset \in Presets, profile \in Models :
       /\ profile \in {saved.profile} \cup SelectableProfiles
       /\ saved' = [preset |-> preset, profile |-> profile]
       /\ presets' = presets \cup {preset}
  /\ UNCHANGED <<request, landlock, stage, config, model, budget, command, applied, vetted>>

\* the user or the CLI rewrites the worker's configuration
EditConfiguration ==
  /\ Waiting
  /\ config' \in Configs
  /\ UNCHANGED <<request, landlock, stage, saved, model, budget, command, applied, presets>>
  /\ vetted' = IF stage \in {"submitted", "parsed", "queued"} THEN {}
               ELSE vetted \cup Profiles'

LaunchNext ==
  \/ ParseRequest \/ SelectModel \/ SlotTaken \/ PrepareLaunch \/ ResolveBudget
  \/ BuildCommand \/ Spawn \/ Refuse
  \/ RestrictStep \/ RestrictFails \/ Exec
  \/ SaveSettings \/ EditConfiguration

LaunchSpec == LaunchInit /\ [][LaunchNext]_launchVars

-----------------------------------------------------------------------------

\* The CLI runs with the budget the user asked for, 0 and -1 included; without
\* one, an isolated edit gets a preset that was in force between its submission
\* and its launch, and a read-only job the fixed small budget.
BudgetReachesWorker ==
  stage = "working" /\ request.worker = "qwen" =>
    IF request.budget # Omitted THEN command.budget = request.budget
    ELSE IF request.mode = "isolated-edit" THEN command.budget \in presets
    ELSE command.budget = ReadOnlyBudget

\* An isolated edit runs only under an active ruleset whose writable roots are
\* its job directory and, for Kimi, its credentials: any failing step of the
\* confinement, and any missing kernel support, ends the job instead.
EditRunsConfined ==
  stage = "working" /\ request.mode = "isolated-edit" =>
    /\ landlock
    /\ {"ruleset", "no_new_privs", "active"} \subseteq ToSet(applied)
    /\ ToSet(applied) \cap WriteRoots =
         {"job directory"} \cup (IF request.worker = "kimi" THEN {"credentials"} ELSE {})

\* However long a job waited for its slot and whatever happened to the worker's
\* configuration meanwhile, its CLI runs the model its row names, and that model
\* was on its reviewed endpoint after the wait; only Kimi's default is exempt.
ModelVerifiedAfterWaiting ==
  stage = "working" =>
    /\ command.model = model
    /\ command.model \in vetted \/ (request.worker = "kimi" /\ command.model = "default")

=============================================================================
