----------------------------- MODULE LaunchProofs -----------------------------
(***************************************************************************)
(* Theorems about WorkerLaunch, for every budget limit: what a waiting job *)
(* hands from step to step arrives at its worker.                          *)
(***************************************************************************)
EXTENDS WorkerLaunch, TLAPS

Stages ==
  {"submitted", "rejected", "parsed", "queued", "holding", "prepared", "resolved", "built",
   "sandbox", "working", "failed"}

LaunchTypeOK ==
  /\ request \in Requests
  /\ stage \in Stages
  /\ saved \in [preset : Presets, profile : Models]
  /\ model \in Models

\* The budget on its way: as submitted, resolved against the presets, in the command.
BudgetInv ==
  /\ saved.preset \in presets
  /\ stage \in {"parsed", "queued", "holding", "prepared"} => budget = request.budget
  /\ stage = "resolved" /\ request.worker = "qwen" =>
       IF request.budget # Omitted THEN budget = request.budget
       ELSE IF request.mode = "isolated-edit" THEN budget \in presets \cap Presets
       ELSE budget = Omitted
  /\ stage \in {"built", "sandbox", "working"} /\ request.worker = "qwen" =>
       IF request.budget # Omitted THEN command.budget = request.budget
       ELSE IF request.mode = "isolated-edit" THEN command.budget \in presets
       ELSE command.budget = ReadOnlyBudget

\* What can be verified now has been seen since the slot was taken; what was
\* verified for the command stays with it.
ModelInv ==
  /\ stage \in {"holding", "prepared", "resolved", "built"} => Profiles \subseteq vetted
  /\ stage \in {"built", "sandbox", "working"} =>
       /\ command.model = model
       /\ command.model \in vetted \/ (request.worker = "kimi" /\ command.model = "default")

\* The write roots of an isolated edit
Roots == IF request.worker = "qwen" THEN <<"job directory">>
         ELSE <<"job directory", "credentials">>

\* An edit that passed its preparation has kernel support, its command goes through
\* the wrapper with those roots, and its worker runs after the last step only.
ConfinedInv ==
  request.mode = "isolated-edit" =>
    /\ stage \in {"prepared", "resolved", "built", "sandbox", "working"} => landlock
    /\ stage \in {"built", "sandbox", "working"} => command.roots = Roots
    /\ stage = "working" => applied = SandboxSteps

-----------------------------------------------------------------------------

\* No preset is taken for an omitted budget.
LEMMA PresetsAreExplicit == \A p \in Presets : p # Omitted
BY LaunchAssumption DEF Presets, Omitted, Unlimited

\* The type invariant.
LEMMA LaunchTyping == LaunchSpec => []LaunchTypeOK
<1>1. LaunchInit => LaunchTypeOK
  BY DEF LaunchInit, LaunchTypeOK, Stages, Models
<1>2. LaunchTypeOK /\ [LaunchNext]_launchVars => LaunchTypeOK'
  <2> SUFFICES ASSUME LaunchTypeOK, [LaunchNext]_launchVars PROVE LaunchTypeOK'
    OBVIOUS
  <2> USE DEF LaunchTypeOK, Stages, Advance, settingVars
  <2>1. CASE UNCHANGED launchVars  BY <2>1 DEF launchVars
  <2>2. CASE ParseRequest \/ SelectModel \/ SlotTaken \/ PrepareLaunch
    BY <2>2 DEF ParseRequest, SelectModel, SlotTaken, PrepareLaunch
  <2>3. CASE ResolveBudget \/ BuildCommand \/ Spawn \/ Refuse
    BY <2>3 DEF ResolveBudget, BuildCommand, BuildUnverified, Spawn, Refuse
  <2>4. CASE RestrictStep \/ RestrictFails \/ Exec
    BY <2>4 DEF RestrictStep, RestrictFails, Exec
  <2>5. CASE SaveSettings \/ EditConfiguration
    BY <2>5 DEF SaveSettings, EditConfiguration
  <2> QED  BY <2>1, <2>2, <2>3, <2>4, <2>5 DEF LaunchNext
<1> QED  BY <1>1, <1>2, PTL DEF LaunchSpec

\* Every step carries the budget on.
LEMMA BudgetStep == LaunchTypeOK /\ BudgetInv /\ [LaunchNext]_launchVars => BudgetInv'
<1> SUFFICES ASSUME LaunchTypeOK, BudgetInv, [LaunchNext]_launchVars PROVE BudgetInv'
  OBVIOUS
<1> USE DEF BudgetInv, Advance, settingVars
<1>1. CASE UNCHANGED launchVars  BY <1>1 DEF launchVars
<1>2. CASE ParseRequest \/ SelectModel \/ SlotTaken \/ PrepareLaunch
  BY <1>2 DEF ParseRequest, SelectModel, SlotTaken, PrepareLaunch
<1>3. CASE ResolveBudget
  <2>1. request.isTest => request.mode = "read-only"
    BY DEF LaunchTypeOK, Requests
  <2>2. saved.preset \in presets \cap Presets
    BY DEF LaunchTypeOK
  <2> QED  BY <1>3, <2>1, <2>2 DEF ResolveBudget
<1>4. CASE BuildCommand
  <2>1. request.worker = "qwen" => command' = QwenCommand
    BY <1>4 DEF BuildCommand, BuildUnverified
  <2>2. stage = "resolved" /\ stage' = "built"
        /\ UNCHANGED <<request, saved, presets, budget>>
    BY <1>4 DEF BuildCommand, BuildUnverified
  <2>3. request.mode \in {"read-only", "isolated-edit"}
    BY DEF LaunchTypeOK, Requests
  <2>4. request.worker = "qwen" =>
          command'.budget = IF budget # Omitted THEN budget
                            ELSE IF request.mode = "isolated-edit" THEN Unlimited
                            ELSE ReadOnlyBudget
    <3>1. QwenCommand.budget = IF budget # Omitted THEN budget
                               ELSE IF request.mode = "isolated-edit" THEN Unlimited
                               ELSE ReadOnlyBudget
      BY Zenon DEF QwenCommand
    <3> QED  BY <2>1, <3>1
  <2>5. CASE request.budget # Omitted  BY <2>2, <2>4, <2>5
  <2>6. CASE request.budget = Omitted /\ request.mode = "isolated-edit"
    <3>1. request.worker = "qwen" => budget \in presets /\ budget # Omitted
      BY <2>2, <2>6, PresetsAreExplicit
    <3> QED  BY <2>2, <2>4, <2>6, <3>1
  <2>7. CASE request.budget = Omitted /\ request.mode = "read-only"
    BY <2>2, <2>4, <2>7
  <2> QED  BY <2>3, <2>5, <2>6, <2>7
<1>5. CASE Spawn \/ Refuse \/ RestrictStep \/ RestrictFails \/ Exec
  BY <1>5 DEF Spawn, Refuse, RestrictStep, RestrictFails, Exec
<1>6. CASE SaveSettings \/ EditConfiguration
  BY <1>6 DEF SaveSettings, EditConfiguration, Waiting
<1> QED  BY <1>1, <1>2, <1>3, <1>4, <1>5, <1>6 DEF LaunchNext

\* Every step keeps the verification of the model.
LEMMA ModelStep == LaunchTypeOK /\ ModelInv /\ [LaunchNext]_launchVars => ModelInv'
<1> SUFFICES ASSUME LaunchTypeOK, ModelInv, [LaunchNext]_launchVars PROVE ModelInv'
  OBVIOUS
<1> USE DEF ModelInv, Advance, settingVars
<1>1. CASE UNCHANGED launchVars
  BY <1>1 DEF launchVars, Profiles, QwenProfiles, KimiProfiles
<1>2. CASE ParseRequest \/ SelectModel \/ SlotTaken \/ PrepareLaunch \/ ResolveBudget
  BY <1>2 DEF ParseRequest, SelectModel, SlotTaken, PrepareLaunch, ResolveBudget, Profiles,
              QwenProfiles, KimiProfiles
<1>3. CASE BuildCommand
  <2>1. model \in Profiles \/ (request.worker = "kimi" /\ model = "default")
    BY <1>3 DEF BuildCommand, QwenVerifies, QwenReviewed, KimiVerifies, Profiles, LaunchTypeOK,
                Requests
  <2>2. command'.model = model /\ UNCHANGED <<request, config, model, vetted>>
    BY <1>3 DEF BuildCommand, BuildUnverified, QwenCommand, KimiCommand
  <2>3. Profiles' = Profiles
    BY <2>2 DEF Profiles, QwenProfiles, KimiProfiles
  <2>4. stage = "resolved" /\ stage' = "built"
    BY <1>3 DEF BuildCommand, BuildUnverified
  <2> QED  BY <2>1, <2>2, <2>3, <2>4
<1>4. CASE Spawn \/ Refuse \/ RestrictStep \/ RestrictFails \/ Exec
  BY <1>4 DEF Spawn, Refuse, RestrictStep, RestrictFails, Exec
<1>5. CASE SaveSettings
  <2>1. Profiles' = Profiles
    BY <1>5 DEF SaveSettings, Profiles, QwenProfiles, KimiProfiles
  <2> QED  BY <1>5, <2>1 DEF SaveSettings
<1>6. CASE EditConfiguration
  <2>1. stage \in {"holding", "prepared", "resolved", "built"} =>
          vetted' = vetted \cup Profiles'
    BY <1>6 DEF EditConfiguration
  <2>2. stage' = stage /\ UNCHANGED <<request, model, command>>
        /\ stage \notin {"sandbox", "working"}
    BY <1>6 DEF EditConfiguration, Waiting
  <2> QED  BY <2>1, <2>2
<1> QED  BY <1>1, <1>2, <1>3, <1>4, <1>5, <1>6 DEF LaunchNext

-----------------------------------------------------------------------------

\* The budget the user asked for, or else one that was in force while the job
\* waited, is the one Qwen runs with.
THEOREM BudgetsArrive == LaunchSpec => []BudgetReachesWorker
<1>1. LaunchInit => BudgetInv
  BY DEF LaunchInit, BudgetInv
<1>2. BudgetInv => BudgetReachesWorker
  BY DEF BudgetInv, BudgetReachesWorker
<1> QED  BY <1>1, <1>2, BudgetStep, LaunchTyping, PTL DEF LaunchSpec

\* A worker runs the model its job names, verified after the wait for the slot.
THEOREM ModelsAreVerified == LaunchSpec => []ModelVerifiedAfterWaiting
<1>1. LaunchInit => ModelInv
  BY DEF LaunchInit, ModelInv
<1>2. ModelInv => ModelVerifiedAfterWaiting
  BY DEF ModelInv, ModelVerifiedAfterWaiting
<1> QED  BY <1>1, <1>2, ModelStep, LaunchTyping, PTL DEF LaunchSpec

\* The members of two sequences, one after the other.
LEMMA MembersOfBoth ==
  ASSUME NEW S, NEW s \in Seq(S), NEW t \in Seq(S)
  PROVE  s \o t \in Seq(S) /\ ToSet(s \o t) = ToSet(s) \cup ToSet(t)
<1>1. /\ s \o t \in Seq(S)
      /\ DOMAIN s = 1 .. Len(s) /\ DOMAIN t = 1 .. Len(t) /\ DOMAIN (s \o t) = 1 .. Len(s) + Len(t)
      /\ Len(s) \in Nat /\ Len(t) \in Nat
      /\ \A i \in 1 .. Len(s) + Len(t) :
           (s \o t)[i] = IF i <= Len(s) THEN s[i] ELSE t[i - Len(s)]
  OBVIOUS
<1>2. ASSUME NEW i \in 1 .. Len(s) PROVE s[i] \in ToSet(s \o t)
  <2>1. i \in DOMAIN (s \o t) /\ (s \o t)[i] = s[i]
    BY <1>1
  <2> QED  BY <2>1, Zenon DEF ToSet
<1>3. ASSUME NEW i \in 1 .. Len(t) PROVE t[i] \in ToSet(s \o t)
  <2>1. i + Len(s) \in DOMAIN (s \o t) /\ (s \o t)[i + Len(s)] = t[i]
    BY <1>1
  <2> QED  BY <2>1, Zenon DEF ToSet
<1>4. ASSUME NEW i \in DOMAIN (s \o t) PROVE (s \o t)[i] \in ToSet(s) \cup ToSet(t)
  BY <1>1 DEF ToSet
<1> QED  BY <1>1, <1>2, <1>3, <1>4 DEF ToSet

\* The members of a sequence of one or two.
LEMMA ShortSequences ==
  ASSUME NEW a, NEW b
  PROVE  ToSet(<<a>>) = {a} /\ ToSet(<<a, b>>) = {a, b}
BY DEF ToSet

\* What restrict_writes has done once all its steps are done.
LEMMA StepsOfSandbox ==
  ASSUME request.worker \in {"qwen", "kimi"}, command.roots = Roots
  PROVE  /\ {"ruleset", "no_new_privs", "active"} \subseteq ToSet(SandboxSteps)
         /\ ToSet(SandboxSteps) \cap WriteRoots =
              {"job directory"} \cup (IF request.worker = "kimi" THEN {"credentials"} ELSE {})
<1> DEFINE Steps == {"ruleset", "no_new_privs", "active"} \cup WriteRoots
           first == <<"ruleset">>
           last == <<"no_new_privs", "active">>
<1>1. first \in Seq(Steps) /\ last \in Seq(Steps)
  OBVIOUS
<1>2. Roots \in Seq(Steps)
      /\ ToSet(Roots) =
           {"job directory"} \cup (IF request.worker = "kimi" THEN {"credentials"} ELSE {})
  <2>1. CASE request.worker = "qwen"
    <3>1. <<"job directory">> \in Seq(Steps)
      BY DEF WriteRoots
    <3>2. ToSet(<<"job directory">>) = {"job directory"}
      BY ShortSequences
    <3>3. Roots = <<"job directory">>
      BY <2>1, Zenon DEF Roots
    <3>4. Roots \in Seq(Steps) /\ ToSet(Roots) = {"job directory"}
      BY <3>1, <3>2, <3>3, Zenon
    <3> QED  BY <2>1, <3>4
  <2>2. CASE request.worker = "kimi"
    <3>1. <<"job directory", "credentials">> \in Seq(Steps)
      BY DEF WriteRoots
    <3>2. ToSet(<<"job directory", "credentials">>) = {"job directory", "credentials"}
      BY ShortSequences
    <3>3. Roots = <<"job directory", "credentials">>
      BY <2>2 DEF Roots
    <3>4. Roots \in Seq(Steps) /\ ToSet(Roots) = {"job directory", "credentials"}
      BY <3>1, <3>2, <3>3, Zenon
    <3> QED  BY <2>2, <3>4
  <2> QED  BY <2>1, <2>2
<1>3. ToSet(first) = {"ruleset"} /\ ToSet(last) = {"no_new_privs", "active"}
  BY ShortSequences
<1>4. SandboxSteps = (first \o Roots) \o last
  BY Zenon DEF SandboxSteps
<1> HIDE DEF Steps, first, last
<1>5. ToSet(SandboxSteps) = ToSet(first) \cup ToSet(Roots) \cup ToSet(last)
  <2>1. first \o Roots \in Seq(Steps) /\ ToSet(first \o Roots) = ToSet(first) \cup ToSet(Roots)
    BY <1>1, <1>2, MembersOfBoth
  <2> DEFINE both == first \o Roots
  <2>2. both \in Seq(Steps)
    BY <2>1
  <2> HIDE DEF both
  <2>3. ToSet(both \o last) = ToSet(both) \cup ToSet(last)
    BY <1>1, <2>2, MembersOfBoth
  <2> QED  BY <1>4, <2>1, <2>3, Zenon DEF both
<1> QED  BY <1>2, <1>3, <1>5 DEF WriteRoots

\* Every step keeps an edit on its way into the confinement.
LEMMA ConfinedStep ==
  LaunchTypeOK /\ ConfinedInv /\ [LaunchNext]_launchVars => ConfinedInv'
<1> SUFFICES ASSUME LaunchTypeOK, ConfinedInv, [LaunchNext]_launchVars,
                    request'.mode = "isolated-edit"
             PROVE  ConfinedInv'
  BY DEF ConfinedInv
<1> USE DEF ConfinedInv, Advance, settingVars
<1>1. request' = request /\ landlock' = landlock /\ Roots' = Roots
  <2>1. UNCHANGED <<request, landlock>>
    BY DEF LaunchNext, launchVars, ParseRequest, SelectModel, SlotTaken, PrepareLaunch,
       ResolveBudget, BuildCommand, BuildUnverified, Spawn, Refuse, RestrictStep, RestrictFails,
       Exec, SaveSettings, EditConfiguration
  <2> QED  BY <2>1 DEF Roots
<1>2. CASE UNCHANGED launchVars  BY <1>2 DEF launchVars, SandboxSteps, Roots
<1>3. CASE ParseRequest \/ SelectModel \/ SlotTaken \/ ResolveBudget \/ Refuse
  BY <1>1, <1>3 DEF ParseRequest, SelectModel, SlotTaken, ResolveBudget, Refuse
<1>4. CASE PrepareLaunch
  BY <1>1, <1>4 DEF PrepareLaunch
<1>5. CASE BuildCommand
  <2>1. /\ stage = "resolved" /\ stage' = "built"
        /\ command' = IF request.worker = "qwen" THEN QwenCommand ELSE KimiCommand
    BY <1>5 DEF BuildCommand, BuildUnverified
  <2>2. QwenCommand.roots = IF request.mode = "isolated-edit" THEN <<"job directory">> ELSE <<>>
    BY Zenon DEF QwenCommand
  <2>3. KimiCommand.roots = IF request.mode = "isolated-edit"
                            THEN <<"job directory", "credentials">> ELSE <<>>
    BY Zenon DEF KimiCommand
  <2> QED  BY <1>1, <2>1, <2>2, <2>3 DEF Roots
<1>6. CASE Spawn
  <2>1. Roots # <<>>
    BY DEF Roots
  <2> QED  BY <1>1, <1>6, <2>1 DEF Spawn
<1>7. CASE RestrictStep \/ RestrictFails
  BY <1>1, <1>7 DEF RestrictStep, RestrictFails
<1>8. CASE Exec
  BY <1>1, <1>8 DEF Exec, SandboxSteps
<1>9. CASE SaveSettings \/ EditConfiguration
  BY <1>1, <1>9 DEF SaveSettings, EditConfiguration, Waiting
<1> QED
  BY <1>2, <1>3, <1>4, <1>5, <1>6, <1>7, <1>8, <1>9 DEF LaunchNext

\* No isolated edit runs outside the ruleset that its request calls for.
THEOREM EditsRunConfined == LaunchSpec => []EditRunsConfined
<1>1. LaunchInit => ConfinedInv
  BY DEF LaunchInit, ConfinedInv
<1>2. LaunchTypeOK /\ ConfinedInv => EditRunsConfined
  <2>1. LaunchTypeOK => request.worker \in {"qwen", "kimi"}
    BY DEF LaunchTypeOK, Requests
  <2> QED  BY <2>1, StepsOfSandbox DEF ConfinedInv, EditRunsConfined
<1> QED  BY <1>1, <1>2, ConfinedStep, LaunchTyping, PTL DEF LaunchSpec

=============================================================================
