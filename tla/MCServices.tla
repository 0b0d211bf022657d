------------------------------ MODULE MCServices ------------------------------
(***************************************************************************)
(* TLC instance of the components beside the job system: the registries of *)
(* the dashboard process and the files several processes share.  They have *)
(* no variable in common, so `part` picks the one that moves; the others   *)
(* stay in their initial state.                                            *)
(***************************************************************************)
EXTENDS UpdateRegistry, QuotaCache, SettingsFile, CredentialUpdate, StoreOpen

VARIABLE part

MCLegal == [budget |-> 1 .. 3, model |-> 1 .. 2]
MCDefault == [budget |-> 1, model |-> 1]
MCOverrides == {[budget |-> 2], [model |-> 2], [budget |-> 3, model |-> 9]}

MCSelections == {<<"qwen", "kimi">>, <<"kimi">>}

Entries == [active : BOOLEAN, url : {"legacy url", "other url"}, usesKey : BOOLEAN]

MCConfigs ==
  [key : {"workspace"}, modelIsReviewed : BOOLEAN, authIsOpenai : {TRUE},
   modelUrl : {"legacy url", "plan url"}, providers : [1 .. 2 -> Entries]]

RestOf(p) ==
  /\ UNCHANGED part
  /\ IF p = "registry" THEN TRUE ELSE UNCHANGED registryVars
  /\ IF p = "quota" THEN TRUE ELSE UNCHANGED quotaVars
  /\ IF p = "settings" THEN TRUE ELSE UNCHANGED settingsVars
  /\ IF p = "credential" THEN TRUE ELSE UNCHANGED credentialVars
  /\ IF p = "store" THEN TRUE ELSE UNCHANGED openVars

servicesVars == <<registryVars, quotaVars, settingsVars, credentialVars, openVars, part>>

Init ==
  /\ part \in {"registry", "quota", "settings", "credential", "store"}
  /\ RegistryInit
  /\ QuotaInit
  /\ SettingsInit
  /\ CredentialInit
  /\ OpenInit
  /\ part = "credential" \/ (qwen.config = (CHOOSE c \in Configs : TRUE) /\ ~configure)
  /\ part = "store" \/ db = Absent

Next ==
  \/ part = "registry"   /\ RegistryNext   /\ RestOf(part)
  \/ part = "quota"      /\ QuotaNext      /\ RestOf(part)
  \/ part = "settings"   /\ SettingsNext   /\ RestOf(part)
  \/ part = "credential" /\ CredentialNext /\ RestOf(part)
  \/ part = "store"      /\ OpenNext       /\ RestOf(part)

\* Threads that exist are scheduled, fetches are bounded by their timeouts and
\* byte limits, and time passes.
RegistryStep(A) == part = "registry" /\ A /\ RestOf(part)

QuotaStep(A) == part = "quota" /\ A /\ RestOf(part)

Fairness ==
  /\ \A h \in Handlers : WF_servicesVars(RegistryStep(StartThread(h) \/ StartFails(h)))
  /\ \A w \in Coders :
       WF_servicesVars(RegistryStep(\E reply \in Replies : Finish(w, reply)))
  /\ WF_servicesVars(QuotaStep(Spawn \/ SpawnFails))
  /\ WF_servicesVars(QuotaStep(\E s \in Servers : RefreshSucceeds(s) \/ RefreshFails(s)))
  /\ WF_servicesVars(QuotaStep(Tick))

Spec == Init /\ [][Next]_servicesVars /\ Fairness

=============================================================================
