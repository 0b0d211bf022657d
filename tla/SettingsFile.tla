----------------------------- MODULE SettingsFile -----------------------------
(***************************************************************************)
(* ai_router/settings.py: the file settings.json and the processes that    *)
(* save it, `ai-worker settings set` and the dashboard's POST handlers.    *)
(* save_settings takes no lock: it reads and merges, writes a temporary    *)
(* file and renames it, and anything may happen between these steps.       *)
(***************************************************************************)
EXTENDS Naturals, FiniteSets

CONSTANTS
  Savers,       \* executions of save_settings
  Fields,       \* SETTINGS_FIELDS
  ModelField,   \* the field of kind 'model' among them
  Legal,        \* field -> the values validate_setting accepts
  Default,      \* field -> its default
  Overrides     \* the explicit values callers pass: functions on some fields

ASSUME SettingsAssumption ==
  /\ ModelField \in Fields
  /\ Default \in [Fields -> UNION {Legal[f] : f \in Fields}]
  /\ \A f \in Fields : Default[f] \in Legal[f]
  /\ \A o \in Overrides : DOMAIN o \subseteq Fields

VARIABLES
  file,         \* settings.json: "absent", "ok" or "broken", and its values
  catalog,      \* the model profiles discovery verifies, {} when it fails
  spc,          \* control point of save_settings
  override,     \* its explicit values
  merged,       \* what it is going to write
  brokenByHand  \* history: somebody has put an invalid file there

settingsVars == <<file, catalog, spc, override, merged, brokenByHand>>

SettingsInit ==
  /\ file = [state |-> "absent", value |-> Default]
  /\ catalog = Legal[ModelField]
  /\ spc = [s \in Savers |-> "idle"]
  /\ override = [s \in Savers |-> <<>>]
  /\ merged = [s \in Savers |-> Default]
  /\ brokenByHand = FALSE

-----------------------------------------------------------------------------

\* load_settings raises for a broken file; an absent one yields the defaults
Loadable == file.state # "broken"

Loaded == IF file.state = "ok" THEN file.value ELSE Default

\* validate_model_profile_selection: without discovery only the default
Selectable == IF catalog = {} THEN {Default[ModelField]} ELSE catalog

\* validate_setting, for the model field also against the catalog
Acceptable(f, v) == v \in Legal[f] /\ (f = ModelField => v \in Selectable)

Merge(base, o) == [f \in Fields |-> IF f \in DOMAIN o THEN o[f] ELSE base[f]]

At(s, point) == spc' = [spc EXCEPT ![s] = point]

\* Seeded fault: the values are merged unchecked
PrepareUnchecked(s, o) ==
  /\ spc[s] = "idle"
  /\ override' = [override EXCEPT ![s] = o]
  /\ IF Loadable
     THEN At(s, "merged") /\ merged' = [merged EXCEPT ![s] = Merge(Loaded, o)]
     ELSE At(s, "refused") /\ UNCHANGED merged
  /\ UNCHANGED <<file, catalog, brokenByHand>>

\* save_settings up to the payload: an invalid file or value is refused before
\* anything is written
Prepare(s, o) ==
  /\ spc[s] = "idle"
  /\ override' = [override EXCEPT ![s] = o]
  /\ IF Loadable /\ \A f \in DOMAIN o : Acceptable(f, o[f])
     THEN At(s, "merged") /\ merged' = [merged EXCEPT ![s] = Merge(Loaded, o)]
     ELSE At(s, "refused") /\ UNCHANGED merged
  /\ UNCHANGED <<file, catalog, brokenByHand>>

\* Seeded fault: the payload goes straight into settings.json
WriteInPlace(s) ==
  /\ spc[s] = "merged"
  /\ At(s, "written")
  /\ file' = [file EXCEPT !.state = "broken"]
  /\ UNCHANGED <<catalog, override, merged, brokenByHand>>

\* mkstemp, write, fsync: settings.json is not touched
WriteTemporary(s) ==
  /\ spc[s] = "merged"
  /\ At(s, "written")
  /\ UNCHANGED <<file, catalog, override, merged, brokenByHand>>

\* an OSError anywhere up to os.replace: the temporary file is unlinked
WriteFails(s) ==
  /\ spc[s] \in {"merged", "written"}
  /\ At(s, "refused")
  /\ UNCHANGED <<file, catalog, override, merged, brokenByHand>>

\* os.replace
Replace(s) ==
  /\ spc[s] = "written"
  /\ At(s, "replaced")
  /\ file' = [state |-> "ok", value |-> merged[s]]
  /\ UNCHANGED <<catalog, override, merged, brokenByHand>>

\* the final load_settings, which raises if the file has been broken meanwhile
Return(s) ==
  /\ spc[s] = "replaced"
  /\ At(s, IF Loadable THEN "saved" ELSE "unreadable")
  /\ UNCHANGED <<file, catalog, override, merged, brokenByHand>>

\* the process is killed
Die(s) ==
  /\ spc[s] \in {"merged", "written", "replaced"}
  /\ At(s, "dead")
  /\ UNCHANGED <<file, catalog, override, merged, brokenByHand>>

\* the user edits settings.json into something invalid, or removes such a file
BreakByHand ==
  /\ file.state # "broken"
  /\ file' = [file EXCEPT !.state = "broken"]
  /\ brokenByHand' = TRUE
  /\ UNCHANGED <<catalog, spc, override, merged>>

RemoveByHand ==
  /\ file.state = "broken"
  /\ file' = [state |-> "absent", value |-> Default]
  /\ brokenByHand' = FALSE
  /\ UNCHANGED <<catalog, spc, override, merged>>

\* the provider's configuration changes, discovery may fail
CatalogChanges ==
  /\ \E c \in SUBSET Legal[ModelField] : catalog' = c
  /\ UNCHANGED <<file, spc, override, merged, brokenByHand>>

SettingsNext ==
  \/ \E s \in Savers :
       \/ \E o \in Overrides : Prepare(s, o)
       \/ WriteTemporary(s) \/ WriteFails(s) \/ Replace(s) \/ Return(s) \/ Die(s)
  \/ BreakByHand
  \/ RemoveByHand
  \/ CatalogChanges

SettingsSpec == SettingsInit /\ [][SettingsNext]_settingsVars

-----------------------------------------------------------------------------

\* Wherever savers die, fail or overtake each other, settings.json stays
\* loadable unless somebody broke it by hand.
FileNeverTorn == file.state = "broken" => brokenByHand

\* Every value in the file is the default or one some caller asked for, and one
\* that passes validation: concurrent merges never make one up, and a refused
\* call leaves none of its values behind, not even the acceptable ones.
EveryValueWasSaved ==
  file.state = "ok" => \A f \in Fields :
    /\ file.value[f] \in Legal[f]
    /\ \/ file.value[f] = Default[f]
       \/ \E s \in Savers : /\ spc[s] # "refused"
                            /\ f \in DOMAIN override[s]
                            /\ override[s][f] = file.value[f]

\* "Only the fields given an explicit value change; every other saved field is
\* preserved" (save_settings docstring, settings.py:316), as a step property.
OnlyExplicitFieldsChange ==
  [][\A s \in Savers : spc[s] = "written" /\ spc'[s] = "replaced" =>
       \A f \in Fields \ DOMAIN override[s] : file'.value[f] = Loaded[f]]_settingsVars

=============================================================================
