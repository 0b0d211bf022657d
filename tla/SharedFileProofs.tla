--------------------------- MODULE SharedFileProofs ---------------------------
(***************************************************************************)
(* Theorems about three files that several programs write: the database    *)
(* that processes open and migrate at the same time (StoreOpen), for every *)
(* number of them; Qwen's settings.json that the credential tool replaces  *)
(* next to an editor (CredentialUpdate), for every number of edits and     *)
(* every content of the file; and the dispatcher's own settings.json       *)
(* (SettingsFile), for every set of savers, fields, values and overrides,  *)
(* after any interleaving of saves, failures, crashes and edits by hand.   *)
(***************************************************************************)
EXTENDS StoreOpen, CredentialUpdate, SettingsFile, TLAPS

-----------------------------------------------------------------------------
(* The database *)

OpenTypeOK ==
  /\ db \in [file : BOOLEAN, tables : BOOLEAN, column : BOOLEAN, version : 0 .. 3]
  /\ opc \in [Openers -> {"idle", "create", "connect", "select", "insert", "alter", "update",
                          "open", "failed", "killed"}]

\* What the database claims it has: only schema 1 lacks the column.
DatabaseInv ==
  /\ db.version # 0 => db.tables
  /\ db.tables /\ db.version # 1 => db.column

\* What an opener has found out or done stays true.
OpenerInv(o) ==
  /\ opc[o] \in {"select", "insert", "alter", "update", "open"} => db.tables
  /\ opc[o] \in {"insert", "update", "open"} => db.column
  /\ opc[o] \in {"insert", "alter", "update"} => db.version # 3
  /\ opc[o] = "open" => db.version = 2

OpenInv == OpenTypeOK /\ DatabaseInv /\ \A o \in Openers : OpenerInv(o)

-----------------------------------------------------------------------------

\* Creators, migrations and plain openers in any state of the database.
LEMMA OpenInitInv == OpenInit => OpenInv
<1> SUFFICES ASSUME OpenInit PROVE OpenInv
  OBVIOUS
<1> USE DEF OpenInv, OpenTypeOK, DatabaseInv, OpenerInv
<1>1. opc = [o \in Openers |-> "idle"]
  BY DEF OpenInit
<1>2. CASE db = Absent
  BY <1>1, <1>2 DEF Absent
<1>3. CASE db = [file |-> TRUE, tables |-> TRUE, column |-> FALSE, version |-> 1]
  BY <1>1, <1>3
<1>4. ASSUME NEW v \in {2, 3},
             db = [file |-> TRUE, tables |-> TRUE, column |-> TRUE, version |-> v]
      PROVE  OpenInv
  BY <1>1, <1>4
<1> QED  BY <1>2, <1>3, <1>4 DEF OpenInit, SchemaVersion

\* Every step of every opener preserves it.
LEMMA OpenNextInv == OpenInv /\ [OpenNext]_openVars => OpenInv'
<1> SUFFICES ASSUME OpenInv, [OpenNext]_openVars PROVE OpenInv'
  OBVIOUS
<1> USE DEF OpenInv, OpenTypeOK, DatabaseInv, OpenerInv, OpenerAt, SchemaVersion
<1>1. CASE UNCHANGED openVars  BY <1>1 DEF openVars
<1>2. ASSUME NEW o \in Openers, LookForFile(o) PROVE OpenInv'  BY <1>2 DEF LookForFile
<1>3. ASSUME NEW o \in Openers, CreateFile(o) PROVE OpenInv'  BY <1>3 DEF CreateFile
<1>4. ASSUME NEW o \in Openers, CreateTables(o) PROVE OpenInv'  BY <1>4 DEF CreateTables
<1>5. ASSUME NEW o \in Openers, ReadVersion(o) PROVE OpenInv'  BY <1>5 DEF ReadVersion
<1>6. ASSUME NEW o \in Openers, InsertVersion(o) PROVE OpenInv'  BY <1>6 DEF InsertVersion
<1>7. ASSUME NEW o \in Openers, AddColumn(o) PROVE OpenInv'  BY <1>7 DEF AddColumn
<1>8. ASSUME NEW o \in Openers, UpdateVersion(o) PROVE OpenInv'  BY <1>8 DEF UpdateVersion
<1>9. ASSUME NEW o \in Openers, KillOpener(o) PROVE OpenInv'  BY <1>9 DEF KillOpener
<1> QED
  BY <1>1, <1>2, <1>3, <1>4, <1>5, <1>6, <1>7, <1>8, <1>9 DEF OpenNext

\* Whoever has the store open has all columns and the current version, however
\* many others create, migrate or die meanwhile.
THEOREM StoresAreMigrated == OpenSpec => []OpenedMeansMigrated
<1>1. OpenInv => OpenedMeansMigrated
  BY DEF OpenInv, OpenerInv, OpenedMeansMigrated, SchemaVersion
<1> QED  BY <1>1, OpenInitInv, OpenNextInv, PTL DEF OpenSpec

-----------------------------------------------------------------------------
(* The credential tool *)

\* What the tool compared is still there, unless the editor came in between.
ComparedInv ==
  /\ unseen \in BOOLEAN
  /\ kpc = "compared" /\ ~unseen => qwen = original

\* Every step of the tool and of the editor preserves it.
LEMMA ComparedStep == ComparedInv /\ [CredentialNext]_credentialVars => ComparedInv'
<1> SUFFICES ASSUME ComparedInv, [CredentialNext]_credentialVars PROVE ComparedInv'
  OBVIOUS
<1> USE DEF ComparedInv, Goto
<1>1. CASE UNCHANGED credentialVars  BY <1>1 DEF credentialVars
<1>2. ASSUME NEW key \in KeyClasses, Enter(key) PROVE ComparedInv'
  BY <1>2 DEF Enter
<1>3. CASE Decline \/ Abort  BY <1>3 DEF Decline, Abort
<1>4. CASE ReadAndSplice  BY <1>4 DEF ReadAndSplice
<1>5. CASE Compare  BY <1>5 DEF Compare
<1>6. CASE ReplaceSettings \/ Verify  BY <1>6 DEF ReplaceSettings, Verify
<1>7. ASSUME NEW new \in {0, 1}, Edit(new) PROVE ComparedInv'
  BY <1>7 DEF Edit
<1> QED  BY <1>1, <1>2, <1>3, <1>4, <1>5, <1>6, <1>7 DEF CredentialNext

\* Somebody else's edit is lost only if it falls between the comparison and the
\* rename: the rename brings back the text that was compared.
THEOREM EditsSurvive == CredentialSpec => EditsBeforeComparisonSurvive
<1>1. CredentialInit => ComparedInv
  BY DEF CredentialInit, ComparedInv
<1>2. ASSUME ComparedInv, [CredentialNext]_credentialVars
      PROVE  [kpc = "compared" /\ kpc' = "replaced" /\ ~unseen
                => qwen'.rest = qwen.rest]_credentialVars
  <2>1. CASE ReplaceSettings
    BY <1>2, <2>1 DEF ReplaceSettings, ComparedInv
  <2>2. CASE ~ReplaceSettings
    <3>1. kpc' = "replaced" => kpc = "replaced" \/ UNCHANGED credentialVars
      BY <1>2, <2>2 DEF CredentialNext, Enter, Decline, ReadAndSplice, Compare, Verify, Abort,
         Edit, Goto
    <3> QED  BY <3>1
  <2> QED  BY <2>1, <2>2
<1> QED
  BY <1>1, <1>2, ComparedStep, PTL DEF CredentialSpec, EditsBeforeComparisonSurvive

\* What the splice leaves: the key, and with --configure-endpoint its endpoint.
Spliced(u, c, key) ==
  /\ u.key = key
  /\ ~configure => u.modelUrl = c.modelUrl
  /\ configure =>
       /\ u.modelUrl = EndpointFor[key]
       /\ \A i \in DOMAIN u.providers :
            u.providers[i].url = IF u.providers[i].active THEN EndpointFor[key]
                                 ELSE c.providers[i].url

\* The named fields are changed and no other entry.
LEMMA WhatIsSpliced ==
  ASSUME NEW c \in Configs, NEW key
  PROVE  Spliced(Updated(c, key), c, key)
<1> DEFINE u == Updated(c, key)
<1>0. /\ c \in [key : STRING, modelIsReviewed : BOOLEAN, authIsOpenai : BOOLEAN,
                modelUrl : STRING, providers : {c.providers}]
      /\ c.providers \in
           [DOMAIN c.providers -> [active : BOOLEAN, url : STRING, usesKey : BOOLEAN]]
  BY CredentialAssumption
<1>1. CASE ~configure
  <2>1. u = [c EXCEPT !.key = key]
    BY <1>1 DEF Updated
  <2>2. u.key = key /\ u.modelUrl = c.modelUrl
    BY <1>0, <2>1
  <2> QED  BY <1>1, <2>2 DEF Spliced
<1>2. CASE configure
  <2> DEFINE providers == [i \in DOMAIN c.providers |->
                            IF i \in ActiveEntries(c)
                            THEN [c.providers[i] EXCEPT !.url = EndpointFor[key]]
                            ELSE c.providers[i]]
  <2>1. u = [c EXCEPT !.key = key, !.modelUrl = EndpointFor[key], !.providers = providers]
    BY <1>2 DEF Updated
  <2>2. ASSUME NEW i \in DOMAIN c.providers
        PROVE  providers[i].url = IF providers[i].active THEN EndpointFor[key]
                                  ELSE c.providers[i].url
    <3>1. c.providers[i] \in [active : BOOLEAN, url : STRING, usesKey : BOOLEAN]
      BY <1>0
    <3>2. CASE c.providers[i].active
      <4>1. providers[i] = [c.providers[i] EXCEPT !.url = EndpointFor[key]]
        BY <3>2 DEF ActiveEntries
      <4>2. providers[i].url = EndpointFor[key] /\ providers[i].active = c.providers[i].active
        BY <3>1, <4>1
      <4> QED  BY <3>2, <4>2
    <3>3. CASE ~c.providers[i].active
      <4>1. providers[i] = c.providers[i]
        BY <3>3 DEF ActiveEntries
      <4> QED  BY <3>3, <4>1
    <3> QED  BY <3>2, <3>3
  <2>3. DOMAIN providers = DOMAIN c.providers
    OBVIOUS
  <2> HIDE DEF providers
  <2>4. u.key = key /\ u.modelUrl = EndpointFor[key] /\ u.providers = providers
    BY <1>0, <2>1
  <2> HIDE DEF u
  <2>5. Spliced(u, c, key)
    BY <1>2, <2>2, <2>3, <2>4 DEF Spliced
  <2> QED  BY <2>5 DEF u
<1> QED  BY <1>1, <1>2

\* What the tool has read, approved and written, at each point of its run.
KeyInv ==
  /\ qwen = [config |-> qwen.config, inode |-> qwen.inode, rest |-> qwen.rest]
  /\ kpc \in {"prompt", "entered", "spliced"} => qwen.config \in Configs
  /\ kpc \in {"spliced", "compared", "replaced", "updated"} =>
       original.config \in Configs /\ Approved(original.config, entered)
  /\ kpc \in {"replaced", "updated"} => qwen.config = Updated(original.config, entered)

\* Every step of the tool and of the editor preserves it.
LEMMA KeyStep == KeyInv /\ [CredentialNext]_credentialVars => KeyInv'
<1> SUFFICES ASSUME KeyInv, [CredentialNext]_credentialVars PROVE KeyInv'
  OBVIOUS
<1>1. configure' = configure
  BY DEF CredentialNext, credentialVars, Enter, Decline, ReadAndSplice, Compare, ReplaceSettings,
     Verify, Abort, Edit
<1>2. \A c, key : /\ Updated(c, key)' = Updated(c, key)
                  /\ Approved(c, key)' <=> Approved(c, key)
  BY <1>1, Zenon DEF Updated, Approved, Reviewed
<1> USE DEF KeyInv, Goto
<1>3. CASE UNCHANGED credentialVars
  BY <1>2, <1>3 DEF credentialVars
<1>4. CASE (\E key \in KeyClasses : Enter(key)) \/ Decline
  BY <1>4 DEF Enter, Decline
<1>5. CASE ReadAndSplice
  BY <1>2, <1>5 DEF ReadAndSplice
<1>6. CASE Compare
  BY <1>2, <1>6 DEF Compare
<1>7. CASE ReplaceSettings
  BY <1>2, <1>7 DEF ReplaceSettings
<1>8. CASE Verify \/ Abort
  BY <1>2, <1>8 DEF Verify, Abort
<1>9. ASSUME NEW new \in {0, 1}, Edit(new) PROVE KeyInv'
  <2>1. /\ qwen' = [qwen EXCEPT !.rest = edits + 1, !.inode = @ + new]
        /\ edits' = edits + 1
        /\ UNCHANGED <<kpc, entered, original>>
    BY <1>9 DEF Edit
  <2>2. qwen' = [config |-> qwen.config, inode |-> qwen.inode + new, rest |-> edits + 1]
    BY <2>1
  <2> QED  BY <1>2, <2>1, <2>2
<1> QED
  BY <1>3, <1>4, <1>5, <1>6, <1>7, <1>8, <1>9 DEF CredentialNext

\* A successful run leaves the key beside the endpoint it belongs to.
THEOREM KeysFitEndpoints == CredentialSpec => []KeyFitsEndpoint
<1>1. CredentialInit => KeyInv
  BY DEF CredentialInit, KeyInv
<1>2. KeyInv => KeyFitsEndpoint
  <2> SUFFICES ASSUME KeyInv, kpc = "updated" PROVE KeyFitsEndpoint
    BY DEF KeyFitsEndpoint
  <2>1. original.config \in Configs /\ Approved(original.config, entered)
        /\ qwen.config = Updated(original.config, entered)
    BY DEF KeyInv
  <2>2. Spliced(qwen.config, original.config, entered)
    BY <2>1, WhatIsSpliced
  <2>3. configure /\ entered = "plan" => EndpointFor[entered] = "plan url"
    BY DEF EndpointFor
  <2>4. ~configure /\ entered = "plan" => original.config.modelUrl = "plan url"
    BY <2>1 DEF Approved
  <2> QED  BY <2>2, <2>3, <2>4 DEF Spliced, KeyFitsEndpoint
<1> QED  BY <1>1, <1>2, KeyStep, PTL DEF CredentialSpec

-----------------------------------------------------------------------------
(* settings.json *)

Values == UNION {Legal[f] : f \in Fields}

SettingsTypeOK ==
  /\ file \in [state : {"absent", "ok", "broken"}, value : [Fields -> Values]]
  /\ spc \in [Savers -> {"idle", "refused", "merged", "written", "replaced", "saved",
                         "unreadable", "dead"}]
  /\ override \in [Savers -> Overrides \cup {<<>>}]
  /\ merged \in [Savers -> [Fields -> Values]]

\* The savers whose values may be in the file: none of them is ever refused.
Kept(s) == spc[s] \in {"replaced", "saved", "unreadable", "dead"}

\* v is legal for field f, and the default or the explicit value of such a saver.
Founded(f, v) ==
  /\ v \in Legal[f]
  /\ \/ v = Default[f]
     \/ \E s \in Savers : Kept(s) /\ f \in DOMAIN override[s] /\ override[s][f] = v

\* v is the legal, explicit value of saver s.
Requested(s, f, v) == v \in Legal[f] /\ f \in DOMAIN override[s] /\ override[s][f] = v

FileInv == file.state = "ok" => \A f \in Fields : Founded(f, file.value[f])

\* What a saver is going to write is founded, or its own.
MergedInv ==
  \A s \in Savers : spc[s] \in {"merged", "written"} =>
    \A f \in Fields : Founded(f, merged[s][f]) \/ Requested(s, f, merged[s][f])

SettingsInv == SettingsTypeOK /\ FileInv /\ MergedInv

-----------------------------------------------------------------------------

\* What may be in the file is never withdrawn: its savers stay, with their values.
LEMMA FoundedStays ==
  ASSUME SettingsTypeOK,
         \A s \in Savers : Kept(s) => Kept(s)' /\ override'[s] = override[s],
         NEW f, NEW v, Founded(f, v)
  PROVE  Founded(f, v)'
BY DEF Founded

\* Merging legal explicit values over founded ones.
LEMMA PrepareKeepsInv ==
  ASSUME SettingsInv, NEW s \in Savers, NEW o \in Overrides, Prepare(s, o)
  PROVE  SettingsInv'
<1> USE DEF SettingsInv
<1>1. Default \in [Fields -> Values] /\ \A f \in Fields : Default[f] \in Legal[f]
  BY SettingsAssumption DEF Values
<1>2. DOMAIN o \subseteq Fields
  BY SettingsAssumption
<1>3. spc[s] = "idle" /\ override' = [override EXCEPT ![s] = o] /\ UNCHANGED file
  BY DEF Prepare
<1>4. \/ spc' = [spc EXCEPT ![s] = "refused"] /\ UNCHANGED merged
      \/ /\ spc' = [spc EXCEPT ![s] = "merged"]
         /\ merged' = [merged EXCEPT ![s] = Merge(Loaded, o)]
         /\ Loadable
         /\ \A f \in DOMAIN o : o[f] \in Legal[f]
  BY DEF Prepare, At, Acceptable
<1>5. Loaded \in [Fields -> Values] /\ (Loadable => \A f \in Fields : Founded(f, Loaded[f]))
  <2>1. CASE file.state = "ok"
    BY <2>1 DEF Loaded, SettingsTypeOK, FileInv
  <2>2. CASE file.state # "ok"
    BY <1>1, <2>2 DEF Loaded, Founded
  <2> QED  BY <2>1, <2>2
<1>6. \A k \in Savers : Kept(k) => Kept(k)' /\ override'[k] = override[k]
  BY <1>3, <1>4 DEF Kept, SettingsTypeOK
<1>7. CASE spc' = [spc EXCEPT ![s] = "refused"] /\ UNCHANGED merged
  <2>1. SettingsTypeOK'  BY <1>3, <1>7 DEF SettingsTypeOK
  <2>2. FileInv'  BY <1>3, <1>6, FoundedStays DEF FileInv
  <2>3. MergedInv'
    <3> SUFFICES ASSUME NEW k \in Savers, (spc[k] \in {"merged", "written"})', NEW f \in Fields
                 PROVE  (Founded(f, merged[k][f]) \/ Requested(k, f, merged[k][f]))'
      BY DEF MergedInv
    <3>1. k # s /\ spc'[k] = spc[k] /\ override'[k] = override[k] /\ merged'[k] = merged[k]
      BY <1>3, <1>7 DEF SettingsTypeOK
    <3> QED  BY <1>6, <3>1, FoundedStays DEF MergedInv, Requested
  <2> QED  BY <2>1, <2>2, <2>3
<1>8. CASE /\ spc' = [spc EXCEPT ![s] = "merged"]
           /\ merged' = [merged EXCEPT ![s] = Merge(Loaded, o)]
           /\ Loadable
           /\ \A f \in DOMAIN o : o[f] \in Legal[f]
  <2>1. Merge(Loaded, o) \in [Fields -> Values]
    BY <1>2, <1>5, <1>8 DEF Merge, Values
  <2>2. SettingsTypeOK'  BY <1>3, <1>8, <2>1 DEF SettingsTypeOK
  <2>3. FileInv'  BY <1>3, <1>6, FoundedStays DEF FileInv
  <2>4. MergedInv'
    <3> SUFFICES ASSUME NEW k \in Savers, (spc[k] \in {"merged", "written"})', NEW f \in Fields
                 PROVE  (Founded(f, merged[k][f]) \/ Requested(k, f, merged[k][f]))'
      BY DEF MergedInv
    <3>1. CASE k = s
      <4>1. merged'[k] = Merge(Loaded, o) /\ override'[k] = o
        BY <1>3, <1>8, <3>1 DEF SettingsTypeOK
      <4>2. CASE f \in DOMAIN o
        BY <1>8, <4>1, <4>2 DEF Merge, Requested
      <4>3. CASE f \notin DOMAIN o
        <5>1. merged'[k][f] = Loaded[f] /\ Founded(f, Loaded[f])
          BY <1>5, <1>8, <4>1, <4>3 DEF Merge
        <5> QED  BY <1>6, <5>1, FoundedStays
      <4> QED  BY <4>2, <4>3
    <3>2. CASE k # s
      <4>1. spc'[k] = spc[k] /\ override'[k] = override[k] /\ merged'[k] = merged[k]
        BY <1>3, <1>8, <3>2 DEF SettingsTypeOK
      <4> QED  BY <1>6, <4>1, FoundedStays DEF MergedInv, Requested
    <3> QED  BY <3>1, <3>2
  <2> QED  BY <2>2, <2>3, <2>4
<1> QED  BY <1>4, <1>7, <1>8

\* The later steps of a saver, which keep the values it merged.
LEMMA SaverKeepsInv ==
  ASSUME SettingsInv, NEW s \in Savers,
         WriteTemporary(s) \/ WriteFails(s) \/ Replace(s) \/ Return(s) \/ Die(s)
  PROVE  SettingsInv'
<1> USE DEF SettingsInv
<1>1. /\ UNCHANGED <<override, merged>>
      /\ \A k \in Savers : spc'[k] # spc[k] => k = s
      /\ \A k \in Savers : spc'[k] \in {"merged", "written"} => spc[k] \in {"merged", "written"}
      /\ \A k \in Savers : Kept(k) => Kept(k)'
      /\ spc' \in [Savers -> {"idle", "refused", "merged", "written", "replaced", "saved",
                              "unreadable", "dead"}]
  BY DEF WriteTemporary, WriteFails, Replace, Return, Die, At, Kept, SettingsTypeOK
<1>2. MergedInv'
  <2> SUFFICES ASSUME NEW k \in Savers, (spc[k] \in {"merged", "written"})', NEW f \in Fields
               PROVE  (Founded(f, merged[k][f]) \/ Requested(k, f, merged[k][f]))'
    BY DEF MergedInv
  <2> QED  BY <1>1, FoundedStays DEF MergedInv, Requested
<1>3. CASE Replace(s)
  <2>1. file' = [state |-> "ok", value |-> merged[s]] /\ spc[s] = "written" /\ Kept(s)'
    BY <1>3 DEF Replace, At, Kept, SettingsTypeOK
  <2>2. SettingsTypeOK'
    BY <1>1, <2>1 DEF SettingsTypeOK
  <2>3. FileInv'
    <3> SUFFICES ASSUME NEW f \in Fields PROVE Founded(f, merged[s][f])'
      BY <1>1, <2>1 DEF FileInv
    <3>1. CASE Founded(f, merged[s][f])
      BY <1>1, <3>1, FoundedStays
    <3>2. CASE Requested(s, f, merged[s][f])
      BY <1>1, <2>1, <3>2 DEF Requested, Founded
    <3> QED  BY <2>1, <3>1, <3>2 DEF MergedInv
  <2> QED  BY <1>2, <2>2, <2>3
<1>4. CASE WriteTemporary(s) \/ WriteFails(s) \/ Return(s) \/ Die(s)
  <2>1. UNCHANGED file
    BY <1>4 DEF WriteTemporary, WriteFails, Return, Die
  <2>2. SettingsTypeOK'
    BY <1>1, <2>1 DEF SettingsTypeOK
  <2>3. FileInv'
    BY <1>1, <2>1, FoundedStays DEF FileInv
  <2> QED  BY <1>2, <2>2, <2>3
<1> QED  BY <1>3, <1>4

\* The user and the provider's configuration.
LEMMA OutsideKeepsInv ==
  ASSUME SettingsInv, BreakByHand \/ RemoveByHand \/ CatalogChanges \/ UNCHANGED settingsVars
  PROVE  SettingsInv'
<1> USE DEF SettingsInv
<1>1. UNCHANGED <<spc, override, merged>>
  BY DEF BreakByHand, RemoveByHand, CatalogChanges, settingsVars
<1>2. Default \in [Fields -> Values]
  BY SettingsAssumption DEF Values
<1>3. SettingsTypeOK'
  BY <1>1, <1>2 DEF BreakByHand, RemoveByHand, CatalogChanges, settingsVars, SettingsTypeOK
<1>4. \A k \in Savers : Kept(k) => Kept(k)' /\ override'[k] = override[k]
  BY <1>1 DEF Kept
<1>5. MergedInv'
  BY <1>1, <1>4, FoundedStays DEF MergedInv, Requested
<1>6. file' = file \/ file'.state # "ok"
  BY DEF BreakByHand, RemoveByHand, CatalogChanges, settingsVars, SettingsTypeOK
<1>7. FileInv'
  BY <1>4, <1>6, FoundedStays DEF FileInv
<1> QED  BY <1>3, <1>5, <1>7

\* The invariant holds throughout.
LEMMA SettingsInductive == SettingsSpec => []SettingsInv
<1>1. SettingsInit => SettingsInv
  BY SettingsAssumption DEF SettingsInit, SettingsInv, SettingsTypeOK, FileInv, MergedInv, Values
<1>2. SettingsInv /\ [SettingsNext]_settingsVars => SettingsInv'
  BY PrepareKeepsInv, SaverKeepsInv, OutsideKeepsInv DEF SettingsNext
<1> QED  BY <1>1, <1>2, PTL DEF SettingsSpec

-----------------------------------------------------------------------------

\* Only a hand ever makes the file unloadable.
THEOREM FileStaysLoadable == SettingsSpec => []FileNeverTorn
<1>1. SettingsInit => FileNeverTorn
  BY DEF SettingsInit, FileNeverTorn
<1>2. FileNeverTorn /\ [SettingsNext]_settingsVars => FileNeverTorn'
  <2> SUFFICES ASSUME FileNeverTorn, [SettingsNext]_settingsVars PROVE FileNeverTorn'
    OBVIOUS
  <2>1. CASE /\ UNCHANGED file
             /\ UNCHANGED brokenByHand
    BY <2>1 DEF FileNeverTorn
  <2>2. CASE BreakByHand  BY <2>2 DEF BreakByHand, FileNeverTorn
  <2>3. CASE RemoveByHand  BY <2>3 DEF RemoveByHand, FileNeverTorn
  <2>4. ASSUME NEW s \in Savers, Replace(s) PROVE FileNeverTorn'
    BY <2>4 DEF Replace, FileNeverTorn
  <2> QED
    BY <2>1, <2>2, <2>3, <2>4 DEF SettingsNext, Prepare, WriteTemporary, WriteFails, Return, Die,
       CatalogChanges, settingsVars
<1> QED  BY <1>1, <1>2, PTL DEF SettingsSpec

\* Every value in the file is legal, and the default or one that a caller whose
\* save was not refused asked for.
THEOREM ValuesAreFounded == SettingsSpec => []EveryValueWasSaved
<1>1. SettingsInv => EveryValueWasSaved
  BY DEF SettingsInv, FileInv, Founded, Kept, EveryValueWasSaved
<1> QED  BY <1>1, SettingsInductive, PTL

=============================================================================
