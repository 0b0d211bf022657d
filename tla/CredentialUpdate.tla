--------------------------- MODULE CredentialUpdate ---------------------------
(***************************************************************************)
(* tools/update_qwen_credential.py replacing the key in Qwen's own         *)
(* settings.json, next to an editor (Qwen itself or the user) that changes *)
(* the same file.  Keys are known by their class; the JSON splice is the   *)
(* change of the named fields, everything else is the field `rest`.        *)
(***************************************************************************)
EXTENDS Naturals, FiniteSets

CONSTANTS
  Configs,     \* contents of settings.json the tool may meet
  MaxEdits     \* bound: how often the editor changes the file

\* What the tool looks at in a file: the configured key and model with its
\* endpoint, and of each provider entry whether it is an openai entry for that model
ASSUME CredentialAssumption ==
  \A c \in Configs :
    /\ c \in [key : STRING, modelIsReviewed : BOOLEAN, authIsOpenai : BOOLEAN,
              modelUrl : STRING, providers : {c.providers}]
    /\ c.providers \in
         [DOMAIN c.providers -> [active : BOOLEAN, url : STRING, usesKey : BOOLEAN]]

\* key class -> endpoint_for_key; other classes are not recognized
EndpointFor == [plan |-> "plan url", workspace |-> "workspace url"]

KnownUrls == {"legacy url", "plan url", "workspace url"}

KeyClasses == {"plan", "workspace", "unrecognized"}

VARIABLES
  qwen,       \* Qwen's settings.json: its configuration, inode and other text
  kpc,        \* control point of the tool
  entered,    \* the key class entered, None before
  configure,  \* --configure-endpoint
  original,   \* update_credential: the file it read
  edits,      \* history: number of edits so far
  unseen      \* history: an edit happened after the last comparison

credentialVars == <<qwen, kpc, entered, configure, original, edits, unseen>>

CredentialInit ==
  /\ qwen \in [config : Configs, inode : {0}, rest : {0}]
  /\ kpc = "prompt"
  /\ entered = "nothing"
  /\ configure \in BOOLEAN
  /\ original = qwen
  /\ edits = 0
  /\ unseen = FALSE

-----------------------------------------------------------------------------

\* the openai provider entries for the reviewed model
ActiveEntries(c) == {i \in DOMAIN c.providers : c.providers[i].active}

\* the refusals of update_credential for --configure-endpoint
Reviewed(c, key) ==
  /\ key \in DOMAIN EndpointFor
  /\ c.modelIsReviewed
  /\ c.modelUrl \in KnownUrls
  /\ c.authIsOpenai
  /\ Cardinality(ActiveEntries(c)) = 1
  /\ \A i \in ActiveEntries(c) : c.providers[i].url \in KnownUrls /\ c.providers[i].usesKey

\* without it only a Token Plan key depends on the endpoint that is configured
Approved(c, key) ==
  IF configure THEN Reviewed(c, key)
  ELSE key = "plan" => c.modelUrl = "plan url"

\* Seeded fault: the splice misses the provider entry
UpdatedModelOnly(c, key) ==
  IF configure THEN [c EXCEPT !.key = key, !.modelUrl = EndpointFor[key]]
  ELSE [c EXCEPT !.key = key]

\* the changes spliced into the text
Updated(c, key) ==
  IF configure
  THEN [c EXCEPT !.key = key,
                 !.modelUrl = EndpointFor[key],
                 !.providers = [i \in DOMAIN c.providers |->
                    IF i \in ActiveEntries(c)
                    THEN [c.providers[i] EXCEPT !.url = EndpointFor[key]]
                    ELSE c.providers[i]]]
  ELSE [c EXCEPT !.key = key]

Goto(point) == kpc' = point

\* main: the prompts; a mistyped confirmation or anything but UPDATE ends it
Enter(key) ==
  /\ kpc = "prompt"
  /\ Goto(IF configure /\ key \notin DOMAIN EndpointFor THEN "refused" ELSE "entered")
  /\ entered' = key
  /\ UNCHANGED <<qwen, configure, original, edits, unseen>>

Decline ==
  /\ kpc = "prompt"
  /\ Goto("refused")
  /\ UNCHANGED <<qwen, entered, configure, original, edits, unseen>>

\* update_credential up to the checked new text; the key may also be found in a
\* transcript
ReadAndSplice ==
  /\ kpc = "entered"
  /\ original' = qwen
  /\ unseen' = FALSE
  /\ \/ Approved(qwen.config, entered) /\ Goto("spliced")
     \/ Goto("refused")
  /\ UNCHANGED <<qwen, entered, configure, edits>>

\* Seeded fault: only the inode is compared
CompareInode ==
  /\ kpc = "spliced"
  /\ Goto(IF qwen.inode = original.inode THEN "compared" ELSE "refused")
  /\ unseen' = FALSE
  /\ UNCHANGED <<qwen, entered, configure, original, edits>>

\* the temporary file is on disk; read_settings again and compare
Compare ==
  /\ kpc = "spliced"
  /\ Goto(IF qwen = original THEN "compared" ELSE "refused")
  /\ unseen' = FALSE
  /\ UNCHANGED <<qwen, entered, configure, original, edits>>

\* os.replace: the new text with the original's other fields, in a new inode
ReplaceSettings ==
  /\ kpc = "compared"
  /\ qwen' = [config |-> Updated(original.config, entered), inode |-> qwen.inode + 1,
              rest |-> original.rest]
  /\ Goto("replaced")
  /\ UNCHANGED <<entered, configure, original, edits, unseen>>

\* read_settings once more: main reports success only for the text it wrote
Verify ==
  /\ kpc = "replaced"
  /\ Goto(IF /\ qwen.config = Updated(original.config, entered)
             /\ qwen.rest = original.rest
          THEN "updated" ELSE "unverified")
  /\ UNCHANGED <<qwen, entered, configure, original, edits, unseen>>

\* Ctrl+C, an OSError or a full disk: the finally block unlinks the temporary file
Abort ==
  /\ kpc \in {"entered", "spliced", "compared"}
  /\ Goto("refused")
  /\ UNCHANGED <<qwen, entered, configure, original, edits, unseen>>

\* the editor writes in place or renames a file of its own over it
Edit(newInode) ==
  /\ edits < MaxEdits
  /\ edits' = edits + 1
  /\ qwen' = [qwen EXCEPT !.rest = edits + 1, !.inode = @ + newInode]
  /\ unseen' = TRUE
  /\ UNCHANGED <<kpc, entered, configure, original>>

CredentialNext ==
  \/ \E key \in KeyClasses : Enter(key)
  \/ Decline \/ ReadAndSplice \/ Compare \/ ReplaceSettings \/ Verify \/ Abort
  \/ \E newInode \in {0, 1} : Edit(newInode)

CredentialSpec == CredentialInit /\ [][CredentialNext]_credentialVars

-----------------------------------------------------------------------------

\* os.replace drops somebody else's edit only if that edit fell between the
\* comparison and the rename; while the user was typing, or the temporary file
\* was written, no edit is lost ("Settings changed during entry").
EditsBeforeComparisonSurvive ==
  [][kpc = "compared" /\ kpc' = "replaced" /\ ~unseen
       => qwen'.rest = qwen.rest]_credentialVars

\* A successful run leaves no Token Plan key beside another endpoint for the
\* default model, and with --configure-endpoint the model and its provider entry
\* both have the endpoint of the key, all other entries keeping theirs.
KeyFitsEndpoint ==
  kpc = "updated" /\ ~unseen =>
    /\ qwen.config.key = entered
    /\ entered = "plan" => qwen.config.modelUrl = "plan url"
    /\ configure =>
         /\ qwen.config.modelUrl = EndpointFor[entered]
         /\ \A i \in DOMAIN qwen.config.providers :
              qwen.config.providers[i].url =
                IF qwen.config.providers[i].active THEN EndpointFor[entered]
                ELSE original.config.providers[i].url

=============================================================================
