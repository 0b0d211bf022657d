---------------------------- MODULE WorktreeBroker ----------------------------
(***************************************************************************)
(* bin/worktree_mcp.py: the file tools an editing worker gets for its      *)
(* worktree.  The broker answers one message after the other; a worktree   *)
(* may come with links, special files and sensitive names.  What lies      *)
(* beneath a link is outside the worktree.                                 *)
(***************************************************************************)
EXTENDS Naturals, Sequences, FiniteSets

CONSTANTS
  PlainNames,     \* path components without restrictions
  SensitiveNames, \* .git, .env*, *.key and the other denied components
  Trees           \* the worktrees checked out: functions from paths to entries

VARIABLES
  tree,   \* what is at each path; at a path beneath a link, what is outside
  doing,  \* "idle", or "writing" once a file was opened and truncated
  call,   \* the tool call being handled: its tool, path and text
  answer  \* the last answer: "none", "ok", "rejected" or "failed"

brokerVars == <<tree, doing, call, answer>>

Names == PlainNames \cup SensitiveNames

TreePaths == {<<a>> : a \in Names} \cup {<<a, b>> : a, b \in Names}

\* A file is known by how often the text to replace occurs in it, "unreadable"
\* for one that is too large or no UTF-8; "written" and "replaced" are new contents
Files == {"never", "once", "twice", "unreadable", "written", "replaced", "empty"}

Entries == Files \cup {"absent", "directory", "link", "special"}

ASSUME BrokerAssumption ==
  /\ PlainNames \cap SensitiveNames = {}
  /\ \A t \in Trees : t \in [TreePaths -> Entries]

\* what a worker may ask for; <<>> is the worktree itself
AskedPaths == {<<>>, <<"..", "outside">>} \cup TreePaths

Tools == {"list_files", "search_text", "read_file", "write_file", "replace_in_file", "get_task"}

NoCall == [tool |-> "get_task", path |-> <<>>]

BrokerInit ==
  /\ tree \in Trees
  /\ doing = "idle"
  /\ call = NoCall
  /\ answer = "none"

-----------------------------------------------------------------------------

Before(p) == {SubSeq(p, 1, k) : k \in 1 .. Len(p) - 1}

UpTo(p) == {SubSeq(p, 1, k) : k \in 1 .. Len(p)}

\* safe_rel: no traversal, no control or sensitive component
SafeRel(p) == \A k \in DOMAIN p : p[k] \in PlainNames

\* safe_target: exists, and no component is a link; also the worktree itself
SafeTarget(p) ==
  /\ SafeRel(p)
  /\ \A q \in UpTo(p) : tree[q] \notin {"absent", "link"}
  /\ p # <<>> => tree[p] # "special"

IsFile(p) == p # <<>> /\ tree[p] \in Files

\* read_text
Readable(p) == SafeTarget(p) /\ IsFile(p) /\ tree[p] # "unreadable"

\* list_files: the walk enters no link and no sensitive directory
Listed(p) ==
  {q \in TreePaths : /\ SubSeq(q, 1, Len(p)) = p
                     /\ SafeRel(q)
                     /\ \A d \in Before(q) : tree[d] = "directory"
                     /\ tree[q] \in Files}

\* list_files, search_text: the directory they start from
Listable(p) == SafeTarget(p) /\ (p = <<>> \/ tree[p] = "directory")

\* Seeded fault: links on the way to the file are followed
ParentFollowed(p) ==
  /\ SafeRel(p)
  /\ p # <<>>
  /\ \A d \in Before(p) : tree[d] \in {"directory", "absent", "link"}

\* ensure_parent, as far as it may refuse
ParentSafe(p) ==
  /\ SafeRel(p)
  /\ p # <<>>
  /\ \A d \in Before(p) : tree[d] \in {"directory", "absent"}

\* ensure_parent: the missing directories on the way
WithParents(p) == [q \in TreePaths |-> IF q \in Before(p) /\ tree[q] = "absent"
                                       THEN "directory" ELSE tree[q]]

\* write_text: what it opens must be a regular file or missing
Writable(p) == tree[p] \in Files \cup {"absent"}

\* replace_text: exactly one occurrence in a readable file
Replaceable(p) == Readable(p) /\ tree[p] = "once"

-----------------------------------------------------------------------------
\* handle

Ask(tool, p) ==
  /\ doing = "idle"
  /\ call' = [tool |-> tool, path |-> p]

\* the tools that read; any of them may also fail on an OSError
Reads(tool, p) ==
  CASE tool = "list_files" -> Listable(p)
    [] tool = "search_text" -> Listable(p) /\ \A q \in Listed(p) : SafeTarget(q)
    [] tool = "read_file" -> Readable(p)
    [] tool = "get_task" -> TRUE

HandleRead ==
  \E tool \in {"list_files", "search_text", "read_file", "get_task"}, p \in AskedPaths :
    /\ Ask(tool, p)
    /\ answer' \in IF Reads(tool, p) THEN {"ok", "rejected"} ELSE {"rejected"}
    /\ UNCHANGED <<tree, doing>>

\* write_file and replace_in_file: refused before anything happens, also for
\* invalid or too large texts
RefuseWrite ==
  \E tool \in {"write_file", "replace_in_file"}, p \in AskedPaths :
    /\ Ask(tool, p)
    /\ answer' = "rejected"
    /\ UNCHANGED <<tree, doing>>

\* write_text makes the parents and then finds no regular file, or fails to open it
MakeParentsOnly ==
  \E p \in AskedPaths :
    /\ Ask("write_file", p)
    /\ ParentSafe(p)
    /\ tree' = WithParents(p)
    /\ answer' = "rejected"
    /\ UNCHANGED doing

\* write_text opens the file, which truncates or creates it
OpenFile ==
  \E tool \in {"write_file", "replace_in_file"}, p \in AskedPaths :
    /\ Ask(tool, p)
    /\ tool = "replace_in_file" => Replaceable(p)
    /\ ParentSafe(p)
    /\ Writable(p)
    /\ tree' = [WithParents(p) EXCEPT ![p] = "empty"]
    /\ doing' = "writing"
    /\ answer' = "none"

WriteFile ==
  /\ doing = "writing"
  /\ doing' = "idle"
  /\ tree' = [tree EXCEPT ![call.path] =
                IF call.tool = "write_file" THEN "written" ELSE "replaced"]
  /\ answer' = "ok"
  /\ UNCHANGED call

\* writing or syncing fails: the file stays truncated
WriteFileFails ==
  /\ doing = "writing"
  /\ doing' = "idle"
  /\ answer' = "failed"
  /\ UNCHANGED <<tree, call>>

BrokerNext ==
  HandleRead \/ RefuseWrite \/ MakeParentsOnly \/ OpenFile \/ WriteFile \/ WriteFileFails

BrokerSpec == BrokerInit /\ [][BrokerNext]_brokerVars

-----------------------------------------------------------------------------

\* Whatever a worker asks for, in whatever order, the broker changes nothing
\* outside its worktree, nothing with a sensitive name and no link or special
\* file; within it, only the file the call names and the missing directories on
\* the way to it.  A call that is rejected leaves every file as it was.  What a
\* listing shows, a later read accepts unless the file is unreadable.
BrokerConfined ==
  [][/\ \A p \in TreePaths : tree'[p] # tree[p] =>
          /\ \A k \in DOMAIN p : p[k] \notin SensitiveNames
          /\ \A d \in Before(p) : tree[d] # "link"
          /\ \/ p = call'.path /\ tree[p] \in Files \cup {"absent"}
             \/ p \in Before(call'.path) /\ tree[p] = "absent" /\ tree'[p] = "directory"
     /\ answer' = "rejected" => \A p \in TreePaths : tree[p] \in Files => tree'[p] = tree[p]
     /\ call'.tool = "list_files" /\ answer' = "ok" =>
          \A p \in Listed(call'.path) : tree[p] = "unreadable" \/ Readable(p)]_brokerVars

=============================================================================
