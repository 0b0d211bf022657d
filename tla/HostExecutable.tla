---------------------------- MODULE HostExecutable ----------------------------
(***************************************************************************)
(* ai_router/hosts.py: which executable of a host agent the dashboard      *)
(* resolves, probes for its version and caches, on a machine whose fixed   *)
(* directories, NVM installations and inherited PATH others may change at  *)
(* any time.  A version stands for the vMAJOR.MINOR.PATCH directory of its *)
(* name directly beneath the NVM root.                                     *)
(***************************************************************************)
EXTENDS Naturals, Sequences, SequencesExt, FiniteSetsExt

CONSTANTS
  NodeVersions, \* numeric versions of the NVM installations, all below 100
  Paths         \* the PATH values the dashboard may inherit: sequences of entries

ASSUME HostAssumption ==
  /\ NodeVersions \subseteq 1 .. 99
  /\ Paths \subseteq Seq(Nat)

VARIABLES
  machine,  \* executable in the fixed directories, and what each installation is
  path,     \* the inherited PATH: a version stands for its bin, other numbers for
            \* directories elsewhere
  detect,   \* hosts_snapshot: "idle", "resolved", "cached"
  chosen,   \* the resolved executable: "fixed", a version or Nothing
  prefix,   \* the NVM bin put in front of the probe's PATH, or Nothing
  versionKnown \* the cached version is a version, not unknown

hostVars == <<machine, path, detect, chosen, prefix, versionKnown>>

Nothing == 0
Fixed == 100

\* What an installation may be: "escaping" is a link out of the root, "without"
\* has no executable of the host's name, and a "foreign" one resolves outside, is
\* no regular file or not executable
Kinds == {"absent", "escaping", "without", "foreign", "good"}

Machines == [fixed : BOOLEAN, install : [NodeVersions -> Kinds]]

HostInit ==
  /\ machine \in Machines
  /\ path \in Paths
  /\ detect = "idle"
  /\ chosen = Nothing
  /\ prefix = Nothing
  /\ versionKnown = FALSE

-----------------------------------------------------------------------------

\* _valid_nvm_install, for a version or any other PATH entry
ValidInstall(entry) ==
  entry \in NodeVersions /\ machine.install[entry] \notin {"absent", "escaping"}

\* _valid_nvm_executable
ValidExecutable(v) == machine.install[v] = "good"

\* _active_nvm_executable looks at the PATH in order; 0 if no entry qualifies
Offering == SelectInSeq(path, LAMBDA entry : ValidInstall(entry) /\ ValidExecutable(entry))

\* _nvm_candidates
Candidates == {v \in NodeVersions : ValidInstall(v) /\ ValidExecutable(v)}

\* Seeded fault: the candidates are compared by name
HighestByName ==
  CHOOSE v \in Candidates : \A w \in Candidates :
    (IF v < 10 THEN 10 * v ELSE v) >= (IF w < 10 THEN 10 * w ELSE w)

\* the highest numeric version
Highest == Max(Candidates)

\* _nvm_executable
NvmExecutable ==
  IF Offering # 0 THEN path[Offering]
  ELSE IF Candidates # {} THEN Highest
  ELSE Nothing

\* resolve_executable
Resolved == IF machine.fixed THEN Fixed ELSE NvmExecutable

\* hosts_snapshot fills its cache once; Nothing is cached without a probe
Resolve ==
  /\ detect = "idle"
  /\ chosen' = Resolved
  /\ detect' = IF chosen' = Nothing THEN "cached" ELSE "resolved"
  /\ UNCHANGED <<machine, path, prefix, versionKnown>>

\* _nvm_bin_for validates the installation again
NvmBinFor(executable) ==
  IF ValidInstall(executable) /\ ValidExecutable(executable) THEN executable ELSE Nothing

\* probe_host_version: every failure is an unknown version
Probe ==
  /\ detect = "resolved"
  /\ detect' = "cached"
  /\ prefix' = NvmBinFor(chosen)
  /\ versionKnown' \in BOOLEAN
  /\ UNCHANGED <<machine, path, chosen>>

\* CLIs are installed, updated and removed
MachineChanges ==
  /\ detect # "cached"
  /\ \/ machine' = [machine EXCEPT !.fixed = ~@]
     \/ \E v \in NodeVersions, kind \in Kinds :
          machine' = [machine EXCEPT !.install[v] = kind]
  /\ UNCHANGED <<path, detect, chosen, prefix, versionKnown>>

HostNext == Resolve \/ Probe \/ MachineChanges

HostSpec == HostInit /\ [][HostNext]_hostVars

-----------------------------------------------------------------------------

\* The executable the dashboard runs is the fixed one if there is one.  Otherwise
\* it is a genuine installation's own, never one behind a link out of the NVM
\* root or a PATH entry elsewhere, and no installation that qualifies is newer
\* unless the chosen one is on the PATH and no other before it there.  None is
\* reported missing while one qualifies, and the probe puts no other Node
\* runtime in front of its PATH than the one it runs with.
HostChoiceTrusted ==
  [][/\ detect = "idle" /\ detect' # "idle" =>
          LET qualified == {v \in NodeVersions : machine.install[v] = "good"}
              onPath == {v \in qualified : v \in ToSet(path)}
          IN \/ machine.fixed /\ chosen' = Fixed
             \/ ~machine.fixed /\ qualified = {} /\ chosen' = Nothing
             \/ /\ ~machine.fixed /\ chosen' \in qualified
                /\ IF onPath = {} THEN \A v \in qualified : v <= chosen'
                   ELSE /\ chosen' \in onPath
                        /\ \E i \in DOMAIN path : path[i] = chosen'
                             /\ \A k \in 1 .. i - 1 : path[k] \notin onPath
     /\ prefix' # prefix => prefix' = chosen /\ machine.install[chosen] = "good"]_hostVars

=============================================================================
