---------------------------- MODULE JobLifecycle ----------------------------
(***************************************************************************)
(* What the job system promises to somebody who only sees the recorded     *)
(* status of a job and the answer its submitter gets: a job moves along    *)
(* queued -> running -> terminal, may leave the queue cancelled or failed, *)
(* never leaves a terminal status, and an answer is given once, after the  *)
(* job has settled.  An answer other than "failed" is the recorded status. *)
(*                                                                         *)
(* This is the abstract specification; Supervisor implements it.           *)
(***************************************************************************)
CONSTANTS Jobs, Outcomes, NoAnswer

VARIABLES phase, told

lifecycleVars == <<phase, told>>

Init ==
  /\ phase = [j \in Jobs |-> "absent"]
  /\ told = [j \in Jobs |-> NoAnswer]

\* the successors of a phase
After(p) ==
  CASE p = "absent"  -> {"queued"}
    [] p = "queued"  -> {"running", "cancelled", "failed"}
    [] p = "running" -> Outcomes
    [] OTHER         -> {}

Move(j) == \E p \in After(phase[j]) : phase' = [phase EXCEPT ![j] = p]

\* the submitter gets an answer, possibly in the step that settles the job
Tell(j) ==
  /\ told[j] = NoAnswer
  /\ phase'[j] \in Outcomes
  /\ \E a \in {phase'[j], "failed"} : told' = [told EXCEPT ![j] = a]

Next == \E j \in Jobs :
  \/ Move(j) /\ UNCHANGED told
  \/ (Move(j) \/ UNCHANGED phase) /\ Tell(j)

Spec == Init /\ [][Next]_lifecycleVars

=============================================================================
