---------------------------- MODULE MCSupervisor ----------------------------
(* TLC instances of Supervisor: symmetry for the safety runs. *)
EXTENDS Supervisor, TLC

Symmetry == Permutations(Jobs) \cup Permutations(Cancellers)

=============================================================================
