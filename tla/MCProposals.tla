------------------------------ MODULE MCProposals ------------------------------
(* Small instances of Proposals for TLC. *)
EXTENDS Proposals, TLC

\* Nodes and PUT requests are interchangeable.
Symmetry == Permutations(Nodes) \cup Permutations(Puts)

\* The servers after their start: the first leader knows that it leads and its empty
\* entry is applied.  Every election brings the states of a start back.
StartedSpec == InitAt(1, TRUE) /\ [][Next]_vars
=============================================================================
