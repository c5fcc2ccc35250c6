--------------------------- MODULE MCWorkspaceDoc ---------------------------
(* WorkspaceDoc for TLC: clients and edits are interchangeable.            *)
EXTENDS WorkspaceDoc, TLC

Symmetry == Permutations(Clients) \cup Permutations(Edits)
=============================================================================
