----------------------------- MODULE MCSyncLog ------------------------------
(* SyncLog on small instances. *)
EXTENDS SyncLog, TLC

\* Devices, change ids and blob paths are interchangeable.
Symmetry ==
    Permutations(Clients) \cup Permutations(Changes) \cup Permutations(Blobs)
=============================================================================
