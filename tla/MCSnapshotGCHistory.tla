------------------------ MODULE MCSnapshotGCHistory -------------------------
(* Instances of SnapshotGCHistory for TLC.                                 *)
EXTENDS SnapshotGCHistory, TLC

\* Revisions, and clients, are interchangeable.
Symmetry == Permutations(Revs) \cup Permutations(Clients)
=============================================================================
