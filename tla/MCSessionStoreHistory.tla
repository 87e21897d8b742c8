----------------------- MODULE MCSessionStoreHistory -----------------------
(* Small instances of SessionStoreHistory.                                 *)
EXTENDS SessionStoreHistory, TLC

Symmetry == Permutations(Editors) \cup Permutations(Readers)

=============================================================================
