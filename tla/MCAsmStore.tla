----------------------------- MODULE MCAsmStore -----------------------------
(* Small instances of AsmStore.                                            *)
EXTENDS AsmStore, TLC

=============================================================================
