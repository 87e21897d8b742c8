------------------------------ MODULE MCSvnSync ------------------------------
(* Small instances of SvnSync.                                              *)
EXTENDS SvnSync, TLC

=============================================================================
