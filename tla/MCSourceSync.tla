---------------------------- MODULE MCSourceSync ----------------------------
(***************************************************************************)
(* Small instances of SourceSync for TLC.                                  *)
(***************************************************************************)
EXTENDS SourceSync, TLC

DaemonAndFileSymmetry == Permutations(Workers) \cup Permutations(Files)
============================================================================
