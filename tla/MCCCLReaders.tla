---------------------------- MODULE MCCCLReaders ----------------------------
(* CCLReaders for TLC. *)
EXTENDS MCCCL, CCLReaders
=============================================================================
