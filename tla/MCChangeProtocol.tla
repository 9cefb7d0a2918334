-------------------------- MODULE MCChangeProtocol --------------------------
(* Small instances of ChangeProtocol for TLC. *)
EXTENDS ChangeProtocol
=============================================================================
