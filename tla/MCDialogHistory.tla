-------------------------- MODULE MCDialogHistory --------------------------
(***************************************************************************)
(* Instances of DialogHistory for TLC.                                     *)
(***************************************************************************)
EXTENDS DialogHistory
=============================================================================
