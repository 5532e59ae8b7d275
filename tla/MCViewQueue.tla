---------------------------- MODULE MCViewQueue ----------------------------
(***************************************************************************)
(* ViewQueue on small instances: one document, so that every operation     *)
(* meets the others', and two or three operations.                         *)
(***************************************************************************)
EXTENDS ViewQueue
=============================================================================
