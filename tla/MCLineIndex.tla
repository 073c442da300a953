------------------------------ MODULE MCLineIndex ------------------------------
(***************************************************************************)
(* A small instance of LineIndex.                                          *)
(***************************************************************************)
EXTENDS LineIndex, TLC

=============================================================================
