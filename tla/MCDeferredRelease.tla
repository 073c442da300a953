-------------------------- MODULE MCDeferredRelease --------------------------
(***************************************************************************)
(* A small instance of DeferredRelease.                                    *)
(***************************************************************************)
EXTENDS DeferredRelease, TLC

CONSTANTS o1, o2

=============================================================================
