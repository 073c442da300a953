------------------------------ MODULE MCAsyncLog ------------------------------
(***************************************************************************)
(* Small instances of AsyncLog.                                            *)
(***************************************************************************)
EXTENDS AsyncLog, TLC

CONSTANTS w1, w2, m1, m2

WriterSymmetry == Permutations({w1, w2})

=============================================================================
