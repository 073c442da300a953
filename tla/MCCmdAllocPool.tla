---------------------------- MODULE MCCmdAllocPool ----------------------------
(***************************************************************************)
(* Small instances of CmdAllocPool.                                        *)
(***************************************************************************)
EXTENDS CmdAllocPool, TLC

CONSTANTS l1, l2, j1, r1

(* Three frames or flushes of the window, two of the factory, one cast.    *)
Bounds == [window |-> 3, factory |-> 2, ray |-> 1]

=============================================================================
