------------------------- MODULE MCGpuDescriptorHeap -------------------------
(***************************************************************************)
(* A small instance of GpuDescriptorHeap.                                  *)
(***************************************************************************)
EXTENDS GpuDescriptorHeap, TLC

CONSTANTS a, b

MCTables == {<<a>>, <<b, a>>, <<a, b, b>>}

=============================================================================
