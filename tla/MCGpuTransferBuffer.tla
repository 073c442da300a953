------------------------- MODULE MCGpuTransferBuffer -------------------------
(***************************************************************************)
(* Small instances of GpuTransferBuffer.                                   *)
(***************************************************************************)
EXTENDS GpuTransferBuffer, TLC

CONSTANTS x1

=============================================================================
