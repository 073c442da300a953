--------------------------- MODULE MCOrderBookStream ---------------------------
(***************************************************************************)
(* A small instance of OrderBookStream.                                    *)
(***************************************************************************)
EXTENDS OrderBookStream, TLC

CONSTANT bids

=============================================================================
