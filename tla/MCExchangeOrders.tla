--------------------------- MODULE MCExchangeOrders ---------------------------
(***************************************************************************)
(* Small instances of ExchangeOrders.                                      *)
(***************************************************************************)
EXTENDS ExchangeOrders, TLC

CONSTANTS o1, main_fund, f1, nil

=============================================================================
