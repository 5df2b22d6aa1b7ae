----------------------------- MODULE MCCryptoJob -----------------------------
(* Two invoices of amounts that can touch, one or two transfers, and a clock *)
(* in units of the shortest duration of the configuration.                   *)
EXTENDS CryptoJob

MCOrders == 1..2
MCAmounts == {10, 11, 12}
=============================================================================
