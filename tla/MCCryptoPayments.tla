-------------------------- MODULE MCCryptoPayments --------------------------
(* Two invoices created concurrently while the job runs; one transfer.       *)
EXTENDS CryptoPayments

MCOrders == 1..2
MCAmounts == {10, 12}
=============================================================================
