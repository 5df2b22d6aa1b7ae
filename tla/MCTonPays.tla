------------------------------ MODULE MCTonPays ------------------------------
(* Two invoices, one of them of the custom gateway, a poller that checks one *)
(* invoice per run and one webhook task.                                     *)
EXTENDS TonPays
=============================================================================
