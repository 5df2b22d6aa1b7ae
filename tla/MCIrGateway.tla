----------------------------- MODULE MCIrGateway -----------------------------
(* Two payments, a poller that checks one of them per run, and one visitor   *)
(* (the callback page or the check button).                                  *)
EXTENDS IrGateway
=============================================================================
