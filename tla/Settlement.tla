----------------------------- MODULE Settlement -----------------------------
(***************************************************************************)
(* What every payment channel of the bot promises, whatever the provider:  *)
(* a payment is opened, and then either credited to its user's wallet      *)
(* exactly once or closed without a credit; both ends are final.           *)
(*                                                                         *)
(* The channels under src/app/db/crud state this promise in the docstrings *)
(* of their approve_and_credit functions ("credit the user exactly once"). *)
(* The detailed modules of this directory are checked against it through   *)
(* INSTANCE Settlement WITH a mapping of their own rows.                   *)
(***************************************************************************)
EXTENDS Naturals

CONSTANT Payments      \* the payments (invoices, transactions) of a channel

VARIABLES
    phase,             \* phase[p]: where payment p is in its life
    credited           \* credited[p]: how often p was added to a wallet

vars == <<phase, credited>>

Phases == {"unborn", "open", "credited", "closed"}

TypeOK ==
    /\ phase \in [Payments -> Phases]
    /\ credited \in [Payments -> Nat]

Init ==
    /\ phase = [p \in Payments |-> "unborn"]
    /\ credited = [p \in Payments |-> 0]

(* The user asks for a payment: a row is stored. *)
Open(p) ==
    /\ phase[p] = "unborn"
    /\ phase' = [phase EXCEPT ![p] = "open"]
    /\ UNCHANGED credited

(* The provider confirmed the payment: one transaction closes the row and  *)
(* adds to the wallet.                                                     *)
Credit(p) ==
    /\ phase[p] = "open"
    /\ phase' = [phase EXCEPT ![p] = "credited"]
    /\ credited' = [credited EXCEPT ![p] = @ + 1]

(* The payment expired, was rejected or was cancelled. *)
Close(p) ==
    /\ phase[p] = "open"
    /\ phase' = [phase EXCEPT ![p] = "closed"]
    /\ UNCHANGED credited

(* An open payment whose creation failed is deleted again. *)
Withdraw(p) ==
    /\ phase[p] = "open"
    /\ phase' = [phase EXCEPT ![p] = "unborn"]
    /\ UNCHANGED credited

Next == \E p \in Payments : Open(p) \/ Credit(p) \/ Close(p) \/ Withdraw(p)

Spec == Init /\ [][Next]_vars

-----------------------------------------------------------------------------
(* A wallet was credited for a payment exactly when the payment is in its   *)
(* credited phase, and then once: approve_and_credit neither pays twice nor *)
(* pays for a row that is shown as closed or still open.                    *)
ExactlyOnce ==
    \A p \in Payments : credited[p] = IF phase[p] = "credited" THEN 1 ELSE 0

(* A credited or closed payment never changes again. *)
EndsAreFinal ==
    [][\A p \in Payments :
          phase[p] \in {"credited", "closed"} => phase'[p] = phase[p]]_vars
=============================================================================
