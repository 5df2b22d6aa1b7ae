----------------------------- MODULE CryptoStore -----------------------------
(***************************************************************************)
(* The cryptopayments table of one network and the operations of           *)
(* src/app/db/crud/cryptopayments.py on it.  Each operator is one database *)
(* transaction: the code locks the row (SELECT ... FOR UPDATE) or guards   *)
(* its UPDATE with the status, so a transaction is one atomic step.        *)
(*                                                                         *)
(* An amount is an integer number of 0.000001 coin, the quantum the code   *)
(* rounds to, so AMOUNT_MATCH_TOLERANCE is 1.  The wallet is represented   *)
(* by what each invoice added to it: credits[o] counts the credits of o.   *)
(***************************************************************************)
EXTENDS Integers

CONSTANTS
    Orders,        \* invoice numbers; they are compared, so integers
    Amounts,       \* the amounts pick_amount can produce for these invoices
    Transfers,     \* transaction ids of the chain
    NoTx           \* the NULL of the tx_hash column

ASSUME OrdersAssumption == Orders \subseteq Int
ASSUME AmountsAssumption == Amounts \subseteq Int
ASSUME NoTxAssumption == NoTx \notin Transfers

VARIABLES
    rows,          \* rows[o]: the invoice o, or a row of status "absent"
    credits,       \* credits[o]: how often o was added to its user's wallet
    now            \* the clock the createtime column is read from

storeVars == <<rows, credits>>

AMOUNT_MATCH_TOLERANCE == 1

Statuses == {"absent", "Pending", "Paid", "Expired"}

Row == [status : Statuses, amount : Int, createtime : Int,
        tx_hash : Transfers \union {NoTx}]

AbsentRow == [status |-> "absent", amount |-> 0, createtime |-> 0, tx_hash |-> NoTx]

StoreTypeOK ==
    /\ rows \in [Orders -> Row]
    /\ credits \in [Orders -> Nat]
    /\ now \in Nat

StoreInit ==
    /\ rows = [o \in Orders |-> AbsentRow]
    /\ credits = [o \in Orders |-> 0]
    /\ now = 1                \* 0 stands for "no time reported"

-----------------------------------------------------------------------------
(* amounts_collide: one transfer could match both amounts. *)
AmountsCollide(a, b) ==
    /\ a - b <= AMOUNT_MATCH_TOLERANCE
    /\ b - a <= AMOUNT_MATCH_TOLERANCE

Pending(o) == rows[o].status = "Pending"

(* get_pending_by_arz *)
PendingOrders == {o \in Orders : Pending(o)}

(* _pending_amounts(arz, exclude_order_id = o) *)
PendingAmountsBut(o) == {rows[p].amount : p \in PendingOrders \ {o}}

(* get_used_tx_hashes: those of txs that some invoice already holds *)
UsedHashes(txs) == {t \in txs : \E o \in Orders : rows[o].tx_hash = t}

-----------------------------------------------------------------------------
(* add_order_crypto_payment *)
AddOrder(o, amount, createtime) ==
    /\ rows[o].status = "absent"
    /\ rows' = [rows EXCEPT ![o] =
                  [status |-> "Pending", amount |-> amount,
                   createtime |-> createtime, tx_hash |-> NoTx]]
    /\ UNCHANGED credits

(* Mutant: the UPDATE finds no row. *)
SetPendingAmountLost(o, amount) == UNCHANGED storeVars

(* _set_pending_amount *)
SetPendingAmount(o, amount) ==
    /\ rows' = IF Pending(o) THEN [rows EXCEPT ![o].amount = amount] ELSE rows
    /\ UNCHANGED credits

(* Mutant: the DELETE is not guarded by the status. *)
DiscardAnyOrder(o) ==
    /\ rows' = [rows EXCEPT ![o] = AbsentRow]
    /\ UNCHANGED credits

(* _discard_pending_order *)
DiscardPendingOrder(o) ==
    /\ rows' = IF Pending(o) THEN [rows EXCEPT ![o] = AbsentRow] ELSE rows
    /\ UNCHANGED credits

(* Mutant: the UPDATE is not guarded by the status. *)
ExpireAnyPayment(o) ==
    /\ rows' = [rows EXCEPT ![o].status = "Expired"]
    /\ UNCHANGED credits

(* CryptoPaymentsCRUD.expire_payment *)
ExpirePayment(o) ==
    /\ rows' = IF Pending(o) THEN [rows EXCEPT ![o].status = "Expired"] ELSE rows
    /\ UNCHANGED credits

(* Mutant: the index is missing. *)
NoIndex(o, t) == TRUE

(* The unique index uq_crypto_tx_hash accepts t in the row of o. *)
IndexAccepts(o, t) == \A p \in Orders \ {o} : rows[p].tx_hash # t

(* Mutant: the wallet is not rolled back when the index refuses the row. *)
CreditBeforeIndex(o, t) ==
    /\ credits' = IF Pending(o) THEN [credits EXCEPT ![o] = @ + 1] ELSE credits
    /\ rows' = IF Pending(o) /\ IndexAccepts(o, t)
               THEN [rows EXCEPT ![o].status = "Paid", ![o].tx_hash = t] ELSE rows

(* CryptoPaymentsCRUD.approve_and_credit: nothing happens for an invoice   *)
(* that is not pending, and a transfer that another invoice holds rolls    *)
(* the transaction back (IntegrityError).                                  *)
ApproveAndCredit(o, t) ==
    IF Pending(o) /\ IndexAccepts(o, t)
    THEN /\ rows' = [rows EXCEPT ![o].status = "Paid", ![o].tx_hash = t]
         /\ credits' = [credits EXCEPT ![o] = @ + 1]
    ELSE UNCHANGED storeVars

-----------------------------------------------------------------------------
(* One transfer pays at most one invoice: two runs, a run that lost its    *)
(* list of used hashes and a restarted run included.                       *)
OneTransferOneInvoice ==
    \A o, p \in Orders :
        o # p /\ rows[o].tx_hash # NoTx => rows[o].tx_hash # rows[p].tx_hash

(* An invoice was credited once if it is Paid, and never otherwise: no     *)
(* expired or discarded invoice was credited, none was credited twice.     *)
CreditedIffPaid ==
    \A o \in Orders : credits[o] = IF rows[o].status = "Paid" THEN 1 ELSE 0

(* The rows as the payments of Settlement. *)
Phase(status) ==
    CASE status = "absent" -> "unborn"
      [] status = "Pending" -> "open"
      [] status = "Paid" -> "credited"
      [] status = "Expired" -> "closed"

Promise == INSTANCE Settlement
    WITH Payments <- Orders, credited <- credits,
         phase <- [o \in Orders |-> Phase(rows[o].status)]

(* The table keeps the promise every payment channel makes: an invoice is   *)
(* credited exactly once or closed without a credit, and both are final.    *)
ImplementsSettlement == Promise!Spec
=============================================================================
