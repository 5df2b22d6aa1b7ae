--------------------------------- MODULE Stars ---------------------------------
(***************************************************************************)
(* Invoices paid with Telegram Stars (src/app/telegram/user/payment.py,    *)
(* src/app/db/crud/stars_transactions.py, src/app/jobs/payments/stars.py). *)
(* Telegram asks before it charges, charges, and tells the bot later; the  *)
(* link of an invoice can be paid by several people.  The expiry job       *)
(* copies the old rows and writes them back without looking again.         *)
(***************************************************************************)
EXTENDS Naturals, FiniteSets

CONSTANTS
    Invoices,
    Payments,      \* attempts to pay
    MAX_FAULTS     \* bound on database errors and restarts in the handler

VARIABLES
    status,    \* status[i]: the column, or "absent"
    old,       \* old[i]: created more than STARS_INVOICE_TTL_SECONDS ago
    credits,   \* credits[i]: how often i was added to the wallet
    payment,   \* payment[p]: how far it is, its invoice, and its paid_at
    job,       \* the rows the job copied and has yet to write
    hidden,    \* history: approved rows the job wrote over
    faults

vars == <<status, old, credits, payment, job, hidden, faults>>

NoPayment == [pc |-> "none", invoice |-> "none", late |-> FALSE]

Init ==
    /\ status = [i \in Invoices |-> "absent"]
    /\ old = [i \in Invoices |-> FALSE]
    /\ credits = [i \in Invoices |-> 0]
    /\ payment = [p \in Payments |-> NoPayment]
    /\ job = {} /\ hidden = {} /\ faults = 0

At(p, pc) == payment[p].pc = pc
Goes(p, pc) == payment' = [payment EXCEPT ![p].pc = pc]

Create(i) ==
    /\ status[i] = "absent"
    /\ status' = [status EXCEPT ![i] = "pending"]
    /\ UNCHANGED <<old, credits, payment, job, hidden, faults>>

Age(i) ==
    /\ status[i] # "absent" /\ ~old[i]
    /\ old' = [old EXCEPT ![i] = TRUE]
    /\ UNCHANGED <<status, credits, payment, job, hidden, faults>>

\* stars_precheckout_ok: Telegram charges only when the bot says so.
Precheckout(p, i) ==
    /\ At(p, "none")
    /\ status[i] = "pending" /\ ~old[i]
    /\ payment' = [payment EXCEPT ![p] = [pc |-> "allowed", invoice |-> i, late |-> FALSE]]
    /\ UNCHANGED <<status, old, credits, job, hidden, faults>>

Charge(p) ==
    /\ At(p, "allowed")
    /\ Goes(p, "charged")
    /\ UNCHANGED <<status, old, credits, job, hidden, faults>>

\* The bot is told, works out the bonus and takes the time, then waits for the row.
Deliver(p) ==
    /\ At(p, "charged")
    /\ payment' = [payment EXCEPT ![p].pc = "told", ![p].late = old[payment[p].invoice]]
    /\ UNCHANGED <<status, old, credits, job, hidden, faults>>

\* Mutant: the status is not looked at again.
ApproveAny(p) ==
    /\ At(p, "told")
    /\ status' = [status EXCEPT ![payment[p].invoice] = "approved"]
    /\ credits' = [credits EXCEPT ![payment[p].invoice] = @ + 1]
    /\ Goes(p, "credited")
    /\ UNCHANGED <<old, job, hidden, faults>>

\* approve_and_credit, one transaction.
Approve(p) ==
    /\ At(p, "told")
    /\ LET i == payment[p].invoice
           credit == status[i] = "pending" /\ ~payment[p].late
       IN  /\ status' = [status EXCEPT ![i] = IF @ # "pending" THEN @
                                              ELSE IF credit THEN "approved" ELSE "expired"]
           /\ credits' = [credits EXCEPT ![i] = @ + IF credit THEN 1 ELSE 0]
           /\ Goes(p, IF credit THEN "credited" ELSE "refused")
    /\ UNCHANGED <<old, job, hidden, faults>>

\* A database error, or the process dies: nothing tries this charge again.
HandlerFails(p) ==
    /\ payment[p].pc \in {"charged", "told"} /\ faults < MAX_FAULTS
    /\ Goes(p, "lost") /\ faults' = faults + 1
    /\ UNCHANGED <<status, old, credits, job, hidden>>

\* Mutant: the age of a pending row is not looked at.
JobListsAll ==
    /\ job = {}
    /\ job' = {i \in Invoices : status[i] = "pending"}
    /\ UNCHANGED <<status, old, credits, payment, hidden, faults>>

JobLists ==
    /\ job = {}
    /\ job' = {i \in Invoices : status[i] = "pending" /\ old[i]}
    /\ UNCHANGED <<status, old, credits, payment, hidden, faults>>

\* One commit writes all the copies.
JobWrites ==
    /\ job # {}
    /\ status' = [i \in Invoices |-> IF i \in job THEN "expired" ELSE status[i]]
    /\ hidden' = hidden \cup {i \in job : status[i] = "approved"}
    /\ job' = {}
    /\ UNCHANGED <<old, credits, payment, faults>>

Next ==
    \/ \E i \in Invoices : Create(i) \/ Age(i) \/ \E p \in Payments : Precheckout(p, i)
    \/ \E p \in Payments : Charge(p) \/ Deliver(p) \/ Approve(p) \/ HandlerFails(p)
    \/ JobLists \/ JobWrites

Spec == Init /\ [][Next]_vars

-----------------------------------------------------------------------------
(* Properties.                                                             *)

\* An invoice is credited once at most, however many people pay its link, and
\* its status says whether it was, unless the job copied the row before.
StatusTellsCredit ==
    \A i \in Invoices :
        /\ credits[i] <= 1
        /\ i \notin hidden => (credits[i] = 1 <=> status[i] = "approved")

\* Whom Telegram charged is credited, for these exceptions only: another payment
\* of the same invoice was, or the invoice came of age between the bot's consent
\* and the credit, or the handler itself failed.
ChargedIsCredited ==
    \A p \in Payments : At(p, "refused") =>
        credits[payment[p].invoice] = 1 \/ old[payment[p].invoice]

StarsKeepFaith == StatusTellsCredit /\ ChargedIsCredited

=============================================================================
