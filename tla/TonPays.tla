------------------------------- MODULE TonPays -------------------------------
(***************************************************************************)
(* Top-up invoices of the TonPays gateway: src/app/services/payments/      *)
(* tonpays.py and src/app/db/crud/tonpays_invoices.py.  Three kinds of     *)
(* coroutine refresh an invoice from the gateway's answer: the polling job *)
(* (one instance, a batch of copies per run), the webhook and the check    *)
(* button; a fourth stores the answer to an uploaded receipt.  Each copies *)
(* a row, awaits the gateway and then writes the row; only the credit      *)
(* looks at the row again under a lock.                                    *)
(*                                                                         *)
(* All invoices belong to one user.  Statuses that the code treats alike   *)
(* are one: "processing" stands for need_action too, "rejected" for        *)
(* canceled, for an expiry reported by the gateway, and for an answer      *)
(* "completed" that is not marked as paid (final, and not credited).       *)
(***************************************************************************)
EXTENDS Naturals, FiniteSets, Sequences, SequencesExt

CONSTANTS
    Invoices,
    Custom,            \* the invoices of MODE_CUSTOM, which take receipts
    Poller,            \* the job
    Hooks,             \* webhook tasks and presses of the check button
    POLL_BATCH,
    MAX_OPEN_INVOICES

\* What the constants stand for.
Assumption ==
    /\ IsFiniteSet(Invoices) /\ Custom \subseteq Invoices
    /\ Poller \notin Hooks
    /\ POLL_BATCH \in Nat \ {0} /\ MAX_OPEN_INVOICES \in Nat

VARIABLES
    status,     \* status[i]: the column, or "absent"
    issued,     \* issued[i]: the gateway's invoice_id is stored
    credits,    \* credits[i]: how often i was added to the wallet
    order,      \* the invoices by updated_at, the least recent first
    old,        \* old[i]: created more than LOCAL_EXPIRY_SECONDS ago
    remote,     \* remote[i]: the invoice at the gateway
    creation,   \* creation[i]: how far create_deposit has got for i
    receipt,    \* receipt[i]: an upload was accepted, its answer is not stored
    worker      \* worker[w]: a running refresh_invoice, with its copies

rowVars == <<status, issued, credits, order>>
vars == <<status, issued, credits, order, old, remote, creation, receipt, worker>>

OPEN_STATUSES == {"pending", "processing"}
Statuses == OPEN_STATUSES \union {"absent", "completed", "rejected", "expired"}
RemoteStatuses == OPEN_STATUSES \union {"none", "completed", "rejected"}
Workers == Hooks \union {Poller}

Worker ==
    [pc : {"idle", "ask", "answered", "applying"},
     todo : Seq(Invoices),                    \* the rest of the batch
     copy : [Invoices -> Statuses],           \* the statuses as they were read
     answer : RemoteStatuses \union {"error"}]

IdleWorker == [pc |-> "idle", todo |-> <<>>, copy |-> [i \in Invoices |-> "absent"],
               answer |-> "none"]

TonPaysTypeOK ==
    /\ status \in [Invoices -> Statuses]
    /\ issued \in [Invoices -> BOOLEAN]
    /\ credits \in [Invoices -> Nat]
    /\ order \in Seq(Invoices) /\ ToSet(order) = Invoices
    /\ old \in [Invoices -> BOOLEAN]
    /\ remote \in [Invoices -> RemoteStatuses]
    /\ creation \in [Invoices -> {"none", "counted", "inserted", "ordered", "over"}]
    /\ receipt \in [Invoices -> BOOLEAN]
    /\ worker \in [Workers -> Worker]

Init ==
    /\ status = [i \in Invoices |-> "absent"]
    /\ issued = [i \in Invoices |-> FALSE]
    /\ credits = [i \in Invoices |-> 0]
    /\ order = SetToSeq(Invoices)
    /\ old = [i \in Invoices |-> FALSE]
    /\ remote = [i \in Invoices |-> "none"]
    /\ creation = [i \in Invoices |-> "none"]
    /\ receipt = [i \in Invoices |-> FALSE]
    /\ worker = [w \in Workers |-> IdleWorker]

Open(i) == status[i] \in OPEN_STATUSES

(* updated_at = now: the invoice goes to the end of the poller's order. *)
Touch(i) == order' = Append(SelectSeq(order, LAMBDA j : j # i), i)

(* TonPaysInvoiceCRUD.update(i, status = s): whatever the row's status is. *)
UpdateStatus(i, s) ==
    /\ status' = [status EXCEPT ![i] = s]
    /\ Touch(i)
    /\ UNCHANGED <<issued, credits>>

-----------------------------------------------------------------------------
(* create_deposit: the open invoices are counted, the row is inserted, the *)
(* gateway is asked, and its invoice_id is stored.                         *)
CountOpen(i) ==
    /\ creation[i] = "none"
    /\ Cardinality({j \in Invoices : Open(j)}) < MAX_OPEN_INVOICES
    /\ creation' = [creation EXCEPT ![i] = "counted"]
    /\ UNCHANGED <<status, issued, credits, order, old, remote, receipt, worker>>

InsertRow(i) ==
    /\ creation[i] = "counted"
    /\ creation' = [creation EXCEPT ![i] = "inserted"]
    /\ UpdateStatus(i, "pending")
    /\ UNCHANGED <<old, remote, receipt, worker>>

GatewayIssues(i) ==
    /\ creation[i] = "inserted"
    /\ creation' = [creation EXCEPT ![i] = "ordered"]
    /\ remote' = [remote EXCEPT ![i] = "pending"]
    /\ UNCHANGED <<rowVars, old, receipt, worker>>

(* TonPaysError: the row is deleted again. *)
GatewayRefuses(i) ==
    /\ creation[i] = "inserted"
    /\ creation' = [creation EXCEPT ![i] = "over"]
    /\ status' = [status EXCEPT ![i] = "absent"]
    /\ UNCHANGED <<issued, credits, order, old, remote, receipt, worker>>

StoreInvoiceId(i) ==
    /\ creation[i] = "ordered"
    /\ creation' = [creation EXCEPT ![i] = "over"]
    /\ status' = [status EXCEPT ![i] = "pending"]
    /\ issued' = [issued EXCEPT ![i] = TRUE]
    /\ Touch(i)
    /\ UNCHANGED <<credits, old, remote, receipt, worker>>

Creating(i) ==
    CountOpen(i) \/ InsertRow(i) \/ GatewayIssues(i) \/ GatewayRefuses(i) \/ StoreInvoiceId(i)

-----------------------------------------------------------------------------
At(w, pc) == worker[w].pc = pc
Current(w) == Head(worker[w].todo)
Answer(w) == worker[w].answer
Applying(w) == worker[w].pc \in {"answered", "applying"}

Start(w, batch) ==
    worker' = [worker EXCEPT ![w] =
                 [pc |-> "ask", todo |-> batch, answer |-> "none",
                  copy |-> [i \in Invoices |-> IF Contains(batch, i) THEN status[i] ELSE "absent"]]]

(* list_open(POLL_BATCH) *)
Pollable == SelectSeq(order, LAMBDA i : Open(i) /\ issued[i])

ListOpen ==
    /\ At(Poller, "idle")
    /\ Pollable # <<>>
    /\ Start(Poller, SubSeq(Pollable, 1, IF Len(Pollable) < POLL_BATCH
                                         THEN Len(Pollable) ELSE POLL_BATCH))
    /\ UNCHANGED <<rowVars, old, remote, creation, receipt>>

(* refresh_by_invoice_id and the check button; a closed or unissued        *)
(* invoice is returned as it is.                                           *)
Load(h, i) ==
    /\ At(h, "idle") /\ h \in Hooks
    /\ Open(i) /\ issued[i]
    /\ Start(h, <<i>>)
    /\ UNCHANGED <<rowVars, old, remote, creation, receipt>>

Receive(w, answer) ==
    /\ At(w, "ask")
    /\ worker' = [worker EXCEPT ![w].pc = "answered", ![w].answer = answer]
    /\ UNCHANGED <<rowVars, old, remote, creation, receipt>>

(* TonPaysClient.check *)
Ask(w) == Receive(w, remote[Current(w)])
AskFails(w) == Receive(w, "error")

(* The answer holds a final_amount: it is stored, and the copy is replaced *)
(* by the row as it is now.                                                *)
StoreFinalAmount(w) ==
    /\ At(w, "answered") /\ Answer(w) # "error"
    /\ Touch(Current(w))
    /\ worker' = [worker EXCEPT ![w].pc = "applying",
                                ![w].copy[Current(w)] = status[Current(w)]]
    /\ UNCHANGED <<status, issued, credits, old, remote, creation, receipt>>

(* refresh_invoice returns: the poller goes on with its batch. *)
Return(w) ==
    /\ worker' = [worker EXCEPT
                    ![w] = IF Len(worker[w].todo) = 1 THEN IdleWorker
                           ELSE [worker[w] EXCEPT !.pc = "ask", !.todo = Tail(worker[w].todo),
                                   !.answer = "none", !.copy[Current(w)] = "absent"]]
    /\ UNCHANGED <<old, remote, creation, receipt>>

(* _credit_invoice, whose approve_and_credit locks and re-reads the row. *)
Credit(w) ==
    /\ Applying(w) /\ Answer(w) = "completed"
    /\ LET i == Current(w) IN
         IF Open(i)
         THEN /\ status' = [status EXCEPT ![i] = "completed"]
              /\ credits' = [credits EXCEPT ![i] = @ + 1]
              /\ Touch(i)
              /\ UNCHANGED issued
         ELSE UNCHANGED rowVars
    /\ Return(w)

(* _close_invoice with the gateway's status *)
CloseAsReported(w) ==
    /\ Applying(w) /\ Answer(w) = "rejected"
    /\ UpdateStatus(Current(w), Answer(w))
    /\ Return(w)

NothingFinal(w) == Answer(w) \in OPEN_STATUSES \union {"error"}

(* Mutant: a failed check closes the invoice whatever its age. *)
CloseUnanswered(w) ==
    /\ Applying(w) /\ NothingFinal(w)
    /\ old[Current(w)] \/ Answer(w) = "error"
    /\ UpdateStatus(Current(w), "expired")
    /\ Return(w)

(* Mutant: the age is looked at only when the gateway failed. *)
CloseOldUnanswered(w) ==
    /\ Applying(w) /\ Answer(w) = "error" /\ old[Current(w)]
    /\ UpdateStatus(Current(w), "expired")
    /\ Return(w)

(* _close_invoice(invoice, "expired") *)
CloseOld(w) ==
    /\ Applying(w) /\ NothingFinal(w) /\ old[Current(w)]
    /\ UpdateStatus(Current(w), "expired")
    /\ Return(w)

Changed(w) == Answer(w) # "error" /\ Answer(w) # worker[w].copy[Current(w)]

StoreStatus(w) ==
    /\ Applying(w) /\ NothingFinal(w) /\ ~old[Current(w)]
    /\ Changed(w)
    /\ UpdateStatus(Current(w), Answer(w))
    /\ Return(w)

(* Mutant: a check without a result leaves updated_at alone. *)
NoBump(w) ==
    /\ Applying(w) /\ NothingFinal(w) /\ ~old[Current(w)]
    /\ ~Changed(w)
    /\ UNCHANGED rowVars
    /\ Return(w)

(* update(invoice.id) without a field: the poller turns to other invoices. *)
Bump(w) ==
    /\ Applying(w) /\ NothingFinal(w) /\ ~old[Current(w)]
    /\ ~Changed(w)
    /\ Touch(Current(w))
    /\ UNCHANGED <<status, issued, credits>>
    /\ Return(w)

(* The invoice was not paid: it is closed or kept waiting. *)
Wait(w) == CloseAsReported(w) \/ CloseOld(w) \/ StoreStatus(w) \/ Bump(w)

Apply(w) == Credit(w) \/ Wait(w)

(* A database error (or a user that is gone): the poller logs it and goes  *)
(* on with the next invoice; updated_at stays as it was.                   *)
RefreshFails(w) ==
    /\ Applying(w)
    /\ UNCHANGED rowVars
    /\ Return(w)

Refreshing(w) == Ask(w) \/ AskFails(w) \/ StoreFinalAmount(w) \/ Apply(w) \/ RefreshFails(w)

-----------------------------------------------------------------------------
(* submit_receipt: the gateway takes the receipt, later its answer is      *)
(* stored over whatever status the row then has.                           *)
UploadReceipt(i) ==
    /\ i \in Custom /\ Open(i) /\ issued[i] /\ ~receipt[i]
    /\ remote[i] \in OPEN_STATUSES
    /\ remote' = [remote EXCEPT ![i] = "processing"]
    /\ receipt' = [receipt EXCEPT ![i] = TRUE]
    /\ UNCHANGED <<rowVars, old, creation, worker>>

StoreReceipt(i) ==
    /\ receipt[i]
    /\ UpdateStatus(i, "processing")
    /\ receipt' = [receipt EXCEPT ![i] = FALSE]
    /\ UNCHANGED <<old, remote, creation, worker>>

(* The gateway: an open invoice is processed, paid or rejected. *)
GatewayMoves(i) ==
    /\ remote[i] \in OPEN_STATUSES
    /\ \E s \in {"processing", "completed", "rejected"} :
         remote' = [remote EXCEPT ![i] = s]
    /\ UNCHANGED <<rowVars, old, creation, receipt, worker>>

(* 24 hours pass. *)
Age(i) ==
    /\ issued[i] /\ ~old[i]
    /\ old' = [old EXCEPT ![i] = TRUE]
    /\ UNCHANGED <<rowVars, remote, creation, receipt, worker>>

(* A coroutine ends where it is, with a restart of the process or an error *)
(* nobody handles.                                                         *)
CreationDies(i) ==
    /\ creation[i] \notin {"none", "over"}
    /\ creation' = [creation EXCEPT ![i] = "over"]
    /\ UNCHANGED <<rowVars, old, remote, receipt, worker>>

ReceiptDies(i) ==
    /\ receipt[i]
    /\ receipt' = [receipt EXCEPT ![i] = FALSE]
    /\ UNCHANGED <<rowVars, old, remote, creation, worker>>

Next ==
    \/ \E i \in Invoices : \/ Creating(i) \/ UploadReceipt(i) \/ StoreReceipt(i)
                           \/ GatewayMoves(i) \/ Age(i) \/ CreationDies(i) \/ ReceiptDies(i)
    \/ \E h \in Hooks, i \in Invoices : Load(h, i)
    \/ \E w \in Workers : Refreshing(w)
    \/ ListOpen

Spec == Init /\ [][Next]_vars

(* The scheduler runs the job again and again; a call of the gateway and a *)
(* database call that are tried again and again succeed at some time.      *)
Fairness ==
    /\ WF_vars(ListOpen \/ Refreshing(Poller))
    /\ \A i \in Invoices :
         /\ SF_vars(Ask(Poller) /\ Current(Poller) = i)
         /\ SF_vars(Credit(Poller) /\ Current(Poller) = i)
         /\ SF_vars(Wait(Poller) /\ Current(Poller) = i)

FairSpec == Spec /\ Fairness

-----------------------------------------------------------------------------
(* Only what the gateway itself reports as paid is credited: neither a     *)
(* webhook nor the button nor a stale copy is taken at its word.           *)
NeverCreditedUnpaid == \A i \in Invoices : credits[i] > 0 => remote[i] = "completed"

(* A paid invoice is closed without a credit for one reason only: it was   *)
(* older than a day when a check failed or came too early.                 *)
PaidLostOnlyByAge ==
    \A i \in Invoices :
        remote[i] = "completed" /\ issued[i] /\ ~Open(i) /\ credits[i] = 0 => old[i]

(* A missed webhook loses nothing: the poller reaches every paid invoice,  *)
(* however many others it has to check, before it is a day old.            *)
PaidWaits(i) == remote[i] = "completed" /\ issued[i] /\ Open(i)
CreditedOrOld(i) == credits[i] > 0 \/ old[i]
PaidIsCredited == \A i \in Invoices : PaidWaits(i) ~> CreditedOrOld(i)

(* Every issued invoice is closed after a day, even if the gateway still   *)
(* reports it open, so it does not count against MAX_OPEN_INVOICES for     *)
(* ever.                                                                   *)
OldOpen(i) == old[i] /\ Open(i)
OldInvoiceEnds == \A i \in Invoices : OldOpen(i) ~> ~OldOpen(i)

(* "Mark an open invoice completed and credit the user exactly once"       *)
(* (approve_and_credit).                                                   *)
CreditedAtMostOnce == \A i \in Invoices : credits[i] <= 1
=============================================================================
