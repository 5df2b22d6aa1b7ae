------------------------------ MODULE IrGateway ------------------------------
(***************************************************************************)
(* Top-up payments of the Iranian direct gateways (Zarinpal, Zibal):       *)
(* src/app/services/payments/ir_gateways/service.py and src/app/db/crud/   *)
(* ir_gateway_payments.py.  The poller, the buyer's return to the callback *)
(* page and the check button run verify_payment concurrently: each holds a *)
(* copy of the row, awaits the gateway's verify and then ends the payment. *)
(* A successful verify settles the buyer's money with the shop; money that *)
(* is never verified goes back to the buyer.                               *)
(***************************************************************************)
EXTENDS Naturals, FiniteSets, Sequences, SequencesExt

CONSTANTS
    Payments,          \* the payments of one user, of any gateway
    Poller,            \* the job
    Visitors,          \* returns to the callback page and presses of the button
    POLL_BATCH,
    MAX_OPEN_PAYMENTS

ASSUME PaymentsAssumption == IsFiniteSet(Payments)
ASSUME PollerAssumption == Poller \notin Visitors
ASSUME LimitsAssumption == POLL_BATCH \in Nat \ {0} /\ MAX_OPEN_PAYMENTS \in Nat

VARIABLES
    status,      \* status[p]: the column, or "absent"
    authority,   \* authority[p]: the gateway's id of the payment is stored
    credits,     \* credits[p]: how often p was added to the wallet
    order,       \* the payments by updated_at, the least recent first
    old,         \* old[p]: created more than LOCAL_EXPIRY_SECONDS ago
    remote,      \* remote[p]: the payment at the gateway
    creation,    \* creation[p]: how far create_deposit has got for p
    worker       \* worker[w]: a running verify_payment, with its copies

rowVars == <<status, authority, credits, order>>
vars == <<status, authority, credits, order, old, remote, creation, worker>>

FAILED_STATUSES == {"failed", "canceled", "expired"}
Statuses == FAILED_STATUSES \union {"absent", "pending", "completed"}
RemoteStatuses == {"none", "unpaid", "paid", "verified", "failed"}
Outcomes == {"none", "paid", "unpaid", "failed", "error"}
Workers == Visitors \union {Poller}

Worker ==
    [pc : {"idle", "ask", "answered", "closing"},
     todo : Seq(Payments),        \* the rest of the batch
     expired : BOOLEAN,           \* read before the gateway is asked
     canceled : BOOLEAN,          \* buyer_canceled, as the return URL claims
     outcome : Outcomes,
     close : FAILED_STATUSES \union {"none"}]

IdleWorker == [pc |-> "idle", todo |-> <<>>, expired |-> FALSE, canceled |-> FALSE,
               outcome |-> "none", close |-> "none"]

IrTypeOK ==
    /\ status \in [Payments -> Statuses]
    /\ authority \in [Payments -> BOOLEAN]
    /\ credits \in [Payments -> Nat]
    /\ order \in Seq(Payments) /\ ToSet(order) = Payments
    /\ old \in [Payments -> BOOLEAN]
    /\ remote \in [Payments -> RemoteStatuses]
    /\ creation \in [Payments -> {"none", "counted", "inserted", "requested", "over"}]
    /\ worker \in [Workers -> Worker]

Init ==
    /\ status = [p \in Payments |-> "absent"]
    /\ authority = [p \in Payments |-> FALSE]
    /\ credits = [p \in Payments |-> 0]
    /\ order = SetToSeq(Payments)
    /\ old = [p \in Payments |-> FALSE]
    /\ remote = [p \in Payments |-> "none"]
    /\ creation = [p \in Payments |-> "none"]
    /\ worker = [w \in Workers |-> IdleWorker]

Pending(p) == status[p] = "pending"

(* updated_at = now: the payment goes to the end of the poller's order. *)
Touch(p) == order' = Append(SelectSeq(order, LAMBDA q : q # p), p)

-----------------------------------------------------------------------------
(* create_deposit: the open payments are counted, the row is inserted, the *)
(* gateway is asked, and its authority is stored.                          *)
Creates(p, from, to) ==
    /\ creation[p] = from
    /\ creation' = [creation EXCEPT ![p] = to]
    /\ UNCHANGED <<credits, old, worker>>

CountOpen(p) ==
    /\ Creates(p, "none", "counted")
    /\ Cardinality({q \in Payments : Pending(q)}) < MAX_OPEN_PAYMENTS
    /\ UNCHANGED <<status, authority, order, remote>>

InsertRow(p) ==
    /\ Creates(p, "counted", "inserted")
    /\ status' = [status EXCEPT ![p] = "pending"]
    /\ Touch(p)
    /\ UNCHANGED <<authority, remote>>

GatewayAccepts(p) ==
    /\ Creates(p, "inserted", "requested")
    /\ remote' = [remote EXCEPT ![p] = "unpaid"]
    /\ UNCHANGED <<status, authority, order>>

(* GatewayError: the row is deleted again. *)
GatewayRefuses(p) ==
    /\ Creates(p, "inserted", "over")
    /\ status' = [status EXCEPT ![p] = "absent"]
    /\ UNCHANGED <<authority, order, remote>>

StoreAuthority(p) ==
    /\ Creates(p, "requested", "over")
    /\ authority' = [authority EXCEPT ![p] = TRUE]
    /\ Touch(p)
    /\ UNCHANGED <<status, remote>>

(* A restart, or an error nobody handles, between two of these calls. *)
CreationDies(p) ==
    /\ \E from \in {"counted", "inserted", "requested"} : Creates(p, from, "over")
    /\ UNCHANGED <<status, authority, order, remote>>

Creating(p) ==
    \/ CountOpen(p) \/ InsertRow(p) \/ GatewayAccepts(p) \/ GatewayRefuses(p)
    \/ StoreAuthority(p) \/ CreationDies(p)

-----------------------------------------------------------------------------
At(w, pc) == worker[w].pc = pc
Current(w) == Head(worker[w].todo)

(* verify_payment is called for the first payment of the batch. *)
Begin(w, batch, claimed) ==
    worker' = [worker EXCEPT ![w] =
                 [IdleWorker EXCEPT !.pc = "ask", !.todo = batch,
                                    !.expired = old[Head(batch)], !.canceled = claimed]]

Pollable == SelectSeq(order, LAMBDA p : Pending(p) /\ authority[p])

(* list_open(POLL_BATCH) *)
ListOpen ==
    /\ At(Poller, "idle") /\ Pollable # <<>>
    /\ LET batch == SubSeq(Pollable, 1, IF Len(Pollable) < POLL_BATCH
                                        THEN Len(Pollable) ELSE POLL_BATCH)
       IN  Begin(Poller, batch, FALSE)
    /\ UNCHANGED <<rowVars, old, remote, creation>>

(* handle_callback (what the URL claims is the buyer's word) and the button. *)
Visit(v, p) ==
    /\ v \in Visitors /\ At(v, "idle")
    /\ Pending(p) /\ authority[p]
    /\ \E claimed \in BOOLEAN : Begin(v, <<p>>, claimed)
    /\ UNCHANGED <<rowVars, old, remote, creation>>

Receive(w, outcome) ==
    /\ At(w, "ask")
    /\ worker' = [worker EXCEPT ![w].pc = "answered", ![w].outcome = outcome]
    /\ UNCHANGED <<rowVars, old, creation>>

(* Mutant: a return URL that claims success is believed. *)
VerifyTrusting(w) ==
    /\ Receive(w, IF worker[w].canceled THEN "unpaid" ELSE "paid")
    /\ UNCHANGED remote

(* provider.verify: the first and every later verify of a paid payment say *)
(* paid; others are unpaid (yet) or failed (for ever).                     *)
Verify(w) ==
    /\ At(w, "ask")
    /\ LET p == Current(w) IN
         IF remote[p] \in {"paid", "verified"}
         THEN Receive(w, "paid") /\ remote' = [remote EXCEPT ![p] = "verified"]
         ELSE Receive(w, remote[p]) /\ UNCHANGED remote

(* GatewayError: the answer did not arrive, whether or not verify was done. *)
VerifyFails(w) ==
    /\ Receive(w, "error")
    /\ LET p == Current(w) IN
         \/ UNCHANGED remote
         \/ remote[p] = "paid" /\ remote' = [remote EXCEPT ![p] = "verified"]

(* An error code of the gateway (too many attempts, merchant suspended ...) *)
(* is taken for an unpaid payment.                                         *)
VerifyRefused(w) == Receive(w, "unpaid") /\ UNCHANGED remote

(* verify_payment returns: the poller goes on with its batch. *)
Return(w) ==
    LET rest == Tail(worker[w].todo) IN
    /\ IF rest = <<>> THEN worker' = [worker EXCEPT ![w] = IdleWorker]
                      ELSE Begin(w, rest, FALSE)
    /\ UNCHANGED <<old, remote, creation>>

Says(w, outcome) == At(w, "answered") /\ worker[w].outcome = outcome

(* Mutant: the status is not looked at again under the lock. *)
CreditAnyStatus(w) ==
    /\ Says(w, "paid")
    /\ LET p == Current(w) IN
         /\ status' = [status EXCEPT ![p] = "completed"]
         /\ credits' = [credits EXCEPT ![p] = @ + 1]
         /\ Touch(p) /\ UNCHANGED authority
    /\ Return(w)

(* _credit_payment: approve_and_credit locks the row and looks again. *)
Credit(w) ==
    /\ Says(w, "paid")
    /\ LET p == Current(w) IN
         IF Pending(p)
         THEN /\ status' = [status EXCEPT ![p] = "completed"]
              /\ credits' = [credits EXCEPT ![p] = @ + 1]
              /\ Touch(p) /\ UNCHANGED authority
         ELSE UNCHANGED rowVars
    /\ Return(w)

NotPaid(w) == At(w, "answered") /\ worker[w].outcome \in {"unpaid", "error"}

(* Mutant: the age counts only when the gateway did not answer. *)
ClosesOldUnanswered(w) ==
    IF worker[w].outcome = "failed" THEN "failed"
    ELSE IF worker[w].outcome = "unpaid" /\ worker[w].canceled THEN "canceled"
    ELSE IF worker[w].outcome = "error" /\ worker[w].expired THEN "expired" ELSE "none"

(* Mutant: the callback closes what it could not verify. *)
ClosesUnasked(w) ==
    IF worker[w].outcome = "failed" THEN "failed"
    ELSE IF worker[w].canceled THEN "canceled"
    ELSE IF worker[w].expired \/ worker[w].outcome = "error" THEN "expired" ELSE "none"

(* The final status an answer that is not "paid" leads to, if any: a claim *)
(* of the return URL counts only when the gateway answered.                *)
ClosesAs(w) ==
    IF worker[w].outcome = "failed" THEN "failed"
    ELSE IF worker[w].outcome = "unpaid" /\ worker[w].canceled THEN "canceled"
    ELSE IF worker[w].expired THEN "expired" ELSE "none"

(* close_if_open reads the row without a lock ...                          *)
CloseReads(w) ==
    /\ At(w, "answered") /\ worker[w].outcome # "paid" /\ ClosesAs(w) # "none"
    /\ IF Pending(Current(w))
       THEN /\ worker' = [worker EXCEPT ![w].pc = "closing", ![w].close = ClosesAs(w)]
            /\ UNCHANGED <<old, remote, creation>>
       ELSE Return(w)
    /\ UNCHANGED rowVars

(* ... and then writes it, UPDATE ... WHERE id = p. *)
CloseWrites(w) ==
    /\ At(w, "closing")
    /\ status' = [status EXCEPT ![Current(w)] = worker[w].close]
    /\ Touch(Current(w))
    /\ UNCHANGED <<authority, credits>>
    /\ Return(w)

(* Mutant: a check without a result leaves updated_at alone. *)
NoBump(w) ==
    /\ NotPaid(w) /\ ClosesAs(w) = "none"
    /\ UNCHANGED rowVars
    /\ Return(w)

(* update(payment.id) without a field: the poller turns to other payments. *)
Bump(w) ==
    /\ NotPaid(w) /\ ClosesAs(w) = "none"
    /\ Touch(Current(w))
    /\ UNCHANGED <<status, authority, credits>>
    /\ Return(w)

(* A database error: caught in approve_and_credit, else by the caller. *)
DbError(w) ==
    /\ worker[w].pc \in {"answered", "closing"}
    /\ UNCHANGED rowVars
    /\ Return(w)

Verifying(w) ==
    \/ Verify(w) \/ VerifyFails(w) \/ VerifyRefused(w)
    \/ Credit(w) \/ CloseReads(w) \/ CloseWrites(w) \/ Bump(w)

-----------------------------------------------------------------------------
(* The buyer pays, or the gateway rules that this payment cannot succeed. *)
BuyerActs(p) ==
    /\ remote[p] = "unpaid"
    /\ \E s \in {"paid", "failed"} : remote' = [remote EXCEPT ![p] = s]
    /\ UNCHANGED <<rowVars, old, creation, worker>>

(* LOCAL_EXPIRY_SECONDS pass. *)
Age(p) ==
    /\ status[p] # "absent" /\ ~old[p]
    /\ old' = [old EXCEPT ![p] = TRUE]
    /\ UNCHANGED <<rowVars, remote, creation, worker>>

Next ==
    \/ \E p \in Payments : Creating(p) \/ BuyerActs(p) \/ Age(p)
    \/ \E v \in Visitors, p \in Payments : Visit(v, p)
    \/ \E w \in Workers : Verifying(w) \/ DbError(w)
    \/ ListOpen

Spec == Init /\ [][Next]_vars

(* The scheduler runs the job again and again; what is asked again and     *)
(* again about a payment, by whomever, is answered at some time, and what  *)
(* is written again and again is stored at some time.                      *)
Concerns(p, A(_)) == \E w \in Workers : A(w) /\ Current(w) = p

Fairness ==
    /\ WF_vars(ListOpen \/ Verifying(Poller))
    /\ \A p \in Payments :
         /\ SF_vars(Concerns(p, Verify))
         /\ SF_vars(Concerns(p, Credit))
         /\ SF_vars(Concerns(p, CloseReads) \/ Concerns(p, Bump))
         /\ SF_vars(Concerns(p, CloseWrites))

FairSpec == Spec /\ Fairness

-----------------------------------------------------------------------------
(* "credit the user exactly once" (approve_and_credit): callback, button   *)
(* and poller may all hold the answer "paid" for one payment.              *)
CreditedAtMostOnce == \A p \in Payments : credits[p] <= 1

(* "Only the provider's verify answer credits the user": neither the query *)
(* of the return URL nor a payment that was not verified does.             *)
OnlyVerifiedIsCredited == \A p \in Payments : credits[p] > 0 => remote[p] = "verified"

(* A payment the buyer made is closed without a credit only when it is     *)
(* past the local expiry, or when a return URL claimed that the buyer      *)
(* canceled.                                                               *)
PaidLostOnlyByAgeOrClaim ==
    \A p \in Payments :
        /\ remote[p] \in {"paid", "verified"}
        /\ status[p] \in FAILED_STATUSES /\ credits[p] = 0
        => old[p] \/ status[p] = "canceled"

(* The poller is the fallback for buyers who never come back: it reaches   *)
(* every paid payment before the payment is old.                           *)
PaidWaits(p) == Pending(p) /\ authority[p] /\ remote[p] = "paid"
CreditedOrLost(p) == credits[p] > 0 \/ old[p] \/ status[p] = "canceled"
PaidIsCredited == \A p \in Payments : PaidWaits(p) ~> CreditedOrLost(p)

(* Every payment that was handed out is closed once it is old, although    *)
(* the gateway may fail to answer, so it stops counting against            *)
(* MAX_OPEN_PAYMENTS.                                                      *)
OldOpen(p) == old[p] /\ authority[p] /\ Pending(p)
OldPaymentEnds == \A p \in Payments : OldOpen(p) ~> ~OldOpen(p)

(* "... so the callback, the bot "check" button and the poller can all     *)
(* race safely" (service.py): money that a verify settled with the shop is *)
(* not lost: a payment that is settled and not even old is never closed    *)
(* without a credit.                                                       *)
VerifiedIsNotLost ==
    \A p \in Payments :
        remote[p] = "verified" /\ ~old[p] /\ status[p] \in FAILED_STATUSES => credits[p] = 1
=============================================================================
