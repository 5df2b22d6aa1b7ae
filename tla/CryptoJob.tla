------------------------------ MODULE CryptoJob ------------------------------
(***************************************************************************)
(* The payment job of one crypto network (check_payments of                *)
(* src/app/jobs/payments/{ton,trx,usdt,usdt_networks,pol}.py and the flow  *)
(* they share in crypto_common.py).  The scheduler runs one instance of it *)
(* every 60 seconds: it reads the pending invoices, asks a block explorer  *)
(* for the transfers to the shop's address, pairs them, credits the pairs  *)
(* and expires what is overdue.  Each of these awaits; users, the clock    *)
(* and other coroutines go on in between, and the run works on copies.     *)
(***************************************************************************)
EXTENDS CryptoStore

CONSTANTS
    TTL,                \* INVOICE_TTL_SECONDS
    Grace,              \* INVOICE_EXPIRY_GRACE_SECONDS
    TxTolerance,        \* TX_TIME_TOLERANCE_SECONDS
    MatchDistance,      \* how far off an amount may be: not at all for TON, else one step
    AllowUntimed,       \* allow_unknown: POL, USDT-TON and USDT-BEP20
    RetryAfterError,    \* retry_after_error: TRX, TON and USDT-TRC20
    ReliableExplorer,   \* the explorer answers and lists every transfer
    Interrupted,        \* runs may be cut short (restart, exception)
    MaxRun,             \* how long a run takes from its fetch to its expiry check
    MaxTime             \* bound: the clock stops here

ASSUME TimesAssumption ==
    /\ TTL \in Nat /\ Grace \in Nat /\ TxTolerance \in Nat
    /\ MaxRun \in Nat /\ MaxTime \in Nat
ASSUME MatchDistanceAssumption == MatchDistance \in 0..AMOUNT_MATCH_TOLERANCE
ASSUME JobSwitchesAssumption ==
    /\ AllowUntimed \in BOOLEAN /\ RetryAfterError \in BOOLEAN
    /\ ReliableExplorer \in BOOLEAN /\ Interrupted \in BOOLEAN

VARIABLES
    chain,    \* chain[t]: the transfer t to the shop's address
    job       \* the running instance of the job, with its copies

jobVars == <<rows, credits, now, chain, job>>

NotSent == [sent |-> FALSE, amount |-> 0, ts |-> 0]
ChainType == [Transfers -> [sent : BOOLEAN, amount : Int, ts : Nat]]

JobSteps == {"idle", "fetch", "used", "match", "confirm", "expire"}

JobType ==
    [pc : JobSteps,
     snap : [Orders -> Row],           \* the invoices as they were read
     fetched : Nat,                    \* when the explorer answered
     seen : SUBSET Transfers,          \* what it listed
     consumed : SUBSET Transfers,      \* transfers not to be used again
     matched : SUBSET Orders,
     todo : SUBSET Orders,             \* left of the current loop
     chosen : Transfers \union {NoTx}, \* the pair being confirmed
     for : SUBSET Orders]              \* (a singleton, or empty)

IdleJob ==
    [pc |-> "idle", snap |-> [o \in Orders |-> AbsentRow], fetched |-> 0, seen |-> {},
     consumed |-> {}, matched |-> {}, todo |-> {}, chosen |-> NoTx, for |-> {}]

JobTypeOK == StoreTypeOK /\ chain \in ChainType /\ job \in JobType

JobInit ==
    /\ StoreInit
    /\ chain = [t \in Transfers |-> NotSent]
    /\ job = IdleJob

Sent(t) == chain[t].sent
Listed == {o \in Orders : job.snap[o].status = "Pending"}
Doing(pc) == job.pc = pc

-----------------------------------------------------------------------------
(* Mutant: transfers older than the invoice are accepted. *)
InWindowOpen(row, t) ==
    IF chain[t].ts = 0
    THEN AllowUntimed /\ now - row.createtime <= TTL
    ELSE chain[t].ts <= row.createtime + TTL + TxTolerance

(* tx_time_in_window, for an invoice read as row *)
InWindow(row, t) ==
    IF chain[t].ts = 0
    THEN AllowUntimed /\ now - row.createtime <= TTL
    ELSE /\ row.createtime <= chain[t].ts
         /\ chain[t].ts <= row.createtime + TTL + TxTolerance

(* amount_matches, and the checks of amounts of the jobs that have their own *)
AmountMatches(a, b) == a - b <= MatchDistance /\ b - a <= MatchDistance

(* Mutant: any payment that covers the invoice is accepted. *)
FitsOverpaid(row, t) == InWindow(row, t) /\ row.amount <= chain[t].amount

(* A candidate that accepts() takes for the invoice. *)
Fits(row, t) == InWindow(row, t) /\ AmountMatches(row.amount, chain[t].amount)

(* Mutant: an invoice is overdue as soon as its time to live ends. *)
PastTTL(row) == now - row.createtime > TTL

(* is_past_expiry_grace *)
PastGrace(row) == now - row.createtime > TTL + Grace

-----------------------------------------------------------------------------
(* Mutant: overdue invoices are left out of the query. *)
ReadYoung ==
    /\ Doing("idle") /\ PendingOrders # {}
    /\ job' = [IdleJob EXCEPT !.pc = "fetch",
                 !.snap = [o \in Orders |-> IF Pending(o) /\ ~PastGrace(rows[o])
                                            THEN rows[o] ELSE AbsentRow]]
    /\ UNCHANGED <<rows, credits, now, chain>>

(* get_pending_by_arz: the run keeps copies of the pending rows. *)
ReadPending ==
    /\ Doing("idle") /\ PendingOrders # {}
    /\ job' = [IdleJob EXCEPT !.pc = "fetch",
                 !.snap = [o \in Orders |-> IF Pending(o) THEN rows[o] ELSE AbsentRow]]
    /\ UNCHANGED <<rows, credits, now, chain>>

(* The explorer's answer: a failed request is an empty list, and a page of *)
(* limited length may lack some transfers.                                 *)
Fetch ==
    /\ Doing("fetch")
    /\ \E answer \in SUBSET {t \in Transfers : Sent(t)} :
         /\ ReliableExplorer => answer = {t \in Transfers : Sent(t)}
         /\ job' = [job EXCEPT !.pc = "used", !.seen = answer, !.fetched = now]
    /\ UNCHANGED <<rows, credits, now, chain>>

BeginMatch(used) ==
    /\ Doing("used")
    /\ job' = [job EXCEPT !.pc = "match", !.consumed = used, !.todo = Listed]
    /\ UNCHANGED <<rows, credits, now, chain>>

(* get_used_tx_hashes; a database error yields the empty set. *)
ReadUsed == BeginMatch(UsedHashes(job.seen))
ReadUsedFails == BeginMatch({})

Candidates(o) == {t \in job.seen \ job.consumed : Fits(job.snap[o], t)}

(* match_transfers takes a candidate for an invoice: the transfer and the  *)
(* invoice are marked before anything is credited.                         *)
Reserve(o) ==
    /\ Doing("match") /\ o \in job.todo
    /\ \E t \in Candidates(o) :
         job' = [job EXCEPT !.pc = "confirm", !.consumed = @ \union {t},
                            !.matched = @ \union {o}, !.chosen = t, !.for = {o}]
    /\ UNCHANGED <<rows, credits, now, chain>>

PassOver(o) ==
    /\ Doing("match") /\ o \in job.todo
    /\ Candidates(o) = {}
    /\ job' = [job EXCEPT !.todo = @ \ {o}]
    /\ UNCHANGED <<rows, credits, now, chain>>

(* The pair is done with: on to the next invoice (or, after an error with  *)
(* retry_after_error, to the next candidate of the same invoice).          *)
Proceed(o, again) ==
    job' = [job EXCEPT !.pc = "match", !.chosen = NoTx, !.for = {},
                       !.todo = IF again THEN @ ELSE @ \ {o}]

(* _credit_and_notify *)
Confirm(o) ==
    /\ Doing("confirm") /\ o \in job.for
    /\ ApproveAndCredit(o, job.chosen)
    /\ Proceed(o, FALSE)
    /\ UNCHANGED <<now, chain>>

(* approve_and_credit found no user or caught a database error: None. *)
ConfirmRefused(o) ==
    /\ Doing("confirm") /\ o \in job.for
    /\ Proceed(o, FALSE)
    /\ UNCHANGED <<rows, credits, now, chain>>

(* confirm raised before crediting (settings, bonus). *)
ConfirmRaises(o) ==
    /\ Doing("confirm") /\ o \in job.for
    /\ Proceed(o, RetryAfterError)
    /\ UNCHANGED <<rows, credits, now, chain>>

(* Mutant: invoices whose credit failed in this run are expired too. *)
BeginExpireAll ==
    /\ Doing("match") /\ job.todo = {}
    /\ job' = [job EXCEPT !.pc = "expire",
                          !.todo = {o \in Listed : PastGrace(job.snap[o])}]
    /\ UNCHANGED <<rows, credits, now, chain>>

(* expire_unmatched reads the clock once and goes through the copies. *)
BeginExpire ==
    /\ Doing("match") /\ job.todo = {}
    /\ job' = [job EXCEPT !.pc = "expire",
                          !.todo = {o \in Listed \ job.matched : PastGrace(job.snap[o])}]
    /\ UNCHANGED <<rows, credits, now, chain>>

ExpireOne(o) ==
    /\ Doing("expire") /\ o \in job.todo
    /\ ExpirePayment(o)
    /\ job' = [job EXCEPT !.todo = @ \ {o}]
    /\ UNCHANGED <<now, chain>>

EndRun ==
    /\ Doing("expire") /\ job.todo = {}
    /\ job' = IdleJob
    /\ UNCHANGED <<rows, credits, now, chain>>

(* A restart of the process, or an exception that ends the run. *)
Abort ==
    /\ Interrupted
    /\ ~Doing("idle")
    /\ job' = IdleJob
    /\ UNCHANGED <<rows, credits, now, chain>>

JobStep ==
    \/ ReadPending \/ Fetch \/ ReadUsed \/ BeginExpire \/ EndRun
    \/ \E o \in Orders : Reserve(o) \/ PassOver(o) \/ Confirm(o) \/ ExpireOne(o)

JobNext ==
    \/ JobStep
    \/ Abort
    \/ ReadUsedFails
    \/ \E o \in Orders : ConfirmRefused(o) \/ ConfirmRaises(o)

-----------------------------------------------------------------------------
(* Anybody may send any amount at any time; the explorers of some networks *)
(* report a transfer without its time.                                     *)
Send(t) ==
    /\ ~Sent(t)
    /\ \E a \in Amounts, ts \in {now} \union (IF AllowUntimed THEN {0} ELSE {}) :
         chain' = [chain EXCEPT ![t] = [sent |-> TRUE, amount |-> a, ts |-> ts]]
    /\ UNCHANGED <<rows, credits, now, job>>

(* Time passes; a run does not take longer than MaxRun from the explorer's *)
(* answer to its reading of the clock.                                     *)
Tick ==
    /\ now < MaxTime
    /\ job.pc \in {"used", "match", "confirm"} => now < job.fetched + MaxRun
    /\ now' = now + 1
    /\ UNCHANGED <<rows, credits, chain, job>>

World == Tick \/ \E t \in Transfers : Send(t)

(* A new invoice, as UniqueAmount leaves it behind: its amount is told     *)
(* apart from those of the other pending invoices.                         *)
NewInvoice(o) ==
    /\ \E a \in Amounts :
         /\ \A p \in PendingOrders : ~AmountsCollide(a, rows[p].amount)
         /\ AddOrder(o, a, now)
    /\ UNCHANGED <<now, chain, job>>

CryptoNext == JobNext \/ World \/ \E o \in Orders : NewInvoice(o)

CryptoSpec == JobInit /\ [][CryptoNext]_jobVars

(* The scheduler starts the job again and again and its steps return; the  *)
(* clock goes on; a database call that is tried again and again eventually *)
(* succeeds.                                                               *)
CryptoFairness ==
    /\ WF_jobVars(JobStep)
    /\ WF_jobVars(Tick)
    /\ SF_jobVars(ReadUsed)
    /\ \A o \in Orders : SF_jobVars(Confirm(o))

CryptoFairSpec == CryptoSpec /\ CryptoFairness

-----------------------------------------------------------------------------
(* A paid invoice was paid by a transfer of its own amount, made in its    *)
(* time window when the explorer reported a time.                          *)
PaidByMatchingTransfer ==
    \A o \in Orders : rows[o].status = "Paid" =>
        LET t == rows[o].tx_hash IN
        /\ t \in Transfers /\ Sent(t)
        /\ AmountMatches(rows[o].amount, chain[t].amount)
        /\ chain[t].ts # 0 =>
             /\ rows[o].createtime <= chain[t].ts
             /\ chain[t].ts <= rows[o].createtime + TTL + TxTolerance

(* A transfer of exactly the amount of a pending invoice, in its window,   *)
(* is never credited to another invoice.                                   *)
ExactPaymentNotStolen ==
    [][\A o, p \in Orders : \A t \in Transfers :
          /\ o # p /\ Pending(o) /\ rows[p].tx_hash # t /\ rows'[p].tx_hash = t
          => ~(InWindow(rows[o], t) /\ rows[o].amount = chain[t].amount)]_jobVars

(* The transfer t is exactly what the user of o was asked to send, in time. *)
PaysExactly(o, t) ==
    /\ Sent(t) /\ chain[t].ts # 0
    /\ InWindow(rows[o], t) /\ rows[o].amount = chain[t].amount

Unspent(t) == \A p \in Orders : rows[p].tx_hash # t

(* With an explorer that lists every transfer, an invoice that was paid in *)
(* its window is not expired: the grace period covers the time between the *)
(* explorer's answer and the run's reading of the clock, and a transfer    *)
(* whose credit failed keeps its invoice for the next run.                 *)
PaidInTimeNeverExpired ==
    \A o \in Orders, t \in Transfers :
        rows[o].status = "Expired" /\ Unspent(t) => ~PaysExactly(o, t)

(* ... and it is credited in the end. *)
PaidWaits(o, t) == Pending(o) /\ Unspent(t) /\ PaysExactly(o, t)
PaidInTimeIsCredited ==
    \A o \in Orders, t \in Transfers : PaidWaits(o, t) ~> rows[o].status = "Paid"

(* No invoice stays pending for ever: it is credited or expired (if the    *)
(* bounded clock gets past its grace period).                              *)
PendingInTime(o) == Pending(o) /\ rows[o].createtime + TTL + Grace < MaxTime
NoInvoiceStaysPending == \A o \in Orders : PendingInTime(o) ~> ~Pending(o)
=============================================================================
