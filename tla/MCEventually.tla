---------------------------- MODULE MCEventually ----------------------------
(***************************************************************************)
(* What must happen in the end to payments and to queued messages.  Five   *)
(* components, which share no state; part is the one that moves in this    *)
(* behaviour.  The crypto job has its own variables, another component     *)
(* keeps its variables, in the order of their declaration, in x1, x2 and   *)
(* so on.                                                                  *)
(*                                                                         *)
(* Each component brings its own fairness.  As part never changes, the     *)
(* fairness of an action of one component and of one of another are one    *)
(* formula here (Runs, Retry).                                             *)
(***************************************************************************)
EXTENDS CryptoJob

VARIABLES part, x1, x2, x3, x4, x5, x6, x7, x8, x9, x10, x11

xs == <<x1, x2, x3, x4, x5, x6, x7, x8, x9, x10, x11>>
all == <<part, jobVars, xs>>

MCOrders == 1..2

\* Three creators that pick the lowest free amount while the database is prompt.
Three == INSTANCE UniqueAmount WITH
    Orders <- 1..3, Amounts <- 10..14,    \* room for three invoices two steps apart
    Transfers <- {}, Attempts <- 5, LowestFirst <- TRUE, Prompt <- TRUE, DbErrors <- FALSE,
    rows <- x1, credits <- x2, now <- x3, creator <- x4

Ton == INSTANCE TonPays WITH
    Invoices <- 1..2, Custom <- {}, Poller <- "poller", Hooks <- {},
    POLL_BATCH <- 1, MAX_OPEN_INVOICES <- 2,
    status <- x1, issued <- x2, credits <- x3, order <- x4, old <- x5,
    remote <- x6, creation <- x7, receipt <- x8, worker <- x9

Ir == INSTANCE IrGateway WITH
    Payments <- 1..2, Poller <- "poller", Visitors <- {},
    POLL_BATCH <- 1, MAX_OPEN_PAYMENTS <- 2,
    status <- x1, authority <- x2, credits <- x3, order <- x4, old <- x5,
    remote <- x6, creation <- x7, worker <- x8

Queue == INSTANCE SendQueue WITH
    Messages <- {"m1", "m2"}, MAX_LEN <- 2, MAX_FAULTS <- 1,
    up <- x1, queue <- x2, state <- x3, floods <- x4, waits <- x5, trims <- x6,
    worker <- x7, pushed <- x8, sent <- x9, cut <- x10, faults <- x11

-----------------------------------------------------------------------------
(* One component moves; the variables it does not use stay 0.              *)

NoX5 == x5 = 0 /\ x6 = 0 /\ x7 = 0 /\ x8 = 0 /\ x9 = 0 /\ x10 = 0 /\ x11 = 0

EventuallyInit ==
    /\ JobInit
    /\ \/ part = "crypto" /\ x1 = 0 /\ x2 = 0 /\ x3 = 0 /\ x4 = 0 /\ NoX5
       \/ part = "creation" /\ Three!UniqueInit /\ NoX5
       \/ part = "tonpays" /\ Ton!Init /\ x10 = 0 /\ x11 = 0
       \/ part = "irgateway" /\ Ir!Init /\ x9 = 0 /\ x10 = 0 /\ x11 = 0
       \/ part = "queue" /\ Queue!Init

Crypto(A) == part = "crypto" /\ A /\ UNCHANGED <<part, xs>>
Creation(A) ==
    part = "creation" /\ A /\ UNCHANGED <<part, jobVars, x5, x6, x7, x8, x9, x10, x11>>
TonPays(A) == part = "tonpays" /\ A /\ UNCHANGED <<part, jobVars, x10, x11>>
IrGateway(A) == part = "irgateway" /\ A /\ UNCHANGED <<part, jobVars, x9, x10, x11>>
Sending(A) == part = "queue" /\ A /\ UNCHANGED <<part, jobVars>>

EventuallyNext ==
    \/ Crypto(CryptoNext)
    \/ Creation(Three!UniqueNext)
    \/ TonPays(Ton!Next)
    \/ IrGateway(Ir!Next)
    \/ Sending(Queue!Next)

-----------------------------------------------------------------------------
(* Fairness: CryptoFairness, UniqueFairSpec, Fairness of the gateways, and *)
(* FairSpec of the queue.                                                  *)

Message(k) == IF k = 1 THEN "m1" ELSE "m2"

\* What the scheduler or the event loop goes on with.
Runs ==
    \/ Crypto(JobStep)
    \/ Creation(Three!CreatorStep(1))
    \/ TonPays(Ton!ListOpen \/ Ton!Refreshing("poller"))
    \/ IrGateway(Ir!ListOpen \/ Ir!Verifying("poller"))
    \/ Sending(Queue!WorkerStep)

GoesOn ==
    \/ Crypto(Tick)
    \/ Creation(Three!CreatorStep(2))
    \/ Sending(Queue!Recover)

Follows(k) ==
    \/ k = 1 /\ Creation(Three!CreatorStep(3))
    \/ Sending(Queue!Due(Message(k)))

\* What is tried again and again succeeds at some time.  The gateway, though, may
\* fail for ever to answer about the first of two invoices or payments; what is
\* promised is promised for the second.
Retry1 ==
    \/ Crypto(Confirm(1))
    \/ TonPays(Ton!Ask("poller") /\ Ton!Current("poller") = 2)
    \/ IrGateway(Ir!Concerns(2, Ir!Verify))

Retry2 ==
    \/ Crypto(Confirm(2))
    \/ TonPays(Ton!Credit("poller") /\ Ton!Current("poller") = 2)
    \/ IrGateway(Ir!Concerns(2, Ir!Credit))

Retry3 ==
    \/ Crypto(ReadUsed)
    \/ TonPays(Ton!Wait("poller") /\ Ton!Current("poller") = 2)
    \/ IrGateway(Ir!Concerns(2, Ir!CloseReads) \/ Ir!Concerns(2, Ir!Bump))

Retry4 ==
    \/ TonPays(Ton!Apply("poller") /\ Ton!Current("poller") = 1)
    \/ IrGateway(Ir!Concerns(2, Ir!CloseWrites))

Retry5 == IrGateway(Ir!Concerns(1, Ir!CloseReads))
Retry6 == IrGateway(\/ Ir!Concerns(1, Ir!Credit)
                    \/ Ir!Concerns(1, Ir!Bump)
                    \/ Ir!Concerns(1, Ir!CloseWrites))

EventuallySpec ==
    /\ EventuallyInit /\ [][EventuallyNext]_all
    /\ WF_all(Runs) /\ WF_all(GoesOn) /\ WF_all(Follows(1)) /\ WF_all(Follows(2))
    /\ SF_all(Retry1) /\ SF_all(Retry2) /\ SF_all(Retry3)
    /\ SF_all(Retry4) /\ SF_all(Retry5) /\ SF_all(Retry6)

-----------------------------------------------------------------------------
\* Waiting once for the higher ids makes clashing creators converge: with prompt
\* database calls nobody runs out of attempts, even when all pick the lowest free
\* amount (the lockstep of add_order_with_unique_amount).
NobodyGivesUp == part = "creation" => Three!NobodyGivesUp

\* Every creation that was started reports success or failure: again and again
\* none is under way.
CreationEnds == []<>(part = "creation" => Three!NoneUnderWay)

\* Every payment that reached the shop in its time is credited, whatever else the
\* jobs have to check and although webhooks and visits are missed: a transfer of
\* the exact amount of an invoice, an invoice completed at TonPays, a payment made
\* at an Iranian gateway, the latter two unless they grow old or are canceled.
PaidIsCredited ==
    \A o \in Orders :
        (\/ part = "crypto" /\ \E t \in Transfers : PaidWaits(o, t)
         \/ part = "tonpays" /\ Ton!PaidWaits(2)
         \/ part = "irgateway" /\ Ir!PaidWaits(2))
        ~> (\/ part = "crypto" /\ rows[o].status = "Paid"
            \/ part = "tonpays" /\ Ton!CreditedOrOld(2)
            \/ part = "irgateway" /\ Ir!CreditedOrLost(2))

\* No invoice or payment stays open for ever, so none counts for ever against the
\* cap of open ones: past its time the job closes it, although checks fail.
OverduePayment(o) ==
    \/ part = "crypto" /\ PendingInTime(o)
    \/ part = "tonpays" /\ Ton!OldOpen(2)
    \/ part = "irgateway" /\ Ir!OldOpen(2)
EveryPaymentEnds == \A o \in Orders : OverduePayment(o) ~> ~OverduePayment(o)

\* Every queued message is dealt with at some time, however many floods there
\* are and although a deferred one stands at the head of the line (SendQueue).
QueuedIsHandled ==
    \A k \in 1..2 :
        part = "queue" /\ Queue!Queued(Message(k)) ~> part = "queue" /\ Queue!Handled(Message(k))
=============================================================================
