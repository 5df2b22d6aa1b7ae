----------------------------- MODULE MCSpending -----------------------------
(***************************************************************************)
(* Where money is spent or earned and what follows: purchases, referral    *)
(* rewards, reseller accounts, the end of a service, the messages sent,    *)
(* and what an admin does to all services of a panel.  The components are  *)
(* checked apart: they meet in the wallet, which each of them adds to and  *)
(* takes from in a transaction of its own, and in the services of a panel. *)
(* So part is the one that moves in this behaviour, with its variables, in *)
(* the order of their declaration, in x1, x2, ...                          *)
(***************************************************************************)
EXTENDS Integers

VARIABLES part, x1, x2, x3, x4, x5, x6, x7, x8, x9, x10, x11, x12, x13, x14, x15

xs == <<x1, x2, x3, x4, x5, x6, x7, x8, x9, x10, x11, x12, x13, x14, x15>>
all == <<part, xs>>

\* Two requests to cash out beside one purchase, and two purchases beside one request;
\* in both two admins settle what was requested.
Earnings == INSTANCE Referral WITH
    Invited <- {"u1", "u2"}, Buyers <- {"b1"}, Taps <- {"t1", "t2"}, REVIEWS <- 2,
    MIN_CARD <- 1, MAX_PAYOUTS <- 2,
    locking <- x1, to <- x2, rewards <- x3, payouts <- x4, made <- x5, wallet <- x6,
    buyers <- x7, taps <- x8, reviews <- x9, arrived <- x10, overturned <- x11

EarningsTwo == INSTANCE Referral WITH
    Invited <- {"u1", "u2"}, Buyers <- {"b1", "b2"}, Taps <- {"t1"}, REVIEWS <- 2,
    MIN_CARD <- 1, MAX_PAYOUTS <- 2,
    locking <- x1, to <- x2, rewards <- x3, payouts <- x4, made <- x5, wallet <- x6,
    buyers <- x7, taps <- x8, reviews <- x9, arrived <- x10, overturned <- x11

Purchase == INSTANCE Purchases WITH
    Orders <- {"o1", "o2"},
    Flows <- {"webapp", "shop", "reseller", "renew", "direct", "chat", "upgrade"},
    LIMIT <- 1, WALLET <- 1, MAX_FAULTS <- 1, MAX_RESTARTS <- 1,
    wallet <- x1, uses <- x2, limit <- x3, orders <- x4, mishaps <- x5, raced <- x6,
    faults <- x7, restarts <- x8

Queue == INSTANCE SendQueue WITH
    Messages <- {"m1", "m2", "m3"}, MAX_LEN <- 2, MAX_FAULTS <- 1,
    up <- x1, queue <- x2, state <- x3, floods <- x4, waits <- x5, trims <- x6,
    worker <- x7, pushed <- x8, sent <- x9, cut <- x10, faults <- x11

Send2all == INSTANCE Broadcast WITH
    Jobs <- 1..2, USERS <- 2, BATCH <- 2, Dialects <- {"redis", "none"}, Admins <- {"admin"},
    Ops <- {"confirm", "panel_send", "pause", "resume", "cancel", "resend", "delete"},
    MAX_WORKERS <- 2, MAX_ORDERS <- 3, MAX_FAULTS <- 1,
    dialect <- x1, lock <- x2, held <- x3, task <- x4, worker <- x5, status <- x6,
    runtime <- x7, cursor <- x8, cmd <- x9, got <- x10, disturbed <- x11,
    blind <- x12, stranded <- x13, orders <- x14, faults <- x15

Expiry == INSTANCE Expiration WITH
    Services <- 1..2, Tests <- {1}, Unlinked <- {1}, BATCH <- 1, FLUSH <- 1, GRACE <- 1, TERM <- 2,
    MAX_CLOCK <- 4, MAX_FAULTS <- 1,
    clock <- x1, row <- x2, user <- x3, job <- x4, renewal <- x5, told <- x6,
    paid <- x7, crossed <- x8, stray <- x9, faults <- x10

\* A reseller account billed as it is used, with debt: by the hour or by volume with a
\* fault; by volume under a cap that is set and taken off; and without
\* reseller_usage_debt, where the usage of the admin may be reset.
Billing == INSTANCE ResellerBilling WITH
    Callers <- {"c1"}, Modes <- {"hourly", "usage"}, Rate <- 1, Unit <- 2, Caps <- {0},
    ALLOW_DEBT <- TRUE, MAX_CLOCK <- 2, MAX_TRAFFIC <- 2, MAX_WALLET <- 1,
    MAX_RESETS <- 0, MAX_FAULTS <- 1,
    account <- x1, admin <- x2, wallet <- x3, clock <- x4, ledger <- x5, job <- x6,
    calls <- x7, meter <- x8, outdated <- x9, apart <- x10, faults <- x11

Capped == INSTANCE ResellerBilling WITH
    Callers <- {"c1"}, Modes <- {"usage"}, Rate <- 1, Unit <- 2, Caps <- {0, 2},
    ALLOW_DEBT <- TRUE, MAX_CLOCK <- 0, MAX_TRAFFIC <- 2, MAX_WALLET <- 1,
    MAX_RESETS <- 0, MAX_FAULTS <- 0,
    account <- x1, admin <- x2, wallet <- x3, clock <- x4, ledger <- x5, job <- x6,
    calls <- x7, meter <- x8, outdated <- x9, apart <- x10, faults <- x11

NoDebt == INSTANCE ResellerBilling WITH
    Callers <- {"c1"}, Modes <- {"usage"}, Rate <- 1, Unit <- 2, Caps <- {0},
    ALLOW_DEBT <- FALSE, MAX_CLOCK <- 0, MAX_TRAFFIC <- 2, MAX_WALLET <- 1,
    MAX_RESETS <- 1, MAX_FAULTS <- 0,
    account <- x1, admin <- x2, wallet <- x3, clock <- x4, ledger <- x5, job <- x6,
    calls <- x7, meter <- x8, outdated <- x9, apart <- x10, faults <- x11

\* A reseller account with a term, beside the job: every request, one at a time; some
\* of them with a fault; and two requests at a time.
Term == INSTANCE ResellerTerm WITH
    Callers <- {"c1"},
    Operations <- {"renew", "renewByAdmin", "days", "volume", "extend", "pause", "lock",
                   "resume", "unlock", "setVolume", "resync", "delete"},
    GRACE <- 1, WALLET <- 1, MAX_CLOCK <- 2, MAX_GRANTS <- 1, MAX_FAULTS <- 0,
    account <- x1, admin <- x2, wallet <- x3, clock <- x4, locks <- x5, job <- x6,
    calls <- x7, books <- x8, outdated <- x9, raced <- x10, faults <- x11, panel <- x12,
    astray <- x13

TermBroken == INSTANCE ResellerTerm WITH
    Callers <- {"c1"},
    Operations <- {"renew", "volume", "extend", "resync", "delete"},
    GRACE <- 1, WALLET <- 1, MAX_CLOCK <- 2, MAX_GRANTS <- 1, MAX_FAULTS <- 1,
    account <- x1, admin <- x2, wallet <- x3, clock <- x4, locks <- x5, job <- x6,
    calls <- x7, books <- x8, outdated <- x9, raced <- x10, faults <- x11, panel <- x12,
    astray <- x13

TermTwo == INSTANCE ResellerTerm WITH
    Callers <- {"reseller", "admin"}, Operations <- {"renew", "volume", "extend", "lock"},
    GRACE <- 1, WALLET <- 1, MAX_CLOCK <- 2, MAX_GRANTS <- 1, MAX_FAULTS <- 0,
    account <- x1, admin <- x2, wallet <- x3, clock <- x4, locks <- x5, job <- x6,
    calls <- x7, books <- x8, outdated <- x9, raced <- x10, faults <- x11, panel <- x12,
    astray <- x13

\* Two jobs, each moving one user at a time from panel admin to panel admin.
Transfer == INSTANCE AdminTransfer WITH
    Users <- {"u1", "un"}, Unlimited <- {"un"}, Admins <- {"a", "b", "c"}, Homes <- {"a"},
    Tgs <- {"g", "h"}, Jobs <- {"j1", "j2"}, CHUNK <- 1, MAX_FAULTS <- 1,
    owner <- x1, rows <- x2, running <- x3, job <- x4, raced <- x5, blind <- x6,
    strayed <- x7, faults <- x8

\* One run on every service, with an owner who buys; and two runs.
Increase == INSTANCE BulkIncrease WITH
    Services <- {"s1", "s2"}, Unsynced <- {"s2"},
    Limits <- [s \in {"s1", "s2"} |-> [volume |-> 2, time |-> 1]],
    Volumes <- {1, -1}, Days <- {1}, Runs <- {"r1"}, NOW <- 1, MAX_RUNS <- 1,
    MAX_BOUGHT <- 1, MAX_FAULTS <- 1,
    user <- x1, row <- x2, rights <- x3, session <- x4, shown <- x5, run <- x6,
    owner <- x7, due <- x8, apart <- x9, doubled <- x10, started <- x11, bought <- x12,
    faults <- x13

IncreaseTwo == INSTANCE BulkIncrease WITH
    Services <- {"s1", "s2"}, Unsynced <- {"s2"},
    Limits <- [s \in {"s1", "s2"} |-> [volume |-> 2, time |-> 1]],
    Volumes <- {1}, Days <- {}, Runs <- {"r1", "r2"}, NOW <- 1, MAX_RUNS <- 2,
    MAX_BOUGHT <- 0, MAX_FAULTS <- 1,
    user <- x1, row <- x2, rights <- x3, session <- x4, shown <- x5, run <- x6,
    owner <- x7, due <- x8, apart <- x9, doubled <- x10, started <- x11, bought <- x12,
    faults <- x13

-----------------------------------------------------------------------------
(* One component moves; the variables it does not use stay 0.              *)

NoX14 == x14 = 0 /\ x15 = 0
NoX12 == x12 = 0 /\ x13 = 0 /\ NoX14
NoX9 == x9 = 0 /\ x10 = 0 /\ x11 = 0 /\ NoX12

SpendingInit ==
    \/ part = "referral" /\ Earnings!Init /\ NoX12
    \/ part = "referralTwo" /\ EarningsTwo!Init /\ NoX12
    \/ part = "purchases" /\ Purchase!Init /\ NoX9
    \/ part = "queue" /\ Queue!Init /\ NoX12
    \/ part = "broadcast" /\ Send2all!Init
    \/ part = "expiration" /\ Expiry!Init /\ x11 = 0 /\ NoX12
    \/ part = "transfer" /\ Transfer!Init /\ NoX9
    \/ part = "increase" /\ Increase!Init /\ NoX14
    \/ part = "increaseTwo" /\ IncreaseTwo!Init /\ NoX14
    \/ part = "billing" /\ Billing!Init /\ NoX12
    \/ part = "capped" /\ Capped!Init /\ NoX12
    \/ part = "nodebt" /\ NoDebt!Init /\ NoX12
    \/ part = "term" /\ Term!Init /\ NoX14
    \/ part = "termBroken" /\ TermBroken!Init /\ NoX14
    \/ part = "termTwo" /\ TermTwo!Init /\ NoX14

SpendingNext ==
    /\ UNCHANGED part
    /\ \/ part = "referral" /\ Earnings!Next /\ UNCHANGED <<x12, x13, x14, x15>>
       \/ part = "referralTwo" /\ EarningsTwo!Next /\ UNCHANGED <<x12, x13, x14, x15>>
       \/ part = "purchases" /\ Purchase!Next /\ UNCHANGED <<x9, x10, x11, x12, x13, x14, x15>>
       \/ part = "queue" /\ Queue!Next /\ UNCHANGED <<x12, x13, x14, x15>>
       \/ part = "broadcast" /\ Send2all!Next
       \/ part = "transfer" /\ Transfer!Next /\ UNCHANGED <<x9, x10, x11, x12, x13, x14, x15>>
       \/ part = "increase" /\ Increase!Next /\ UNCHANGED <<x14, x15>>
       \/ part = "increaseTwo" /\ IncreaseTwo!Next /\ UNCHANGED <<x14, x15>>
       \/ part = "expiration" /\ Expiry!Next /\ UNCHANGED <<x11, x12, x13, x14, x15>>
       \/ part = "billing" /\ Billing!Next /\ UNCHANGED <<x12, x13, x14, x15>>
       \/ part = "capped" /\ Capped!Next /\ UNCHANGED <<x12, x13, x14, x15>>
       \/ part = "nodebt" /\ NoDebt!Next /\ UNCHANGED <<x12, x13, x14, x15>>
       \/ part = "term" /\ Term!Next /\ UNCHANGED <<x14, x15>>
       \/ part = "termBroken" /\ TermBroken!Next /\ UNCHANGED <<x14, x15>>
       \/ part = "termTwo" /\ TermTwo!Next /\ UNCHANGED <<x14, x15>>

SpendingSpec == SpendingInit /\ [][SpendingNext]_all

-----------------------------------------------------------------------------
\* Every payout of a referrer that stands is the sum of its rewards, and the wallet
\* received each once; without row locks but for one that was paid and rejected
\* (Referral).
PayoutsAreBacked ==
    /\ part = "referral" => Earnings!PayoutsAreBacked
    /\ part = "referralTwo" => EarningsTwo!PayoutsAreBacked

\* A second request to cash out to a card is open only if that many rewards became
\* available while one was under way (Referral).
OnePayoutPerReward ==
    /\ part = "referral" => Earnings!OnePayoutPerReward
    /\ part = "referralTwo" => EarningsTwo!OnePayoutPerReward

\* What was paid out, converted or credited stays so (Referral).
PaidForGood ==
    [][/\ part = "referral" => Earnings!PaidForGood
       /\ part = "referralTwo" => EarningsTwo!PaidForGood]_all

\* An order that ended was made as a whole or not at all: panel user, service row,
\* wallet and the use of the discount code agree, but for the failures the code
\* itself leaves behind; a volume bought while nobody else changes it is added; and
\* a code is used no more often than its limit allows (Purchases).
AllOrNothing ==
    part = "purchases" =>
        Purchase!AllOrNothing /\ Purchase!RaisedWhenAlone /\ Purchase!CodeWithinLimit

\* Messages that met no flood are sent in the order they were queued, a full queue
\* gives up its oldest, and nothing else is lost without a fault (SendQueue); a
\* broadcast that ended as done was sent to every target, and twice only where a batch
\* was cut off or two workers ran (Broadcast).
EveryMessageSent ==
    /\ part = "queue" => Queue!QueueKeepsOrder
    /\ part = "broadcast" => Send2all!BroadcastReachesAll

\* A service goes only after its term and grace, with its panel user, and a row
\* is marked only after its owner was told of this term (Expiration).
ServicesEndInTime == part = "expiration" => Expiry!ServicesEndInTime

\* What a pay-as-you-go account consumes is charged once: the charges and what is yet
\* to be charged never exceed it, with debt or without; and its wallet, row, ledger and
\* charges agree (ResellerBilling).
BilledOnce ==
    /\ part = "billing" => Billing!BilledOnce /\ Billing!BooksBalance
    /\ part = "capped" => Capped!BilledOnce /\ Capped!BooksBalance
    /\ part = "nodebt" => NoDebt!BilledOnce /\ NoDebt!BooksBalance

\* A service moved to another panel admin has one owner in the bot, and what the job
\* reports of a user is what happened to it, but for two jobs on one user, a lookup that
\* failed and a call that took effect although it was reported as failed (AdminTransfer).
TransferKeepsOwners == part = "transfer" => Transfer!TransferKeepsOwners

\* Volume and days given to all services of a panel: what is applied is what the message
\* showed, once, and adds up on panel and rows for every service nobody else changed
\* meanwhile (BulkIncrease).
BulkKeepsFaith ==
    /\ part = "increase" => Increase!BulkKeepsFaith
    /\ part = "increaseTwo" => IncreaseTwo!BulkKeepsFaith

\* Once nobody is between panel and row, the panel admin is on exactly when the row
\* says active and has the volume the row says, unless somebody wrote from an outdated
\* copy or the two were left apart by a failure; and no admin is left without a row on
\* a panel the bot has, whatever fails.
AdminFollowsRow ==
    /\ part = "billing" => Billing!PanelAgreesUnlessRaced
    /\ part = "capped" => Capped!PanelAgreesUnlessRaced
    /\ part = "nodebt" => NoDebt!PanelAgreesUnlessRaced
    /\ part = "term" => Term!PanelFollowsRow /\ Term!NoOrphanAdmin
    /\ part = "termBroken" => TermBroken!PanelFollowsRow /\ TermBroken!NoOrphanAdmin
    /\ part = "termTwo" => TermTwo!PanelFollowsRow /\ TermTwo!NoOrphanAdmin

\* What a renewal or an add-on of a reseller took bought what the row holds, is on
\* its way or was given back, and no period that was paid for is swallowed.
TermPaidFor ==
    /\ part = "term" => Term!TermPaidFor
    /\ part = "termBroken" => TermBroken!TermPaidFor
    /\ part = "termTwo" => TermTwo!TermPaidFor

\* An account the admin locked is opened by the admin's unlock only, or by a writer
\* that began before the lock.
LockLostOnlyToStale ==
    [][/\ part = "billing" => Billing!LockLostOnlyToStale
       /\ part = "capped" => Capped!LockLostOnlyToStale]_all

\* The job destroys the users of an account only when the grace period after its
\* term is over, unless a renewal came after the job had listed it.
PurgedOnlyAfterGrace ==
    [][/\ part = "term" => Term!PurgesInTime
       /\ part = "termBroken" => TermBroken!PurgesInTime
       /\ part = "termTwo" => TermTwo!PurgesInTime]_all
=============================================================================
