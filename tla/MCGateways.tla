----------------------------- MODULE MCGateways -----------------------------
(***************************************************************************)
(* The other ways to pay into the wallet, a purchase that waits for its    *)
(* payment, what a user is given for nothing, and the conversations with   *)
(* the user.  Each component has its own table or record, credits are      *)
(* counted per row, and the wallet they share is only added to.  So part   *)
(* is the one that moves in this behaviour.  IrGateway has its own         *)
(* variables, another component keeps its variables, in the order of their *)
(* declaration, in x1, x2 and so on.                                       *)
(***************************************************************************)
EXTENDS IrGateway

VARIABLES part, x1, x2, x3, x4, x5, x6, x7, x8, x9, x10, x11

xs == <<x1, x2, x3, x4, x5, x6, x7, x8, x9, x10, x11>>
all == <<part, vars, xs>>

\* Two invoices, a poller that checks one invoice per run and one webhook task; and one
\* invoice of the custom gateway, which takes receipts, with a check button besides.
Ton == INSTANCE TonPays WITH
    Invoices <- 1..2, Custom <- {}, Poller <- "poller", Hooks <- {"hook"},
    POLL_BATCH <- 1, MAX_OPEN_INVOICES <- 2,
    status <- x1, issued <- x2, credits <- x3, order <- x4, old <- x5,
    remote <- x6, creation <- x7, receipt <- x8, worker <- x9

TonCustom == INSTANCE TonPays WITH
    Invoices <- {1}, Custom <- {1}, Poller <- "poller", Hooks <- {"hook", "button"},
    POLL_BATCH <- 1, MAX_OPEN_INVOICES <- 1,
    status <- x1, issued <- x2, credits <- x3, order <- x4, old <- x5,
    remote <- x6, creation <- x7, receipt <- x8, worker <- x9

StarPayments == INSTANCE Stars WITH
    Invoices <- {"i1", "i2"}, Payments <- {"p1", "p2"}, MAX_FAULTS <- 1,
    status <- x1, old <- x2, credits <- x3, payment <- x4, job <- x5,
    hidden <- x6, faults <- x7

Receipt == INSTANCE CardReceipts WITH
    Receipts <- {"r1", "r2"}, Unreadable <- {"r2"}, Senders <- {"s1", "s2"},
    Admins <- {"admin"}, MAX_TXS <- 2, MAX_FAULTS <- 1,
    hashes <- x1, txs <- x2, made <- x3, credits <- x4, sender <- x5, admin <- x6,
    job <- x7, auto <- x8, overruled <- x9, late <- x10, faults <- x11

Direct == INSTANCE DirectPay WITH
    Cards <- {"card"}, Coins <- {"coin"}, MAX_PURCHASES <- 2, MAX_LAPSES <- 1, MAX_FAULTS <- 1,
    record <- x1, links <- x2, claim <- x3, saved <- x4, user <- x5, settle <- x6,
    payment <- x7, created <- x8, crossed <- x9, lapses <- x10, faults <- x11

Trials == INSTANCE Gifts WITH
    Taps <- {"t1", "t2"}, Kinds <- {"trial"}, MAX_GIFTS <- 2, MAX_RESETS <- 1, MAX_FAULTS <- 1,
    locking <- x1, verify <- x2, setting <- x3, user <- x4, shown <- x5, tap <- x6,
    given <- x7, resets <- x8, excused <- x9, faults <- x10

Games == INSTANCE Gifts WITH
    Taps <- {"t1", "t2"}, Kinds <- {"game", "charge"}, MAX_GIFTS <- 2, MAX_RESETS <- 1,
    MAX_FAULTS <- 1,
    locking <- x1, verify <- x2, setting <- x3, user <- x4, shown <- x5, tap <- x6,
    given <- x7, resets <- x8, excused <- x9, faults <- x10

\* The conversation that buys and renews; and the one that pays into the wallet, with
\* limits that a shortfall exceeds, meets or misses, and a typed amount likewise.
Chat == INSTANCE Conversations WITH
    Panels <- {"p", "q"}, DurationFirst <- {"q"}, WithCustom <- {"p"}, Messages <- {"m1", "m2"},
    session <- x1, chat <- x2, latest <- x3, sticky <- x4, disturbed <- x5, ordered <- x6

Deposit == INSTANCE Deposits WITH
    Purchases <- {"B"}, Price <- [p \in {"B"} |-> 3],
    Ways <- {"crypto", "tonpays", "stars", "card"},
    Least <- [crypto |-> 1, tonpays |-> 3, irgateway |-> 1, stars |-> 1, card |-> 2],
    Most <- [crypto |-> 2, tonpays |-> 3, irgateway |-> 1, stars |-> 1, card |-> 3],
    Typed <- {2}, MAX_PAYMENTS <- 1,
    session <- x1, record <- x2, chat <- x3, payments <- x4, wallet <- x5, enabled <- x6,
    number <- x7, disturbed <- x8

DepositTwo == INSTANCE Deposits WITH
    Purchases <- {"A", "B"}, Price <- [p \in {"A", "B"} |-> IF p = "A" THEN 1 ELSE 2],
    Ways <- {"irgateway"}, Least <- [irgateway |-> 1], Most <- [irgateway |-> 1],
    Typed <- {1}, MAX_PAYMENTS <- 2,
    session <- x1, record <- x2, chat <- x3, payments <- x4, wallet <- x5, enabled <- x6,
    number <- x7, disturbed <- x8

-----------------------------------------------------------------------------
(* One component moves; the variables it does not use stay 0.              *)

NoX9 == x9 = 0 /\ x10 = 0 /\ x11 = 0
NoX8 == x8 = 0 /\ NoX9
NoXs == x1 = 0 /\ x2 = 0 /\ x3 = 0 /\ x4 = 0 /\ x5 = 0 /\ x6 = 0 /\ x7 = 0 /\ NoX8

GatewaysInit ==
    /\ Init
    /\ \/ part = "irgateway" /\ NoXs
       \/ part = "tonpays" /\ Ton!Init /\ x10 = 0 /\ x11 = 0
       \/ part = "tonCustom" /\ TonCustom!Init /\ x10 = 0 /\ x11 = 0
       \/ part = "stars" /\ StarPayments!Init /\ NoX8
       \/ part = "receipts" /\ Receipt!Init
       \/ part = "directpay" /\ Direct!Init
       \/ part = "deposits" /\ Deposit!Init /\ NoX9
       \/ part = "chat" /\ Chat!Init /\ x7 = 0 /\ NoX8
       \/ part = "depositsTwo" /\ DepositTwo!Init /\ x7 /\ x6 = {"A", "B"} /\ NoX9
       \/ part = "trials" /\ Trials!Init /\ x11 = 0
       \/ part = "games" /\ Games!Init /\ x11 = 0

GatewaysNext ==
    /\ UNCHANGED part
    /\ \/ part = "irgateway" /\ Next /\ UNCHANGED xs
       \/ part = "tonpays" /\ Ton!Next /\ UNCHANGED <<vars, x10, x11>>
       \/ part = "tonCustom" /\ TonCustom!Next /\ UNCHANGED <<vars, x10, x11>>
       \/ part = "stars" /\ StarPayments!Next /\ UNCHANGED <<vars, x8, x9, x10, x11>>
       \/ part = "receipts" /\ Receipt!Next /\ UNCHANGED vars
       \/ part = "directpay" /\ Direct!Next /\ UNCHANGED vars
       \/ part = "chat" /\ Chat!Next /\ UNCHANGED <<vars, x7, x8, x9, x10, x11>>
       \/ part = "deposits" /\ Deposit!Next /\ UNCHANGED <<vars, x9, x10, x11>>
       \/ part = "depositsTwo" /\ DepositTwo!Next /\ UNCHANGED <<vars, x9, x10, x11>>
       \/ part = "trials" /\ Trials!Next /\ UNCHANGED <<vars, x11>>
       \/ part = "games" /\ Games!Next /\ UNCHANGED <<vars, x11>>

GatewaysSpec == GatewaysInit /\ [][GatewaysNext]_all

-----------------------------------------------------------------------------
\* TonPays: only what the gateway itself reports as paid is credited, neither a
\* webhook nor a stale copy is taken at its word; and a paid invoice is closed
\* without a credit for one reason only, its age.  Stars: an approved row was credited
\* once and another one never, and what Telegram charged is credited, however the
\* expiry job races the approval.
InvoicesKeepFaith ==
    /\ part = "tonpays" => Ton!NeverCreditedUnpaid /\ Ton!PaidLostOnlyByAge
    /\ part = "tonCustom" => TonCustom!NeverCreditedUnpaid /\ TonCustom!PaidLostOnlyByAge
    /\ part = "stars" => StarPayments!StarsKeepFaith

\* Card receipts: a photo is credited once, by the user's messages and the reviews
\* of bot, web panel and job together; the status a card transaction ends with tells
\* whether it was credited, one whose photo could not be compared is approved by an
\* admin only, and a user who is told to send a receipt again can do so: once nobody
\* is at work, a photo counts as a duplicate only while it has a transaction not sent
\* back.
ReceiptsKeepFaith == part = "receipts" => Receipt!ReceiptsKeepFaith

\* A purchase paid for directly is made at most once, is tried when one of its
\* payments was credited, and blocks no later payment when all is at rest (DirectPay);
\* and who presses only the latest message in the chat pays what it told, and makes by
\* that the purchase it showed (Deposits).
DirectPayOnce ==
    /\ part = "directpay" => Direct!AtMostOnce /\ Direct!PaidIsMade /\ Direct!RestIsOpen
    /\ part = "deposits" => Deposit!DepositsKeepFaith
    /\ part = "depositsTwo" => DepositTwo!DepositsKeepFaith

\* Buying and renewing in the chat: the amount taken was computed for what is made,
\* and who presses only the latest message gets what it shows (Conversations).
ChatKeepsFaith == part = "chat" => Chat!ChatKeepsFaith

\* A user gets one trial, unless an admin resets it or two taps read the row before one
\* has marked it; draws once a day, but for old or simultaneous taps; and is paid each
\* prize and each confirmed group charge once (Gifts).
GiftsOnce ==
    /\ part = "trials" => Trials!GiftsOnce
    /\ part = "games" => Games!GiftsOnce
=============================================================================
