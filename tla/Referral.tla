------------------------------ MODULE Referral ------------------------------
(***************************************************************************)
(* The earnings of one referrer (src/app/db/crud/referral.py,              *)
(* referral_payouts.py).  The first purchase of an invited user makes one  *)
(* reward row, credited to the wallet at once or kept as an earning; the   *)
(* referrer cashes earnings out to a card, which an admin settles, or to   *)
(* the wallet.                                                             *)
(*                                                                         *)
(* Cashing out and settling are transactions of several statements.  With  *)
(* MariaDB and PostgreSQL they lock the rows they read; SQLite ignores FOR *)
(* UPDATE, and what is left is the count of rows moved and the status each *)
(* reward row has when it is written.                                      *)
(***************************************************************************)
EXTENDS Naturals, FiniteSets

CONSTANTS
    Invited,       \* users the referrer invited; each reward is worth 1
    Buyers,        \* purchases of invited users under way at once
    Taps,          \* requests to cash out under way at once
    REVIEWS,       \* settlements of one payout under way at once
    MIN_CARD,      \* referral_withdraw_min
    MAX_PAYOUTS    \* bound on the payouts made

VARIABLES
    locking,    \* the database honours FOR UPDATE
    to,         \* referral_reward_destination: "wallet" or "earnings"
    rewards,    \* rewards[u]: status ("none": no row) and payout_id (0: NULL)
    payouts,    \* payouts[1..made]: method, status and amount
    made,
    wallet,     \* what rewards added to the referrer's wallet
    buyers,     \* buyers[b]: a purchase that pays the reward of an invited user
    taps,       \* taps[t]: a transaction of cash_out with the rows it read
    reviews,    \* reviews[p]: the settlements that have read payout p as pending
    arrived,    \* history: rewards made available while a card request was open
    overturned  \* history: payouts whose outcome was written over with the other one

vars == <<locking, to, rewards, payouts, made, wallet, buyers, taps, reviews, arrived, overturned>>

Destinations == {"wallet", "earnings"}
NoReward == [status |-> "none", payout |-> 0]
NoPayout == [method |-> "none", status |-> "none", amount |-> 0]
IdleBuyer == [pc |-> "idle", user |-> "none", to |-> "wallet"]
IdleTap == [pc |-> "idle", method |-> "card", rows |-> {}]

Init ==
    /\ locking \in BOOLEAN
    /\ to \in Destinations
    /\ rewards = [u \in Invited |-> NoReward]
    /\ payouts = [p \in 1..MAX_PAYOUTS |-> NoPayout]
    /\ made = 0 /\ wallet = 0 /\ arrived = 0
    /\ buyers = [b \in Buyers |-> IdleBuyer]
    /\ taps = [t \in Taps |-> IdleTap]
    /\ reviews = [p \in 1..MAX_PAYOUTS |-> 0]
    /\ overturned = {}

With(status) == {u \in Invited : rewards[u].status = status}
RowsOf(p) == {u \in Invited : rewards[u].payout = p}
CardOpen == \E t \in Taps : taps[t].pc # "idle" /\ taps[t].method = "card"

-----------------------------------------------------------------------------
(* process_referral_reward.                                                *)

\* The admin changes where rewards go.
SetDestination ==
    /\ to' \in Destinations \ {to}
    /\ UNCHANGED <<locking, rewards, payouts, made, wallet, buyers, taps, reviews, arrived, overturned>>

\* The settings are read, then the pair is looked up.
BuyerChecks(b) ==
    /\ buyers[b].pc = "idle"
    /\ \E u \in Invited :
         /\ rewards[u] = NoReward
         /\ buyers' = [buyers EXCEPT ![b] = [pc |-> "insert", user |-> u, to |-> to]]
    /\ UNCHANGED <<locking, to, rewards, payouts, made, wallet, taps, reviews, arrived, overturned>>

\* The insert and the credit.
Rewards(b) ==
    LET u == buyers[b].user
    IN  /\ rewards' = [rewards EXCEPT ![u] =
              [status |-> IF buyers[b].to = "earnings" THEN "available" ELSE "completed",
               payout |-> 0]]
        /\ wallet' = wallet + IF buyers[b].to = "wallet" THEN 1 ELSE 0
        /\ arrived' = arrived + IF buyers[b].to = "earnings" /\ CardOpen THEN 1 ELSE 0

\* Mutant: nothing refuses a second row of the pair.
RewardsAgain(b) ==
    /\ buyers[b].pc = "insert"
    /\ Rewards(b)
    /\ buyers' = [buyers EXCEPT ![b] = IdleBuyer]
    /\ UNCHANGED <<locking, to, payouts, made, taps, reviews, overturned>>

\* The unique index of the pair refuses a second row.
BuyerRewards(b) ==
    /\ buyers[b].pc = "insert"
    /\ IF rewards[buyers[b].user] = NoReward THEN Rewards(b)
                                             ELSE UNCHANGED <<rewards, wallet, arrived>>
    /\ buyers' = [buyers EXCEPT ![b] = IdleBuyer]
    /\ UNCHANGED <<locking, to, payouts, made, taps, reviews, overturned>>

\* A database error or a restart before the commit.
BuyerFails(b) ==
    /\ buyers[b].pc = "insert"
    /\ buyers' = [buyers EXCEPT ![b] = IdleBuyer]
    /\ UNCHANGED <<locking, to, rewards, payouts, made, wallet, taps, reviews, arrived, overturned>>

-----------------------------------------------------------------------------
(* cash_out.                                                               *)

\* Mutant: an open request does not stop another one.
TapChecksNothing(t) ==
    /\ taps[t].pc = "idle"
    /\ \E m \in {"card", "wallet"} :
         taps' = [taps EXCEPT ![t] = [pc |-> "read", method |-> m, rows |-> {}]]
    /\ UNCHANGED <<locking, to, rewards, payouts, made, wallet, buyers, reviews, arrived, overturned>>

\* A card request looks for an open one.
TapChecks(t) ==
    /\ taps[t].pc = "idle"
    /\ \E m \in {"card", "wallet"} :
         /\ m = "card" => \A p \in 1..MAX_PAYOUTS : payouts[p].status # "pending"
         /\ taps' = [taps EXCEPT ![t] = [pc |-> "read", method |-> m, rows |-> {}]]
    /\ UNCHANGED <<locking, to, rewards, payouts, made, wallet, buyers, reviews, arrived, overturned>>

Locked == UNION {taps[t].rows : t \in {x \in Taps : locking /\ taps[x].pc = "move"}}

\* Waits for the rows another transaction locked; then nothing may be left.
TapReads(t) ==
    /\ taps[t].pc = "read" /\ made < MAX_PAYOUTS
    /\ With("available") \cap Locked = {}
    /\ LET rows == With("available")
           enough == rows # {} /\ (taps[t].method = "card" => Cardinality(rows) >= MIN_CARD)
       IN  taps' = [taps EXCEPT ![t] = IF enough THEN [@ EXCEPT !.pc = "move", !.rows = rows]
                                                 ELSE IdleTap]
    /\ UNCHANGED <<locking, to, rewards, payouts, made, wallet, buyers, reviews, arrived, overturned>>

Moves(t, rows) ==
    LET card == taps[t].method = "card"
        amount == Cardinality(taps[t].rows)
    IN  /\ made' = made + 1
        /\ payouts' = [payouts EXCEPT ![made + 1] =
             [method |-> taps[t].method, amount |-> amount,
              status |-> IF card THEN "pending" ELSE "completed"]]
        /\ rewards' = [u \in Invited |->
             IF u \in rows THEN [status |-> IF card THEN "requested" ELSE "converted",
                                 payout |-> made + 1]
                           ELSE rewards[u]]
        /\ wallet' = wallet + IF card THEN 0 ELSE amount

\* Mutant: the rows that are still available are moved, for the sum first read.
MovesWhatIsLeft(t) ==
    /\ taps[t].pc = "move" /\ made < MAX_PAYOUTS
    /\ Moves(t, taps[t].rows \cap With("available"))
    /\ taps' = [taps EXCEPT ![t] = IdleTap]
    /\ UNCHANGED <<locking, to, buyers, reviews, arrived, overturned>>

\* Everything is rolled back unless every row read is moved.
TapMoves(t) ==
    /\ taps[t].pc = "move" /\ made < MAX_PAYOUTS
    /\ IF taps[t].rows \subseteq With("available")
       THEN Moves(t, taps[t].rows)
       ELSE UNCHANGED <<made, payouts, rewards, wallet>>
    /\ taps' = [taps EXCEPT ![t] = IdleTap]
    /\ UNCHANGED <<locking, to, buyers, reviews, arrived, overturned>>

TapFails(t) ==
    /\ taps[t].pc # "idle"
    /\ taps' = [taps EXCEPT ![t] = IdleTap]
    /\ UNCHANGED <<locking, to, rewards, payouts, made, wallet, buyers, reviews, arrived, overturned>>

-----------------------------------------------------------------------------
(* settle: by any of the admins.                                           *)

\* The payout is read, and with row locks kept from other settlements; one that was
\* reviewed before is left alone.
SettleReads(p) ==
    /\ payouts[p].status = "pending"
    /\ reviews[p] < IF locking THEN 1 ELSE REVIEWS
    /\ reviews' = [reviews EXCEPT ![p] = @ + 1]
    /\ UNCHANGED <<locking, to, rewards, payouts, made, wallet, buyers, taps, arrived, overturned>>

Outcome(paid) == IF paid THEN "paid" ELSE "rejected"

Settled(p, paid, rows) ==
    /\ payouts' = [payouts EXCEPT ![p].status = Outcome(paid)]
    /\ rewards' = [u \in Invited |->
         IF u \notin rows THEN rewards[u]
         ELSE IF paid THEN [rewards[u] EXCEPT !.status = "paid"]
         ELSE [status |-> "available", payout |-> 0]]
    /\ arrived' = arrived + IF ~paid /\ CardOpen THEN Cardinality(rows) ELSE 0
    /\ overturned' = overturned \cup
         IF payouts[p].status \in {"pending", Outcome(paid)} THEN {} ELSE {p}

\* Mutant: the status of the rows is not looked at.
SettleWritesAll(p) ==
    /\ reviews[p] > 0
    /\ \E paid \in BOOLEAN : Settled(p, paid, RowsOf(p))
    /\ reviews' = [reviews EXCEPT ![p] = @ - 1]
    /\ UNCHANGED <<locking, to, made, wallet, buyers, taps>>

\* The rows still requested, and the outcome whatever the status has become.
SettleWrites(p) ==
    /\ reviews[p] > 0
    /\ \E paid \in BOOLEAN :
         Settled(p, paid, RowsOf(p) \cap With("requested"))
    /\ reviews' = [reviews EXCEPT ![p] = @ - 1]
    /\ UNCHANGED <<locking, to, made, wallet, buyers, taps>>

\* A database error or a restart before the commit.
SettleFails(p) ==
    /\ reviews[p] > 0
    /\ reviews' = [reviews EXCEPT ![p] = @ - 1]
    /\ UNCHANGED <<locking, to, rewards, payouts, made, wallet, buyers, taps, arrived, overturned>>

Next ==
    \/ SetDestination
    \/ \E b \in Buyers : BuyerChecks(b) \/ BuyerRewards(b) \/ BuyerFails(b)
    \/ \E t \in Taps : TapChecks(t) \/ TapReads(t) \/ TapMoves(t) \/ TapFails(t)
    \/ \E p \in 1..MAX_PAYOUTS : SettleReads(p) \/ SettleWrites(p) \/ SettleFails(p)

Spec == Init /\ [][Next]_vars

-----------------------------------------------------------------------------
(* Properties.                                                             *)

StatusOf(payout) ==
    CASE payout.status = "pending" -> "requested"
      [] payout.status = "paid" -> "paid"
      [] payout.status = "completed" -> "converted"
      [] OTHER -> "none"

\* Reward rows are the ledger: a payout that stands is exactly the sum of the
\* rows moved onto it, all in the state its own status calls for, and the wallet
\* received each reward that is not an earning and each converted one once.  Only
\* without row locks can an admin overturn what another one settled; then, too, no
\* row of the payout waits for a settlement: it is paid, or it has left the payout.
PayoutsAreBacked ==
    /\ \A p \in (1..MAX_PAYOUTS) \ overturned :
         /\ \A u \in RowsOf(p) : rewards[u].status = StatusOf(payouts[p])
         /\ payouts[p].status \in {"pending", "paid", "completed"} =>
              Cardinality(RowsOf(p)) = payouts[p].amount
    /\ \A p \in overturned :
         /\ ~locking
         /\ \A u \in RowsOf(p) : rewards[u].status = "paid"
    /\ wallet = Cardinality(With("completed") \cup With("converted"))

\* A row that reached paid or converted never comes back (referral_payouts.py).
PaidForGood ==
    \A u \in Invited :
        rewards[u].status \in {"paid", "converted", "completed"} => rewards'[u] = rewards[u]

\* Two taps of the card button make one payout: a second one can be open only
\* when a reward became available after the first request had looked.
OnePayoutPerReward ==
    Cardinality({p \in 1..MAX_PAYOUTS : payouts[p].status = "pending"}) <= 1 + arrived

=============================================================================
