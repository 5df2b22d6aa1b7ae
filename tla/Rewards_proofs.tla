---------------------------- MODULE Rewards_proofs ----------------------------
(***************************************************************************)
(* Proofs about what users are given: Referral first, then, as the         *)
(* instance Gift, Gifts.  PayoutsAreBacked is not inductive: the row of a *)
(* payout not made yet, the link between a row's status and its payout_id, *)
(* and what a settlement that has read its payout can still find have to be *)
(* known as well.  IInv adds all three.                                    *)
(***************************************************************************)
EXTENDS Referral, FiniteSetTheorems, TLAPS

\* The users are finitely many, and the bound on the payouts is a number.
ReferralAssumptions == IsFiniteSet(Invited) /\ MAX_PAYOUTS \in Nat

RewardStatuses == {"none", "available", "completed", "requested", "converted", "paid"}
PayoutStatuses == {"none", "pending", "paid", "rejected", "completed"}

TypeOK ==
    /\ rewards \in [Invited -> [status : RewardStatuses, payout : Nat]]
    /\ payouts \in [1..MAX_PAYOUTS ->
         [method : {"none", "card", "wallet"}, status : PayoutStatuses, amount : Nat]]
    /\ made \in 0..MAX_PAYOUTS
    /\ wallet \in Nat
    /\ buyers \in [Buyers ->
         [pc : {"idle", "insert"}, user : Invited \cup {"none"}, to : Destinations]]
    /\ taps \in [Taps ->
         [pc : {"idle", "read", "move"}, method : {"card", "wallet"}, rows : SUBSET Invited]]
    /\ to \in Destinations
    /\ reviews \in [1..MAX_PAYOUTS -> Nat]
    /\ overturned \in SUBSET (1..MAX_PAYOUTS)

\* A purchase under way is that of an invited user.
BuyersKnown == \A b \in Buyers : buyers[b].pc = "insert" => buyers[b].user \in Invited

\* Payouts are numbered without gaps, and no row is moved onto one not made.
Numbered ==
    /\ \A p \in 1..MAX_PAYOUTS : p > made => payouts[p].status = "none"
    /\ \A u \in Invited : rewards[u].payout <= made

\* A row has a payout exactly in the states a payout brings about.
Bound ==
    \A u \in Invited :
        (rewards[u].payout = 0) <=> (rewards[u].status \in {"none", "available", "completed"})

\* The rows of a payout are in the state its own status calls for; those of an
\* overturned one are paid.
RowsFollow ==
    \A p \in 1..MAX_PAYOUTS : \A u \in RowsOf(p) :
        rewards[u].status = IF p \in overturned THEN "paid" ELSE StatusOf(payouts[p])

\* A settlement under way has read a request; with row locks it is still to be settled.
Reviewed ==
    /\ \A p \in 1..MAX_PAYOUTS :
         /\ reviews[p] > 0 => payouts[p].status \in {"pending", "paid", "rejected"}
         /\ locking => reviews[p] <= 1
         /\ locking /\ reviews[p] > 0 => payouts[p].status = "pending"
    /\ \A p \in overturned : ~locking /\ payouts[p].status \in {"paid", "rejected"}

\* A payout that stands is the sum of its rows.
SumsMatch ==
    \A p \in (1..MAX_PAYOUTS) \ overturned :
        payouts[p].status \in {"pending", "paid", "completed"} =>
            Cardinality(RowsOf(p)) = payouts[p].amount

Paid == With("completed") \cup With("converted")
WalletMatches == wallet = Cardinality(Paid)

Rows == Numbered /\ Bound /\ RowsFollow
IInv == ReferralAssumptions /\ TypeOK /\ BuyersKnown /\ Rows /\ Reviewed /\ SumsMatch /\ WalletMatches

-----------------------------------------------------------------------------
\* The wallet is credited for one more row when the row is new to Paid.
LEMMA OneMore ==
    ASSUME NEW S, IsFiniteSet(S), NEW x, x \notin S
    PROVE  /\ IsFiniteSet(S \cup {x})
           /\ Cardinality(S \cup {x}) = Cardinality(S) + 1
    BY FS_AddElement

\* The cardinalities of two finite sets without a common element add up.
LEMMA Disjoint ==
    ASSUME NEW S, NEW T, IsFiniteSet(S), IsFiniteSet(T), S \cap T = {}
    PROVE  Cardinality(S \cup T) = Cardinality(S) + Cardinality(T)
    <1>1. Cardinality(S \cup T) = Cardinality(S) + Cardinality(T) - Cardinality(S \cap T)
        BY FS_Union
    <1>2. Cardinality(S \cap T) = 0
        BY FS_EmptySet
    <1>3. Cardinality(S) \in Nat /\ Cardinality(T) \in Nat
        BY FS_CardinalityType
    <1> QED BY <1>1, <1>2, <1>3

\* Every set of invited users is finite.
LEMMA InvitedFinite ==
    ASSUME ReferralAssumptions, NEW S \in SUBSET Invited
    PROVE  IsFiniteSet(S) /\ Cardinality(S) \in Nat
    BY FS_Subset, FS_CardinalityType DEF ReferralAssumptions

\* The invariant holds initially.
LEMMA InitInv == ReferralAssumptions /\ Init => IInv
    <1> SUFFICES ASSUME ReferralAssumptions, Init PROVE IInv
        OBVIOUS
    <1> USE DEF ReferralAssumptions
    <1>1. TypeOK /\ BuyersKnown
        BY DEF Init, TypeOK, BuyersKnown, RewardStatuses, PayoutStatuses, NoReward, NoPayout,
               IdleBuyer, IdleTap, Destinations
    <1>2. Rows
        BY DEF Init, Rows, Numbered, Bound, RowsFollow, RowsOf, NoReward, NoPayout
    <1>3. SumsMatch /\ Reviewed
        BY DEF Init, SumsMatch, Reviewed, NoPayout
    <1>4. Paid = {}
        BY DEF Init, Paid, With, NoReward
    <1>5. WalletMatches
        BY <1>4, FS_EmptySet DEF Init, WalletMatches
    <1> QED BY <1>1, <1>2, <1>3, <1>5 DEF IInv

-----------------------------------------------------------------------------
(* The steps that move rows.                                               *)

\* A new reward row keeps the invariant.
LEMMA RewardsInv ==
    ASSUME IInv, NEW b \in Buyers, BuyerRewards(b)
    PROVE  IInv'
    <1> DEFINE u == buyers[b].user
    <1>f. ReferralAssumptions
        BY DEF IInv
    <1>1. buyers[b].pc = "insert" /\ u \in Invited
        BY DEF IInv, BuyersKnown, BuyerRewards
    <1>2. /\ UNCHANGED <<locking, to, payouts, made, taps, reviews, overturned>>
          /\ buyers' = [buyers EXCEPT ![b] = IdleBuyer]
        BY DEF BuyerRewards
    <1>3. BuyersKnown' /\ Reviewed'
        BY <1>2 DEF IInv, TypeOK, BuyersKnown, Reviewed, IdleBuyer
    <1>4. buyers' \in [Buyers ->
             [pc : {"idle", "insert"}, user : Invited \cup {"none"}, to : Destinations]]
        BY <1>2 DEF IInv, TypeOK, IdleBuyer, Destinations
    <1>5. CASE rewards[u] # NoReward
        <2>1. UNCHANGED <<rewards, wallet>>
            BY <1>5 DEF BuyerRewards
        <2>2. TypeOK'
            BY <1>2, <1>4, <2>1 DEF IInv, TypeOK
        <2> QED BY <1>2, <1>3, <2>1, <2>2
                DEF IInv, Rows, Numbered, Bound, RowsFollow, SumsMatch, WalletMatches, RowsOf,
                    StatusOf, Paid, With
    <1>6. CASE rewards[u] = NoReward
        <2> DEFINE s == IF buyers[b].to = "earnings" THEN "available" ELSE "completed"
        <2>1. /\ rewards' = [rewards EXCEPT ![u] = [status |-> s, payout |-> 0]]
              /\ wallet' = wallet + IF buyers[b].to = "wallet" THEN 1 ELSE 0
            BY <1>6 DEF BuyerRewards, Rewards
        <2>2. s \in {"available", "completed"} /\ (s = "completed" <=> buyers[b].to = "wallet")
            BY DEF IInv, TypeOK, Destinations
        <2>3. TypeOK'
            BY <1>1, <1>2, <1>4, <2>1, <2>2 DEF IInv, TypeOK, RewardStatuses
        <2>4. \A p \in 1..MAX_PAYOUTS : RowsOf(p)' = RowsOf(p)
            BY <1>1, <1>6, <2>1, <1>f DEF ReferralAssumptions, RowsOf, NoReward, IInv, TypeOK
        <2>5. Rows'
            <3>1. Numbered' /\ Bound'
                BY <1>1, <1>2, <2>1, <2>2 DEF IInv, TypeOK, Rows, Numbered, Bound
            <3>2. RowsFollow'
                BY <1>1, <1>2, <1>6, <2>1, <2>4
                   DEF IInv, TypeOK, Rows, RowsFollow, RowsOf, StatusOf, NoReward
            <3> QED BY <3>1, <3>2 DEF Rows
        <2>6. SumsMatch'
            BY <1>2, <2>4 DEF IInv, SumsMatch
        <2>7. u \notin Paid /\ IsFiniteSet(Paid) /\ Cardinality(Paid) \in Nat
            BY <1>6, InvitedFinite, <1>f DEF Paid, With, NoReward
        <2>8. Paid' = IF s = "completed" THEN Paid \cup {u} ELSE Paid
            BY <1>1, <1>6, <2>1, <2>2 DEF Paid, With, IInv, TypeOK, NoReward
        <2>9. WalletMatches'
            BY <2>1, <2>2, <2>7, <2>8, OneMore DEF IInv, WalletMatches
        <2> QED BY <1>3, <2>3, <2>5, <2>6, <2>9 DEF IInv
    <1> QED BY <1>5, <1>6

\* Cashing out keeps the invariant: all rows read are moved, or none.
LEMMA MovesInv ==
    ASSUME IInv, NEW t \in Taps, TapMoves(t)
    PROVE  IInv'
    <1> DEFINE rows == taps[t].rows
               card == taps[t].method = "card"
               s == IF card THEN "requested" ELSE "converted"
    <1>f. ReferralAssumptions
        BY DEF IInv
    <1>1. /\ taps[t].pc = "move" /\ made < MAX_PAYOUTS
          /\ UNCHANGED <<locking, to, buyers, reviews, overturned>>
          /\ taps' = [taps EXCEPT ![t] = IdleTap]
        BY DEF TapMoves
    <1>2. taps' \in [Taps -> [pc : {"idle", "read", "move"}, method : {"card", "wallet"},
                              rows : SUBSET Invited]]
        BY <1>1 DEF IInv, TypeOK, IdleTap
    <1>3. BuyersKnown'
        BY <1>1 DEF IInv, BuyersKnown
    <1>4. CASE ~(rows \subseteq With("available"))
        <2>1. UNCHANGED <<made, payouts, rewards, wallet>>
            BY <1>4 DEF TapMoves
        <2>2. TypeOK'
            BY <1>1, <1>2, <2>1 DEF IInv, TypeOK
        <2> QED BY <1>1, <1>3, <2>1, <2>2
                DEF IInv, Rows, Reviewed, Numbered, Bound, RowsFollow, SumsMatch, WalletMatches, RowsOf,
                    StatusOf, Paid, With
    <1>5. CASE rows \subseteq With("available")
        <2>0. PICK n \in 1..MAX_PAYOUTS : n = made + 1
            BY <1>1, <1>f DEF ReferralAssumptions, IInv, TypeOK
        <2>1. /\ made' = n
              /\ payouts' = [payouts EXCEPT ![n] =
                   [method |-> taps[t].method, amount |-> Cardinality(rows),
                    status |-> IF card THEN "pending" ELSE "completed"]]
              /\ rewards' = [v \in Invited |-> IF v \in rows THEN [status |-> s, payout |-> n]
                                               ELSE rewards[v]]
              /\ wallet' = wallet + IF card THEN 0 ELSE Cardinality(rows)
            BY <1>5, <2>0 DEF TapMoves, Moves
        <2>2. n \in 1..MAX_PAYOUTS /\ rows \in SUBSET Invited
            BY DEF IInv, TypeOK
        <2>3. IsFiniteSet(rows) /\ Cardinality(rows) \in Nat
            BY <2>2, InvitedFinite, <1>f
        <2>4. TypeOK'
            <3>1. wallet' \in Nat /\ made' \in 0..MAX_PAYOUTS
                BY <2>1, <2>2, <2>3 DEF IInv, TypeOK
            <3>2. rewards' \in [Invited -> [status : RewardStatuses, payout : Nat]]
                BY <2>1, <2>2 DEF IInv, TypeOK, RewardStatuses
            <3>3. payouts' \in [1..MAX_PAYOUTS ->
                    [method : {"none", "card", "wallet"}, status : PayoutStatuses, amount : Nat]]
                BY <2>1, <2>2, <2>3 DEF IInv, TypeOK, PayoutStatuses
            <3> QED BY <1>1, <1>2, <3>1, <3>2, <3>3 DEF IInv, TypeOK
        <2>5. \A v \in rows : rewards[v].status = "available" /\ rewards[v].payout = 0
            BY <1>5, <2>2 DEF With, IInv, Rows, Bound
        <2>6. RowsOf(n) = {}
            BY <2>0 DEF RowsOf, IInv, TypeOK, Rows, Numbered
        <2>7. RowsOf(n)' = rows
            BY <2>1, <2>2, <2>6 DEF RowsOf
        <2>8. \A p \in (1..MAX_PAYOUTS) \ {n} : RowsOf(p)' = RowsOf(p) /\ payouts'[p] = payouts[p]
            BY <2>1, <2>2, <2>5 DEF RowsOf, IInv, TypeOK
        <2>n. payouts[n].status = "none" /\ n \notin overturned
            BY <2>0 DEF IInv, TypeOK, Rows, Numbered, Reviewed
        <2>r. Reviewed'
            BY <1>1, <2>1, <2>8, <2>n DEF IInv, TypeOK, Reviewed
        <2>9. Rows'
            <3>1. Numbered'
                BY <2>0, <2>1, <2>2, <2>8 DEF IInv, TypeOK, Rows, Numbered
            <3>2. Bound'
                BY <2>1, <2>2 DEF IInv, TypeOK, Rows, Bound
            <3>3. \A v \in rows : rewards'[v].status = s
                BY <2>1, <2>2
            <3>4. payouts'[n].status = IF card THEN "pending" ELSE "completed"
                BY <2>1, <2>2 DEF IInv, TypeOK
            <3>5. StatusOf(payouts'[n]) = s
                BY <3>4 DEF StatusOf
            <3>6. ASSUME NEW p \in (1..MAX_PAYOUTS) \ {n}, NEW v \in RowsOf(p)'
                  PROVE  rewards'[v].status =
                         IF p \in overturned THEN "paid" ELSE StatusOf(payouts'[p])
                <4>1. v \in RowsOf(p) /\ payouts'[p] = payouts[p] /\ v \in Invited
                    BY <2>8 DEF RowsOf
                <4>2. v \notin rows
                    BY <4>1, <2>5 DEF RowsOf
                <4>3. rewards'[v] = rewards[v]
                    BY <2>1, <4>1, <4>2
                <4> QED BY <4>1, <4>3 DEF IInv, Rows, RowsFollow
            <3>7. RowsFollow'
                BY <1>1, <2>7, <2>n, <3>3, <3>5, <3>6 DEF RowsFollow, StatusOf
            <3> QED BY <3>1, <3>2, <3>7 DEF Rows
        <2>10. SumsMatch'
            <3>1. payouts'[n].amount = Cardinality(rows)
                BY <2>1, <2>2 DEF IInv, TypeOK
            <3> QED BY <1>1, <2>7, <2>8, <3>1 DEF IInv, SumsMatch
        <2>11. WalletMatches'
            <3>1. IsFiniteSet(Paid) /\ Cardinality(Paid) \in Nat /\ Paid \cap rows = {}
                BY <2>5, InvitedFinite, <1>f DEF Paid, With
            <3>2. Paid' = IF card THEN Paid ELSE Paid \cup rows
                BY <2>1, <2>2, <2>5 DEF Paid, With
            <3>3. card => WalletMatches'
                BY <2>1, <3>1, <3>2 DEF IInv, TypeOK, WalletMatches
            <3>4. ~card => WalletMatches'
                BY <2>1, <2>3, <3>1, <3>2, Disjoint DEF IInv, TypeOK, WalletMatches
            <3> QED BY <3>3, <3>4
        <2> QED BY <1>3, <2>4, <2>9, <2>10, <2>11, <2>r DEF IInv
    <1> QED BY <1>4, <1>5

\* A settlement finds all rows of a pending payout, and none of any other.
LEMMA RequestedRows ==
    ASSUME IInv, NEW p \in 1..MAX_PAYOUTS, reviews[p] > 0
    PROVE  /\ payouts[p].status \in {"pending", "paid", "rejected"}
           /\ RowsOf(p) \cap With("requested") =
                IF payouts[p].status = "pending" THEN RowsOf(p) ELSE {}
           /\ payouts[p].status = "rejected" => \A u \in RowsOf(p) : rewards[u].status = "paid"
           /\ payouts[p].status = "paid" => \A u \in RowsOf(p) : rewards[u].status = "paid"
    <1>1. payouts[p].status \in {"pending", "paid", "rejected"}
        BY DEF IInv, Reviewed
    <1>2. p \in overturned => payouts[p].status # "pending"
        BY DEF IInv, Reviewed
    <1>3. ASSUME NEW u \in RowsOf(p)
          PROVE  rewards[u].status = IF payouts[p].status = "pending" THEN "requested" ELSE "paid"
        <2>1. u \in Invited /\ rewards[u].payout = p /\ rewards[u].status # "none"
            BY <1>3 DEF RowsOf, IInv, Rows, Bound
        <2>2. rewards[u].status = IF p \in overturned THEN "paid" ELSE StatusOf(payouts[p])
            BY <1>3 DEF IInv, Rows, RowsFollow
        <2> QED BY <1>1, <1>2, <2>1, <2>2 DEF StatusOf
    <1>4. \A u \in RowsOf(p) : u \in Invited
        BY DEF RowsOf
    <1> QED BY <1>1, <1>3, <1>4 DEF With

\* Settling a request moves all of its rows, and no other row; settling it once more
\* moves none.
LEMMA SettleInv ==
    ASSUME IInv, NEW p \in 1..MAX_PAYOUTS, SettleWrites(p)
    PROVE  IInv'
    <1> DEFINE rows == IF payouts[p].status = "pending" THEN RowsOf(p) ELSE {}
    <1>0. reviews[p] > 0
        BY DEF SettleWrites
    <1>1. PICK paid \in BOOLEAN : Settled(p, paid, rows)
        BY <1>0, RequestedRows DEF SettleWrites
    <1>2. /\ UNCHANGED <<locking, to, made, wallet, buyers, taps>>
          /\ reviews' = [reviews EXCEPT ![p] = @ - 1]
        BY DEF SettleWrites
    <1>3. \A u \in RowsOf(p) :
             rewards[u].status = IF payouts[p].status = "pending" THEN "requested" ELSE "paid"
        BY <1>0, RequestedRows DEF With
    <1> DEFINE new == Outcome(paid)
    <1>4. payouts' = [payouts EXCEPT ![p].status = new]
        BY <1>1 DEF Settled
    <1>5. rewards' = [u \in Invited |->
             IF u \notin rows THEN rewards[u]
             ELSE IF paid THEN [rewards[u] EXCEPT !.status = "paid"]
             ELSE [status |-> "available", payout |-> 0]]
        BY <1>1 DEF Settled
    <1>n. new \in {"paid", "rejected"} /\ (paid <=> new = "paid")
        BY DEF Outcome
    <1>o. overturned' = IF payouts[p].status \in {"pending", new} THEN overturned
                                                                 ELSE overturned \cup {p}
        BY <1>1 DEF Settled
    <1>6. TypeOK' /\ BuyersKnown'
        <2>1. rewards' \in [Invited -> [status : RewardStatuses, payout : Nat]]
            BY <1>5 DEF IInv, TypeOK, RewardStatuses
        <2>2. payouts' \in [1..MAX_PAYOUTS ->
                [method : {"none", "card", "wallet"}, status : PayoutStatuses, amount : Nat]]
            <3>1. new \in PayoutStatuses
                BY <1>n DEF PayoutStatuses
            <3>2. payouts \in [1..MAX_PAYOUTS ->
                    [method : {"none", "card", "wallet"}, status : PayoutStatuses, amount : Nat]]
                BY DEF IInv, TypeOK
            <3> HIDE DEF new
            <3> QED BY <1>4, <3>1, <3>2
        <2>3. reviews' \in [1..MAX_PAYOUTS -> Nat] /\ overturned' \in SUBSET (1..MAX_PAYOUTS)
            BY <1>0, <1>2, <1>o DEF IInv, TypeOK
        <2>4. TypeOK'
            BY <1>2, <2>1, <2>2, <2>3 DEF IInv, TypeOK
        <2> QED BY <1>2, <2>4 DEF IInv, BuyersKnown
    <1>7. \A q \in (1..MAX_PAYOUTS) \ {p} :
             /\ RowsOf(q)' = RowsOf(q) /\ payouts'[q] = payouts[q]
             /\ q \in overturned' <=> q \in overturned
        <2>1. \A u \in rows : rewards[u].payout = p
            BY DEF RowsOf
        <2> HIDE DEF new, rows
        <2> QED BY <1>4, <1>5, <1>o, <2>1 DEF RowsOf, IInv, TypeOK
    <1>8. RowsOf(p)' = IF paid THEN RowsOf(p) ELSE RowsOf(p) \ rows
        BY <1>5 DEF RowsOf, IInv, TypeOK
    <1>9. payouts'[p].status = new /\ payouts'[p].amount = payouts[p].amount
        BY <1>4 DEF IInv, TypeOK
    <1>s. payouts[p].status \in {"pending", "paid", "rejected"}
        BY <1>0, RequestedRows
    <1>10. Rows'
        <2>1. p <= made
            BY <1>s DEF IInv, TypeOK, Rows, Numbered
        <2>2. Numbered'
            BY <1>2, <1>5, <1>7, <2>1 DEF IInv, TypeOK, Rows, Numbered
        <2>3. Bound'
            BY <1>3, <1>5 DEF IInv, TypeOK, Rows, Bound, RowsOf
        <2>4. ASSUME NEW q \in (1..MAX_PAYOUTS) \ {p}, NEW u \in RowsOf(q)'
              PROVE  rewards'[u].status =
                        IF q \in overturned' THEN "paid" ELSE StatusOf(payouts'[q])
            <3>1. u \in RowsOf(q) /\ u \in Invited /\ payouts'[q] = payouts[q]
                BY <1>7 DEF RowsOf
            <3>2. rewards'[u] = rewards[u]
                BY <1>5, <3>1 DEF RowsOf
            <3>3. rewards[u].status = IF q \in overturned THEN "paid" ELSE StatusOf(payouts[q])
                BY <3>1 DEF IInv, Rows, RowsFollow
            <3> QED BY <1>7, <3>1, <3>2, <3>3
        <2>5. ASSUME NEW u \in RowsOf(p)'
              PROVE  rewards'[u].status =
                        IF p \in overturned' THEN "paid" ELSE StatusOf(payouts'[p])
            <3>1. u \in RowsOf(p) /\ u \in Invited
                BY <1>8 DEF RowsOf
            <3>2. rewards'[u].status = "paid"
                BY <1>3, <1>5, <1>8, <2>5, <3>1 DEF IInv, TypeOK
            <3>3. payouts'[p].status = "paid" => StatusOf(payouts'[p]) = "paid"
                BY DEF StatusOf
            <3>4. ASSUME new # "paid", p \notin overturned' PROVE FALSE
                <4>1. ~paid /\ payouts[p].status \in {"pending", "rejected"} /\ p \notin overturned
                    BY <1>n, <1>o, <1>s, <3>4
                <4>2. payouts[p].status = "rejected"
                    BY <1>8, <2>5, <4>1
                <4>3. rewards[u].status = StatusOf(payouts[p])
                    BY <3>1, <4>1 DEF IInv, Rows, RowsFollow
                <4> QED BY <1>3, <3>1, <4>2, <4>3 DEF StatusOf
            <3> QED BY <1>9, <3>2, <3>3, <3>4
        <2>6. RowsFollow'
            BY <2>4, <2>5 DEF RowsFollow, StatusOf
        <2> QED BY <2>2, <2>3, <2>6 DEF Rows
    <1>r. Reviewed'
        <2>1. locking => p \notin overturned' /\ (\A q \in overturned' : q \in overturned)
            BY <1>0, <1>o DEF IInv, Reviewed
        <2>2. locking => reviews'[p] = 0
            BY <1>0, <1>2 DEF IInv, TypeOK, Reviewed
        <2>3. reviews' \in [1..MAX_PAYOUTS -> Nat]
              /\ \A q \in (1..MAX_PAYOUTS) \ {p} : reviews'[q] = reviews[q]
            BY <1>2, <1>6 DEF IInv, TypeOK
        <2>4. \A q \in overturned' : q = p \/ q \in overturned
            BY <1>o
        <2>5. \A q \in overturned' : q \in 1..MAX_PAYOUTS
            BY <1>6 DEF TypeOK
        <2>6. \A q \in overturned' : ~locking' /\ payouts'[q].status \in {"paid", "rejected"}
            BY <1>2, <1>7, <1>9, <1>n, <2>1, <2>4, <2>5 DEF IInv, Reviewed
        <2> QED BY <1>2, <1>7, <1>9, <1>n, <2>2, <2>3, <2>6 DEF IInv, Reviewed
    <1>11. SumsMatch'
        <2>1. ASSUME p \notin overturned', new = "paid"
              PROVE  Cardinality(RowsOf(p)') = payouts'[p].amount
            <3>1. p \notin overturned /\ payouts[p].status \in {"pending", "paid"} /\ paid
                BY <1>n, <1>o, <1>s, <2>1
            <3>2. Cardinality(RowsOf(p)) = payouts[p].amount
                BY <3>1 DEF IInv, SumsMatch
            <3> QED BY <1>8, <1>9, <3>1, <3>2
        <2> QED BY <1>7, <1>9, <1>n, <2>1 DEF IInv, SumsMatch
    <1>12. Paid' = Paid
        BY <1>3, <1>5 DEF Paid, With, IInv, TypeOK, RowsOf
    <1> QED BY <1>2, <1>6, <1>10, <1>r, <1>11, <1>12 DEF IInv, WalletMatches

-----------------------------------------------------------------------------
\* Every step keeps the invariant.
LEMMA NextInv == IInv /\ [Next]_vars => IInv'
    <1> SUFFICES ASSUME IInv, [Next]_vars PROVE IInv'
        OBVIOUS
    <1> DEFINE Ledger == <<rewards, payouts, made, wallet>>
    <1>1. ASSUME UNCHANGED Ledger, UNCHANGED overturned, BuyersKnown', Reviewed', TypeOK'
          PROVE  IInv'
        BY <1>1 DEF IInv, Rows, Numbered, Bound, RowsFollow, SumsMatch, WalletMatches, RowsOf,
                    StatusOf, Paid, With
    <1>r. ASSUME UNCHANGED <<locking, payouts, reviews, overturned>> PROVE Reviewed'
        BY <1>r DEF IInv, Reviewed
    <1>2. CASE SetDestination
        BY <1>1, <1>r, <1>2 DEF SetDestination, IInv, TypeOK, BuyersKnown
    <1>3. ASSUME NEW b \in Buyers, BuyerChecks(b) PROVE IInv'
        BY <1>1, <1>r, <1>3 DEF BuyerChecks, IInv, TypeOK, BuyersKnown
    <1>4. ASSUME NEW b \in Buyers, BuyerRewards(b) PROVE IInv'
        BY <1>4, RewardsInv
    <1>5. ASSUME NEW b \in Buyers, BuyerFails(b) PROVE IInv'
        BY <1>1, <1>r, <1>5 DEF BuyerFails, IInv, TypeOK, BuyersKnown, IdleBuyer, Destinations
    <1>6. ASSUME NEW t \in Taps, TapChecks(t) PROVE IInv'
        BY <1>1, <1>r, <1>6 DEF TapChecks, IInv, TypeOK, BuyersKnown
    <1>7. ASSUME NEW t \in Taps, TapReads(t) PROVE IInv'
        <2>1. With("available") \in SUBSET Invited
            BY DEF With
        <2>2. taps' = [taps EXCEPT ![t] = IdleTap]
              \/ taps' = [taps EXCEPT ![t] = [@ EXCEPT !.pc = "move", !.rows = With("available")]]
            BY <1>7 DEF TapReads
        <2>3. taps' \in [Taps -> [pc : {"idle", "read", "move"}, method : {"card", "wallet"},
                                  rows : SUBSET Invited]]
            <3> DEFINE T == [pc : {"idle", "read", "move"}, method : {"card", "wallet"},
                             rows : SUBSET Invited]
            <3>1. IdleTap \in T
                BY DEF IdleTap
            <3>2. [taps[t] EXCEPT !.pc = "move", !.rows = With("available")] \in T
                BY <2>1 DEF IInv, TypeOK
            <3>3. taps \in [Taps -> T]
                BY DEF IInv, TypeOK
            <3> HIDE DEF T
            <3>4. taps' \in [Taps -> T]
                BY <2>2, <3>1, <3>2, <3>3
            <3> QED BY <3>4 DEF T
        <2>4. UNCHANGED <<locking, to, rewards, payouts, made, wallet, buyers, reviews, arrived, overturned>>
            BY <1>7 DEF TapReads
        <2>5. TypeOK' /\ BuyersKnown'
            BY <2>3, <2>4 DEF IInv, TypeOK, BuyersKnown
        <2> QED BY <1>1, <1>r, <2>4, <2>5
    <1>8. ASSUME NEW t \in Taps, TapMoves(t) PROVE IInv'
        BY <1>8, MovesInv
    <1>9. ASSUME NEW t \in Taps, TapFails(t) PROVE IInv'
        BY <1>1, <1>r, <1>9 DEF TapFails, IInv, TypeOK, BuyersKnown, IdleTap
    <1>10. ASSUME NEW p \in 1..MAX_PAYOUTS, SettleWrites(p) PROVE IInv'
        BY <1>10, SettleInv
    <1>12. ASSUME NEW p \in 1..MAX_PAYOUTS, SettleReads(p) \/ SettleFails(p) PROVE IInv'
        <2>1. UNCHANGED <<locking, to, rewards, payouts, made, wallet, buyers, taps, overturned>>
            BY <1>12 DEF SettleReads, SettleFails
        <2>2. \/ /\ SettleReads(p) /\ reviews' = [reviews EXCEPT ![p] = @ + 1]
                 /\ payouts[p].status = "pending" /\ (locking => reviews[p] < 1)
              \/ /\ reviews' = [reviews EXCEPT ![p] = @ - 1] /\ reviews[p] > 0
            BY <1>12 DEF SettleReads, SettleFails
        <2>3. TypeOK' /\ BuyersKnown'
            BY <2>1, <2>2 DEF IInv, TypeOK, BuyersKnown
        <2>4. Reviewed'
            <3>1. \A q \in 1..MAX_PAYOUTS :
                     reviews'[q] = reviews[q] \/ (q = p /\ reviews'[q] \in Nat)
                BY <2>2, <2>3 DEF IInv, TypeOK
            <3>2. \/ payouts[p].status = "pending" /\ (locking => reviews'[p] <= 1)
                  \/ reviews[p] > 0 /\ (reviews'[p] <= reviews[p])
                <4>1. reviews \in [1..MAX_PAYOUTS -> Nat]
                    BY DEF IInv, TypeOK
                <4>2. CASE /\ reviews' = [reviews EXCEPT ![p] = @ + 1]
                           /\ payouts[p].status = "pending" /\ (locking => reviews[p] < 1)
                    <5>1. reviews'[p] = reviews[p] + 1 /\ reviews[p] \in Nat
                        BY <4>1, <4>2
                    <5> QED BY <4>2, <5>1
                <4>3. CASE reviews' = [reviews EXCEPT ![p] = @ - 1] /\ reviews[p] > 0
                    <5>1. reviews'[p] = reviews[p] - 1 /\ reviews[p] \in Nat
                        BY <4>1, <4>3
                    <5> QED BY <4>3, <5>1
                <4> QED BY <2>2, <4>2, <4>3
            <3>3. reviews[p] \in Nat /\ reviews'[p] \in Nat
                BY <2>3 DEF IInv, TypeOK
            <3> QED BY <2>1, <3>1, <3>2, <3>3 DEF IInv, Reviewed
        <2> QED BY <1>1, <2>1, <2>3, <2>4
    <1>11. CASE UNCHANGED vars
        BY <1>1, <1>r, <1>11 DEF vars, IInv, TypeOK, BuyersKnown
    <1> QED BY <1>2, <1>3, <1>4, <1>5, <1>6, <1>7, <1>8, <1>9, <1>10, <1>11, <1>12 DEF Next

\* IInv is an invariant of the earnings of a referrer.
THEOREM Inductive ==
    ASSUME ReferralAssumptions
    PROVE  Spec => []IInv
    <1>1. Init => IInv
        BY InitInv
    <1>2. IInv /\ [Next]_vars => IInv'
        BY NextInv
    <1> QED BY <1>1, <1>2, PTL DEF Spec

\* For any number of invited users, purchases, requests to cash out and settlements of
\* one payout at once: a payout that stands is the sum of its rows, each in the state
\* the payout calls for, and the wallet received each reward and conversion once; with
\* row locks for every payout, without them but for those that one admin paid and
\* another one rejected, of which every row that is left was paid.
THEOREM PayoutsAreBackedAlways ==
    ASSUME ReferralAssumptions
    PROVE  Spec => []PayoutsAreBacked
    <1>1. IInv => PayoutsAreBacked
        BY DEF IInv, TypeOK, Rows, RowsFollow, Reviewed, SumsMatch, WalletMatches, Paid,
               PayoutsAreBacked
    <1>2. Spec => []IInv
        BY Inductive
    <1> QED BY <1>1, <1>2, PTL

\* A row that was paid out, converted or credited is never touched again.
THEOREM PaidForGoodAlways ==
    ASSUME ReferralAssumptions
    PROVE  Spec => [][PaidForGood]_vars
    <1> DEFINE Final(u) == rewards[u].status \in {"paid", "converted", "completed"}
    <1>1. IInv /\ [Next]_vars => [PaidForGood]_vars
        <2> SUFFICES ASSUME IInv, [Next]_vars, NEW u \in Invited, Final(u)
                     PROVE  rewards'[u] = rewards[u]
            BY DEF PaidForGood
        <2>1. ASSUME NEW b \in Buyers, BuyerRewards(b) PROVE rewards'[u] = rewards[u]
            BY <2>1 DEF BuyerRewards, Rewards, NoReward, IInv, TypeOK
        <2>2. ASSUME NEW t \in Taps, TapMoves(t) PROVE rewards'[u] = rewards[u]
            BY <2>2 DEF TapMoves, Moves, With, IInv, TypeOK
        <2>3. ASSUME NEW p \in 1..MAX_PAYOUTS, SettleWrites(p) PROVE rewards'[u] = rewards[u]
            BY <2>3 DEF SettleWrites, Settled, With
        <2> QED BY <2>1, <2>2, <2>3
                DEF Next, vars, SetDestination, BuyerChecks, BuyerFails, TapChecks, TapReads,
                    TapFails, SettleReads, SettleFails
    <1>2. Spec => []IInv
        BY Inductive
    <1> QED BY <1>1, <1>2, PTL DEF Spec
-----------------------------------------------------------------------------
(***************************************************************************)
(* How many requests to cash out to a card can be open at once.  A request *)
(* looks for an open one before it moves rows, so a second one can only be *)
(* made by a tap that looked before the first was made.  The first takes   *)
(* every row that was there when it read them (LateRowsArrived), so what   *)
(* the second moves arrived while a card request was under way, and is     *)
(* counted; from then on each further request needs a row, and each row    *)
(* that is still available was counted (MoreNeedRows).                     *)
(***************************************************************************)
PendingPayouts == {p \in 1..MAX_PAYOUTS : payouts[p].status = "pending"}
Available == With("available")
CardMoving(t) == taps[t].pc = "move" /\ taps[t].method = "card"

\* A transaction that moves rows has read some.
MovesSomething == \A t \in Taps : taps[t].pc = "move" => taps[t].rows # {}

\* What a card request has not read arrived since it looked for an open one.
LateRowsArrived ==
    \A t \in Taps : CardMoving(t) => Cardinality(Available \ taps[t].rows) <= arrived

\* Open requests and rows for further ones, once there is an open request.
MoreNeedRows ==
    CardOpen /\ PendingPayouts # {} =>
        Cardinality(PendingPayouts) + Cardinality(Available) <= 1 + arrived

PayoutInv ==
    /\ IInv /\ arrived \in Nat
    /\ MovesSomething /\ LateRowsArrived /\ MoreNeedRows /\ OnePayoutPerReward

\* The sets that are counted are finite.
LEMMA Counted ==
    ASSUME ReferralAssumptions
    PROVE  /\ IsFiniteSet(PendingPayouts) /\ Cardinality(PendingPayouts) \in Nat
           /\ IsFiniteSet(Available) /\ Cardinality(Available) \in Nat
           /\ \A S : IsFiniteSet(Available \ S) /\ Cardinality(Available \ S) \in Nat
    <1>1. IsFiniteSet(1..MAX_PAYOUTS)
        BY FS_Interval DEF ReferralAssumptions
    <1>2. IsFiniteSet(PendingPayouts)
        BY <1>1, FS_Subset DEF PendingPayouts
    <1>3. Available \in SUBSET Invited
        BY DEF Available, With
    <1> QED BY <1>2, <1>3, InvitedFinite, FS_CardinalityType

\* A larger set has no fewer elements.
LEMMA NoFewer ==
    ASSUME NEW T, IsFiniteSet(T), NEW S, S \subseteq T
    PROVE  IsFiniteSet(S) /\ Cardinality(S) <= Cardinality(T)
    BY FS_Subset

\* A step of a tap that touches neither rows nor payouts: card requests that are
\* under way were, unless none is open; and what a request read is what there is.
LEMMA TapKeepsCount ==
    ASSUME PayoutInv, IInv', UNCHANGED <<rewards, payouts, arrived>>,
           CardOpen' => CardOpen \/ PendingPayouts = {},
           \A t \in Taps : taps'[t].pc = "move" =>
               taps'[t] = taps[t] \/ (taps'[t].rows = Available /\ Available # {})
    PROVE  PayoutInv'
    <1>1. PendingPayouts' = PendingPayouts /\ Available' = Available
        BY DEF PendingPayouts, Available, With
    <1>2. OnePayoutPerReward' /\ MoreNeedRows'
        BY <1>1 DEF PayoutInv, OnePayoutPerReward, PendingPayouts, MoreNeedRows
    <1>3. MovesSomething'
        BY DEF PayoutInv, MovesSomething
    <1>4. LateRowsArrived'
        <2> SUFFICES ASSUME NEW t \in Taps, CardMoving(t)'
                     PROVE  Cardinality(Available \ taps'[t].rows) <= arrived
            BY <1>1 DEF LateRowsArrived
        <2>1. CASE taps'[t] = taps[t]
            BY <2>1 DEF PayoutInv, LateRowsArrived, CardMoving
        <2>2. CASE taps'[t].rows = Available
            <3>1. Available \ taps'[t].rows = {}
                BY <2>2
            <3> QED BY <3>1, FS_EmptySet DEF PayoutInv
        <2> QED BY <2>1, <2>2 DEF CardMoving
    <1> QED BY <1>2, <1>3, <1>4 DEF PayoutInv

\* Rewards become available, and are counted if a card request is under way.
LEMMA ArrivalsKeepCount ==
    ASSUME PayoutInv, IInv', UNCHANGED taps, PendingPayouts' \subseteq PendingPayouts,
           NEW new \in SUBSET Invited, Available' = Available \cup new,
           arrived' = arrived + IF CardOpen THEN Cardinality(new) ELSE 0
    PROVE  PayoutInv'
    <1> DEFINE F == Cardinality(PendingPayouts)
               A == Cardinality(Available)
               n == Cardinality(new)
    <1>f. ReferralAssumptions
        BY DEF PayoutInv, IInv
    <1>1. IsFiniteSet(new) /\ n \in Nat
        BY InvitedFinite, <1>f
    <1>2. F \in Nat /\ A \in Nat /\ Cardinality(PendingPayouts') \in Nat
        BY Counted, <1>f, NoFewer, FS_CardinalityType
    <1>3. Cardinality(PendingPayouts') <= F
        BY Counted, <1>f, NoFewer
    <1>4. /\ arrived \in Nat /\ arrived' \in Nat /\ arrived <= arrived'
          /\ CardOpen => arrived' = arrived + n
        <2> HIDE DEF n
        <2>1. arrived \in Nat /\ arrived' = arrived + IF CardOpen THEN n ELSE 0
            BY DEF PayoutInv, n
        <2> QED BY <1>1, <2>1
    <1>5. \A S : /\ Cardinality((Available \cup new) \ S) \in Nat
                 /\ Cardinality((Available \cup new) \ S) <= Cardinality(Available \ S) + n
        <2> TAKE S
        <2> DEFINE B == Available \ S
        <2>1. IsFiniteSet(B) /\ Cardinality(B) \in Nat
            BY Counted, <1>f
        <2>2. /\ IsFiniteSet(B \cup new)
              /\ Cardinality(B \cup new) = Cardinality(B) + n - Cardinality(B \cap new)
            BY <1>1, <2>1, FS_Union
        <2>3. Cardinality(B \cap new) \in Nat
            BY <2>1, FS_Intersection, FS_CardinalityType
        <2>4. /\ IsFiniteSet((Available \cup new) \ S)
              /\ Cardinality((Available \cup new) \ S) <= Cardinality(B \cup new)
            <3>1. (Available \cup new) \ S \subseteq B \cup new
                OBVIOUS
            <3> QED BY <2>2, <3>1, NoFewer
        <2>5. Cardinality((Available \cup new) \ S) \in Nat /\ Cardinality(B \cup new) \in Nat
            BY <2>2, <2>4, FS_CardinalityType
        <2> HIDE DEF B, n
        <2>6. Cardinality((Available \cup new) \ S) <= Cardinality(B) + n
            BY <1>1, <2>1, <2>2, <2>3, <2>4, <2>5
        <2> QED BY <2>5, <2>6 DEF B
    <1>6. CardOpen' <=> CardOpen
        BY DEF CardOpen
    <1>7. OnePayoutPerReward'
        BY <1>2, <1>3, <1>4 DEF PayoutInv, OnePayoutPerReward, PendingPayouts
    <1>8. MovesSomething'
        BY DEF PayoutInv, MovesSomething
    <1>9. LateRowsArrived'
        <2> SUFFICES ASSUME NEW t \in Taps, CardMoving(t)
                     PROVE  Cardinality((Available \cup new) \ taps[t].rows) <= arrived'
            BY DEF LateRowsArrived, CardMoving
        <2>1. CardOpen
            BY DEF CardMoving, CardOpen
        <2>2. /\ Cardinality(Available \ taps[t].rows) <= arrived
              /\ Cardinality(Available \ taps[t].rows) \in Nat
            BY Counted, <1>f DEF PayoutInv, LateRowsArrived
        <2>3. /\ Cardinality((Available \cup new) \ taps[t].rows) \in Nat
              /\ Cardinality((Available \cup new) \ taps[t].rows)
                   <= Cardinality(Available \ taps[t].rows) + n
            BY <1>5
        <2> HIDE DEF n
        <2> QED BY <1>1, <1>4, <2>1, <2>2, <2>3
    <1>10. MoreNeedRows'
        <2> SUFFICES ASSUME CardOpen, PendingPayouts' # {}
                     PROVE  Cardinality(PendingPayouts') + Cardinality(Available \cup new)
                              <= 1 + arrived'
            BY <1>6 DEF MoreNeedRows
        <2>1. F + A <= 1 + arrived
            BY DEF PayoutInv, MoreNeedRows
        <2>2. Cardinality(Available \cup new) \in Nat /\ Cardinality(Available \cup new) <= A + n
            <3>1. (Available \cup new) \ {} = Available \cup new /\ Available \ {} = Available
                OBVIOUS
            <3> QED BY <1>5, <3>1
        <2> HIDE DEF F, A, n
        <2> QED BY <1>1, <1>2, <1>3, <1>4, <2>1, <2>2
    <1> QED BY <1>4, <1>7, <1>8, <1>9, <1>10 DEF PayoutInv

\* Cashing out: nothing else becomes available, and an open request costs a row.
LEMMA MovesKeepCount ==
    ASSUME PayoutInv, IInv', NEW t \in Taps, TapMoves(t)
    PROVE  PayoutInv'
    <1> DEFINE rows == taps[t].rows
               card == taps[t].method = "card"
               F == Cardinality(PendingPayouts)
               A == Cardinality(Available)
    <1>f. ReferralAssumptions
        BY DEF PayoutInv, IInv
    <1>1. /\ taps[t].pc = "move" /\ made < MAX_PAYOUTS /\ arrived' = arrived
          /\ taps' = [taps EXCEPT ![t] = IdleTap]
        BY DEF TapMoves
    <1>2. /\ \A x \in Taps : taps'[x].pc # "idle" => x # t /\ taps'[x] = taps[x]
          /\ CardOpen' => CardOpen
        BY <1>1 DEF CardOpen, IdleTap, PayoutInv, IInv, TypeOK
    <1>3. CASE ~(rows \subseteq Available)
        <2>1. UNCHANGED <<rewards, payouts, arrived>>
            BY <1>3 DEF TapMoves, Available
        <2> QED BY <1>2, <2>1, TapKeepsCount
    <1>4. CASE rows \subseteq Available
        <2>1. PICK n \in 1..MAX_PAYOUTS : n = made + 1
            BY <1>1, <1>f DEF ReferralAssumptions, PayoutInv, IInv, TypeOK
        <2>2. /\ payouts' = [payouts EXCEPT ![n] =
                    [method |-> taps[t].method, amount |-> Cardinality(rows),
                     status |-> IF card THEN "pending" ELSE "completed"]]
              /\ rewards' = [u \in Invited |->
                    IF u \in rows THEN [status |-> IF card THEN "requested" ELSE "converted",
                                        payout |-> n]
                    ELSE rewards[u]]
            BY <1>4, <2>1 DEF TapMoves, Moves, Available
        <2>3. n \notin PendingPayouts
            BY <2>1 DEF PendingPayouts, PayoutInv, IInv, TypeOK, Rows, Numbered
        <2>4. PendingPayouts' = IF card THEN PendingPayouts \cup {n} ELSE PendingPayouts
            BY <2>2, <2>3 DEF PendingPayouts, PayoutInv, IInv, TypeOK
        <2>5. Available' = Available \ rows
            BY <2>2 DEF Available, With
        <2>6. /\ F \in Nat /\ A \in Nat /\ arrived \in Nat
              /\ \A S : /\ Cardinality(Available \ S) \in Nat
                        /\ Cardinality((Available \ rows) \ S) \in Nat
                        /\ Cardinality((Available \ rows) \ S) <= Cardinality(Available \ S)
            <3>1. \A S : (Available \ rows) \ S \subseteq Available \ S
                OBVIOUS
            <3>2. \A S : IsFiniteSet(Available \ S)
                BY Counted, <1>f
            <3>3. \A S : /\ IsFiniteSet((Available \ rows) \ S)
                         /\ Cardinality((Available \ rows) \ S) <= Cardinality(Available \ S)
                BY <3>1, <3>2, NoFewer
            <3> QED BY <3>3, Counted, <1>f, FS_CardinalityType DEF PayoutInv
        <2>7. /\ rows # {} /\ A >= 1
              /\ Cardinality(Available \ rows) \in Nat /\ Cardinality(Available \ rows) <= A - 1
            <3>1. rows # {}
                BY <1>1 DEF PayoutInv, MovesSomething
            <3>2. PICK r \in rows : r \in Available
                BY <1>4, <3>1
            <3>3. Cardinality(Available \ {r}) = A - 1 /\ IsFiniteSet(Available \ {r})
                BY <3>2, Counted, <1>f, FS_RemoveElement
            <3>4. Available \ rows \subseteq Available \ {r}
                BY <3>2
            <3>5. Cardinality(Available \ rows) <= Cardinality(Available \ {r})
                BY <3>3, <3>4, NoFewer
            <3>6. Cardinality(Available \ {r}) \in Nat /\ Cardinality(Available \ rows) \in Nat
                BY Counted, <1>f
            <3>7. A \in Nat
                BY Counted, <1>f
            <3> HIDE DEF A
            <3> QED BY <3>1, <3>3, <3>5, <3>6, <3>7
        <2>8. MovesSomething'
            BY <1>2 DEF PayoutInv, MovesSomething
        <2>9. LateRowsArrived'
            <3> SUFFICES ASSUME NEW x \in Taps, CardMoving(x)'
                         PROVE  Cardinality((Available \ rows) \ taps'[x].rows) <= arrived
                BY <1>1, <2>5 DEF LateRowsArrived
            <3>1. CardMoving(x) /\ taps'[x] = taps[x]
                BY <1>2 DEF CardMoving
            <3>2. Cardinality(Available \ taps[x].rows) <= arrived
                BY <3>1 DEF PayoutInv, LateRowsArrived
            <3>3. /\ Cardinality(Available \ taps[x].rows) \in Nat
                  /\ Cardinality((Available \ rows) \ taps[x].rows) \in Nat
                  /\ Cardinality((Available \ rows) \ taps[x].rows)
                       <= Cardinality(Available \ taps[x].rows)
                BY <2>6
            <3> QED BY <2>6, <3>1, <3>2, <3>3
        <2>10. CASE ~card
            <3>1. OnePayoutPerReward'
                BY <1>1, <2>4, <2>10 DEF PayoutInv, OnePayoutPerReward, PendingPayouts
            <3>2. MoreNeedRows'
                <4> SUFFICES ASSUME CardOpen, PendingPayouts # {}
                             PROVE  F + Cardinality(Available \ rows) <= 1 + arrived
                    BY <1>1, <1>2, <2>4, <2>5, <2>10 DEF MoreNeedRows
                <4>1. F + A <= 1 + arrived
                    BY DEF PayoutInv, MoreNeedRows
                <4> HIDE DEF F, A
                <4> QED BY <2>6, <2>7, <4>1
            <3> QED BY <1>1, <2>8, <2>9, <3>1, <3>2 DEF PayoutInv
        <2>11. CASE card
            <3>1. Cardinality(PendingPayouts') = F + 1
                BY <2>3, <2>4, <2>11, Counted, <1>f, FS_AddElement
            <3>2. CardOpen
                BY <1>1, <2>11 DEF CardOpen
            <3>3. F + 1 + Cardinality(Available \ rows) <= 1 + arrived
                <4>1. CASE PendingPayouts = {}
                    <5>1. F = 0
                        BY <4>1, FS_EmptySet
                    <5>2. Cardinality(Available \ rows) <= arrived
                        BY <1>1, <2>11 DEF PayoutInv, LateRowsArrived, CardMoving
                    <5> HIDE DEF F
                    <5> QED BY <2>6, <2>7, <5>1, <5>2
                <4>2. CASE PendingPayouts # {}
                    <5>1. F + A <= 1 + arrived
                        BY <3>2, <4>2 DEF PayoutInv, MoreNeedRows
                    <5> HIDE DEF F, A
                    <5> QED BY <2>6, <2>7, <5>1
                <4> QED BY <4>1, <4>2
            <3>4. F + 1 <= 1 + arrived
                <4> HIDE DEF F, A
                <4> QED BY <2>6, <2>7, <3>3
            <3>5. OnePayoutPerReward' /\ MoreNeedRows'
                <4>1. Cardinality(PendingPayouts)' = F + 1 /\ Cardinality(Available)'
                        = Cardinality(Available \ rows)
                    BY <2>5, <3>1
                <4> HIDE DEF F
                <4> QED BY <1>1, <3>3, <3>4, <4>1 DEF OnePayoutPerReward, PendingPayouts,
                           MoreNeedRows
            <3> QED BY <1>1, <2>8, <2>9, <3>5 DEF PayoutInv
        <2> QED BY <2>10, <2>11
    <1> QED BY <1>3, <1>4

LEMMA PayoutStep == PayoutInv /\ [Next]_vars => PayoutInv'
    <1> SUFFICES ASSUME PayoutInv, [Next]_vars PROVE PayoutInv'
        OBVIOUS
    <1>0. IInv'
        BY NextInv DEF PayoutInv
    <1>1. CASE UNCHANGED <<rewards, payouts, arrived, taps>>
        BY <1>0, <1>1, TapKeepsCount DEF CardOpen
    <1>2. ASSUME NEW b \in Buyers, BuyerRewards(b) PROVE PayoutInv'
        <2> DEFINE u == buyers[b].user
        <2>1. u \in Invited /\ UNCHANGED <<payouts, taps>>
            BY <1>2 DEF BuyerRewards, PayoutInv, IInv, BuyersKnown
        <2>2. CASE rewards[u] # NoReward
            BY <1>1, <1>2, <2>1, <2>2 DEF BuyerRewards
        <2>3. CASE rewards[u] = NoReward
            <3> DEFINE e == buyers[b].to = "earnings"
                       new == IF e THEN {u} ELSE {}
            <3>1. /\ rewards' = [rewards EXCEPT ![u] =
                        [status |-> IF e THEN "available" ELSE "completed", payout |-> 0]]
                  /\ arrived' = arrived + IF e /\ CardOpen THEN 1 ELSE 0
                BY <1>2, <2>3 DEF BuyerRewards, Rewards
            <3>2. Available' = Available \cup new
                BY <2>1, <2>3, <3>1 DEF Available, With, NoReward, PayoutInv, IInv, TypeOK
            <3>3. new \in SUBSET Invited /\ Cardinality(new) = IF e THEN 1 ELSE 0
                BY <2>1, FS_Singleton, FS_EmptySet
            <3>4. arrived' = arrived + IF CardOpen THEN Cardinality(new) ELSE 0
                BY <3>1, <3>3 DEF PayoutInv
            <3>5. PendingPayouts' \subseteq PendingPayouts
                BY <2>1 DEF PendingPayouts
            <3> HIDE DEF new
            <3> QED BY <1>0, <2>1, <3>2, <3>3, <3>4, <3>5, ArrivalsKeepCount
        <2> QED BY <2>2, <2>3
    <1>3. ASSUME NEW p \in 1..MAX_PAYOUTS, SettleWrites(p) PROVE PayoutInv'
        <2> DEFINE rows == RowsOf(p) \cap With("requested")
        <2>1. PICK paid \in BOOLEAN : Settled(p, paid, rows)
            BY <1>3 DEF SettleWrites
        <2>2. UNCHANGED taps
            BY <1>3 DEF SettleWrites
        <2> DEFINE new == IF paid THEN {} ELSE rows
        <2>3. \A u \in rows : u \in Invited /\ rewards[u].status = "requested"
            BY DEF With
        <2>4. Available' = Available \cup new
            BY <2>1, <2>3 DEF Settled, Available, With, PayoutInv, IInv, TypeOK
        <2>5. PendingPayouts' \subseteq PendingPayouts
            BY <2>1 DEF Settled, Outcome, PendingPayouts, PayoutInv, IInv, TypeOK
        <2>6. new \in SUBSET Invited
            BY <2>3
        <2>7. arrived' = arrived + IF CardOpen THEN Cardinality(new) ELSE 0
            BY <2>1, FS_EmptySet DEF Settled, PayoutInv
        <2> HIDE DEF new
        <2> QED BY <1>0, <2>2, <2>4, <2>5, <2>6, <2>7, ArrivalsKeepCount
    <1>10. ASSUME NEW p \in 1..MAX_PAYOUTS, SettleReads(p) \/ SettleFails(p) PROVE PayoutInv'
        BY <1>1, <1>10 DEF SettleReads, SettleFails
    <1>4. ASSUME NEW t \in Taps, TapChecks(t) PROVE PayoutInv'
        <2>1. PICK m \in {"card", "wallet"} :
                /\ m = "card" => \A p \in 1..MAX_PAYOUTS : payouts[p].status # "pending"
                /\ taps' = [taps EXCEPT ![t] = [pc |-> "read", method |-> m, rows |-> {}]]
            BY <1>4 DEF TapChecks
        <2>2. m = "card" => PendingPayouts = {}
            BY <2>1 DEF PendingPayouts
        <2>3. \A x \in Taps : \/ taps'[x] = taps[x]
                              \/ x = t /\ taps'[x].pc = "read" /\ taps'[x].method = m
            BY <2>1 DEF PayoutInv, IInv, TypeOK
        <2>4. CardOpen' => CardOpen \/ PendingPayouts = {}
            BY <2>2, <2>3 DEF CardOpen
        <2> QED BY <1>0, <1>4, <2>3, <2>4, TapKeepsCount DEF TapChecks
    <1>5. ASSUME NEW t \in Taps, TapReads(t) PROVE PayoutInv'
        <2>1. \/ taps' = [taps EXCEPT ![t] = IdleTap]
              \/ /\ taps' = [taps EXCEPT ![t] = [@ EXCEPT !.pc = "move", !.rows = Available]]
                 /\ Available # {}
            BY <1>5 DEF TapReads, Available
        <2>2. taps[t].pc = "read" /\ UNCHANGED <<rewards, payouts, arrived>>
            BY <1>5 DEF TapReads
        <2>3. \A x \in Taps : \/ taps'[x] = taps[x]
                              \/ taps'[x].pc = "idle"
                              \/ /\ taps'[x].rows = Available /\ Available # {}
                                 /\ taps[x].pc = "read" /\ taps'[x].method = taps[x].method
            <3>1. CASE taps' = [taps EXCEPT ![t] = IdleTap]
                BY <3>1 DEF PayoutInv, IInv, TypeOK, IdleTap
            <3>2. CASE /\ taps' = [taps EXCEPT ![t] = [@ EXCEPT !.pc = "move", !.rows = Available]]
                       /\ Available # {}
                <4>1. \A x \in Taps : x # t => taps'[x] = taps[x]
                    BY <3>2 DEF PayoutInv, IInv, TypeOK
                <4>2. /\ taps'[t] = [taps[t] EXCEPT !.pc = "move", !.rows = Available]
                      /\ taps[t] \in [pc : {"idle", "read", "move"}, method : {"card", "wallet"},
                                      rows : SUBSET Invited]
                    BY <3>2 DEF PayoutInv, IInv, TypeOK
                <4>3. taps'[t].rows = Available /\ taps'[t].method = taps[t].method
                    BY <4>2
                <4> QED BY <2>2, <3>2, <4>1, <4>3
            <3> QED BY <2>1, <3>1, <3>2
        <2>4. CardOpen' => CardOpen
            BY <2>3 DEF CardOpen
        <2> QED BY <1>0, <2>2, <2>3, <2>4, TapKeepsCount
    <1>6. ASSUME NEW t \in Taps, TapFails(t) PROVE PayoutInv'
        <2>1. \A x \in Taps : taps'[x] = taps[x] \/ taps'[x].pc = "idle"
            BY <1>6 DEF TapFails, PayoutInv, IInv, TypeOK, IdleTap
        <2>2. CardOpen' => CardOpen
            BY <2>1 DEF CardOpen
        <2> QED BY <1>0, <1>6, <2>1, <2>2, TapKeepsCount DEF TapFails
    <1>7. ASSUME NEW t \in Taps, TapMoves(t) PROVE PayoutInv'
        BY <1>0, <1>7, MovesKeepCount
    <1>8. ASSUME NEW b \in Buyers, BuyerChecks(b) \/ BuyerFails(b) PROVE PayoutInv'
        BY <1>1, <1>8 DEF BuyerChecks, BuyerFails
    <1>9. CASE SetDestination \/ UNCHANGED vars
        BY <1>1, <1>9 DEF SetDestination, vars
    <1> QED BY <1>2, <1>3, <1>4, <1>5, <1>6, <1>7, <1>8, <1>9, <1>10 DEF Next

\* However many taps and purchases run at once, with or without row locks, a second
\* request to cash out to a card is open only if that many rewards became available
\* while a request was under way: two taps alone make one.
THEOREM OnePayoutPerRewardAlways ==
    ASSUME ReferralAssumptions
    PROVE  Spec => []OnePayoutPerReward
    <1>1. Init => PayoutInv
        <2> SUFFICES ASSUME Init PROVE PayoutInv
            OBVIOUS
        <2>1. /\ IInv /\ arrived = 0
              /\ \A t \in Taps : taps[t].pc = "idle"
            BY InitInv DEF Init, IdleTap
        <2>2. PendingPayouts = {}
            BY DEF Init, PendingPayouts, NoPayout
        <2>3. OnePayoutPerReward
            BY <2>1, <2>2, FS_EmptySet DEF OnePayoutPerReward, PendingPayouts
        <2> QED BY <2>1, <2>2, <2>3
                DEF PayoutInv, MovesSomething, LateRowsArrived, MoreNeedRows, CardMoving
    <1>2. PayoutInv => OnePayoutPerReward
        BY DEF PayoutInv
    <1>3. PayoutInv /\ [Next]_vars => PayoutInv'
        BY PayoutStep
    <1> QED BY <1>1, <1>2, <1>3, PTL DEF Spec

-----------------------------------------------------------------------------
(***************************************************************************)
(* Gifts.  A gift is counted while it is still to be given: GiftsInv adds  *)
(* to the gifts made the taps that were let in for one, and says that no   *)
(* more than one of them found the row open, but for those excused.        *)
(***************************************************************************)
CONSTANTS Kinds, MAX_GIFTS, MAX_RESETS, MAX_FAULTS
VARIABLES verify, setting, user, shown, tap, given, resets, excused, faults

\* The taps and the locking of rows are those of Referral's declarations.
Gift == INSTANCE Gifts

\* Any number of taps, but finitely many.
FinitelyMany == IsFiniteSet(Taps)

Places == {"idle", "mark", "create", "record", "reset", "roll", "rolled", "menu", "prize",
           "write", "close", "edit", "charge"}
TapType == [pc : Places, on : {"none", "fresh", "stale"}, saw : Nat]

UserType == [tested : BOOLEAN, number : {"none", "asked", "known"}, played : BOOLEAN,
             amount : Nat]
ShownType == [picker : BOOLEAN, fresh : BOOLEAN, stale : BOOLEAN, charge : BOOLEAN]
GivenType == [trials : Nat, rows : Nat, draws : Nat, owed : Nat, charges : Nat]
ExcusedType == [trials : Nat, draws : Nat, charges : Nat]
USE DEF UserType, ShownType, GivenType, ExcusedType

GiftsTypeOK ==
    /\ locking \in BOOLEAN /\ resets \in Nat /\ faults \in Nat
    /\ user \in UserType
    /\ shown \in ShownType
    /\ tap \in [Taps -> TapType]
    /\ given \in GivenType
    /\ excused \in ExcusedType

\* How many taps are at one of these places.
Count(f, pcs) == Cardinality({t \in Taps : f[t].pc \in pcs})

\* Buttons are pressed by taps that are about to say so.
Presses ==
    \A t \in Taps : /\ tap[t].on # "none" => tap[t].pc \in {"prize", "write", "close"}
                    /\ tap[t].pc = "close" => tap[t].on # "none"

\* Trials given and to be given: one is open as long as the row is not marked.
TrialsCounted ==
    LET coming == given.trials + Count(tap, {"mark", "create"}) + Count(tap, {"reset"})
    IN  /\ coming <= 1 + resets + excused.trials
        /\ ~user.tested /\ Count(tap, {"mark"}) = 0 => coming <= resets + excused.trials

TrialsRecorded ==
    faults = 0 =>
        /\ given.rows + Count(tap, {"record"}) = given.trials
        /\ user.tested => given.trials > 0 \/ Count(tap, {"create"}) > 0

\* Draws made and to be made, by a tap or by buttons that nobody has pressed yet.
Unpressed == IF shown.fresh /\ \A t \in Taps : tap[t].on # "fresh" THEN 1 ELSE 0
DrawsCounted ==
    LET coming == given.draws + Count(tap, {"roll", "menu"}) + Unpressed
    IN  /\ coming <= 1 + excused.draws
        /\ ~user.played /\ Count(tap, Gift!Playing) = 0 => coming <= excused.draws

ChargesCounted ==
    LET coming == given.charges + Count(tap, {"edit", "charge"})
    IN  /\ coming <= 1 + excused.charges
        /\ shown.charge /\ Count(tap, {"edit"}) = 0 => coming <= excused.charges

MoneyCounted ==
    /\ user.amount <= given.owed
    /\ \A t \in Taps : tap[t].saw <= given.owed
    /\ locking => user.amount = given.owed /\ \A t \in Taps : tap[t].pc # "write"

GiftsInv ==
    /\ GiftsTypeOK /\ Presses /\ TrialsCounted /\ TrialsRecorded
    /\ DrawsCounted /\ ChargesCounted /\ MoneyCounted

-----------------------------------------------------------------------------
(* Counting taps.                                                          *)

In(pc, pcs) == IF pc \in pcs THEN 1 ELSE 0

LEMMA CountedTaps ==
    ASSUME FinitelyMany, NEW f, NEW pcs
    PROVE  /\ Count(f, pcs) \in Nat
           /\ \A t \in Taps : f[t].pc \in pcs => Count(f, pcs) > 0
    <1> DEFINE S == {t \in Taps : f[t].pc \in pcs}
    <1>1. IsFiniteSet(S)
        BY FS_Subset DEF FinitelyMany
    <1>2. Cardinality(S) \in Nat
        BY <1>1, FS_CardinalityType
    <1>3. ASSUME NEW t \in Taps, f[t].pc \in pcs
          PROVE  Cardinality(S) > 0
        <2>1. S # {}
            BY <1>3
        <2> QED BY <1>1, <1>2, <2>1, FS_EmptySet
    <1> QED BY <1>2, <1>3 DEF Count

\* A tap that goes from one place to another counts there instead of here.
Follows(f, g, p, q, pcs) == Count(g, pcs) = (Count(f, pcs) - In(p, pcs)) + In(q, pcs)

LEMMA CountMoves ==
    ASSUME FinitelyMany, NEW f, NEW g, NEW t \in Taps, NEW pcs,
           \A x \in Taps : x # t => g[x] = f[x]
    PROVE  Follows(f, g, f[t].pc, g[t].pc, pcs)
    <1> DEFINE F == {x \in Taps : f[x].pc \in pcs}
               G == {x \in Taps : g[x].pc \in pcs}
               Rest == F \ {t}
    <1>1. IsFiniteSet(F) /\ IsFiniteSet(G) /\ IsFiniteSet(Rest)
        BY FS_Subset DEF FinitelyMany
    <1>2. Cardinality(Rest) \in Nat
        BY <1>1, FS_CardinalityType
    <1>3. Cardinality(F) = Cardinality(Rest) + In(f[t].pc, pcs)
        <2>1. CASE f[t].pc \in pcs
            <3>1. F = Rest \cup {t} /\ t \notin Rest
                BY <2>1
            <3>2. Cardinality(F) = Cardinality(Rest) + 1
                BY <1>1, <3>1, FS_AddElement
            <3> QED BY <2>1, <3>2 DEF In
        <2>2. CASE f[t].pc \notin pcs
            <3>1. F = Rest
                BY <2>2
            <3>2. Cardinality(F) = Cardinality(Rest)
                BY <3>1
            <3> HIDE DEF F, Rest
            <3> QED BY <1>2, <2>2, <3>2 DEF In
        <2> QED BY <2>1, <2>2
    <1>4. Cardinality(G) = Cardinality(Rest) + In(g[t].pc, pcs)
        <2>1. CASE g[t].pc \in pcs
            <3>1. G = Rest \cup {t} /\ t \notin Rest
                BY <2>1
            <3>2. Cardinality(G) = Cardinality(Rest) + 1
                BY <1>1, <3>1, FS_AddElement
            <3> QED BY <2>1, <3>2 DEF In
        <2>2. CASE g[t].pc \notin pcs
            <3>1. G = Rest
                BY <2>2
            <3> QED BY <1>2, <2>2, <3>1 DEF In
        <2> QED BY <2>1, <2>2
    <1>5. In(f[t].pc, pcs) \in {0, 1} /\ In(g[t].pc, pcs) \in {0, 1}
        BY DEF In
    <1>6. ASSUME NEW c \in Nat, NEW i \in {0, 1}, NEW j \in {0, 1}
          PROVE  c + j = ((c + i) - i) + j
        BY <1>6
    <1> HIDE DEF F, G, Rest
    <1>7. Cardinality(G) = (Cardinality(F) - In(f[t].pc, pcs)) + In(g[t].pc, pcs)
        BY <1>2, <1>3, <1>4, <1>5, <1>6
    <1> QED BY <1>7 DEF Follows, Count, F, G

\* The places the counts are about.
Recount(p, q) ==
    /\ Count(tap', {"mark", "create"}) =
           (Count(tap, {"mark", "create"}) - In(p, {"mark", "create"})) + In(q, {"mark", "create"})
    /\ Count(tap', {"reset"}) = (Count(tap, {"reset"}) - In(p, {"reset"})) + In(q, {"reset"})
    /\ Count(tap', {"mark"}) = (Count(tap, {"mark"}) - In(p, {"mark"})) + In(q, {"mark"})
    /\ Count(tap', {"create"}) = (Count(tap, {"create"}) - In(p, {"create"})) + In(q, {"create"})
    /\ Count(tap', {"record"}) = (Count(tap, {"record"}) - In(p, {"record"})) + In(q, {"record"})
    /\ Count(tap', {"roll", "menu"}) =
           (Count(tap, {"roll", "menu"}) - In(p, {"roll", "menu"})) + In(q, {"roll", "menu"})
    /\ Count(tap', Gift!Playing) = (Count(tap, Gift!Playing) - In(p, Gift!Playing)) + In(q, Gift!Playing)
    /\ Count(tap', {"edit", "charge"}) =
           (Count(tap, {"edit", "charge"}) - In(p, {"edit", "charge"})) + In(q, {"edit", "charge"})
    /\ Count(tap', {"edit"}) = (Count(tap, {"edit"}) - In(p, {"edit"})) + In(q, {"edit"})

Counts ==
    /\ Count(tap, {"mark", "create"}) \in Nat /\ Count(tap, {"reset"}) \in Nat
    /\ Count(tap, {"mark"}) \in Nat /\ Count(tap, {"create"}) \in Nat
    /\ Count(tap, {"record"}) \in Nat /\ Count(tap, {"roll", "menu"}) \in Nat
    /\ Count(tap, Gift!Playing) \in Nat /\ Count(tap, {"edit", "charge"}) \in Nat
    /\ Count(tap, {"edit"}) \in Nat

LEMMA CountsTyped ==
    ASSUME FinitelyMany
    PROVE  Counts /\ Counts'
    BY CountedTaps DEF Counts

\* A tap is now like new; the others are where they were.
Steps(t, new) ==
    /\ tap' \in [Taps -> TapType] /\ tap'[t] = new
    /\ \A x \in Taps : x # t => tap'[x] = tap[x]
    /\ Recount(tap[t].pc, new.pc)

LEMMA Stepped ==
    ASSUME FinitelyMany, GiftsTypeOK, NEW t \in Taps, NEW new \in TapType,
           tap' = [tap EXCEPT ![t] = new]
    PROVE  Steps(t, new)
    <1>1. /\ tap' \in [Taps -> TapType] /\ tap'[t] = new
          /\ \A x \in Taps : x # t => tap'[x] = tap[x]
        BY DEF GiftsTypeOK
    <1>2. \A pcs : Follows(tap, tap', tap[t].pc, new.pc, pcs)
        <2>1. \A pcs : Follows(tap, tap', tap[t].pc, tap'[t].pc, pcs)
            BY <1>1, CountMoves
        <2> QED BY <1>1, <2>1
    <1>3. Recount(tap[t].pc, new.pc)
        BY <1>2 DEF Recount, Follows
    <1> QED BY <1>1, <1>3 DEF Steps

LEMMA IdleTyped == Gift!Idle \in TapType /\ Gift!Idle.pc = "idle" /\ Gift!Idle.on = "none" /\ Gift!Idle.saw = 0
    BY DEF Gift!Idle, TapType, Places

LEMMA Went ==
    ASSUME FinitelyMany, GiftsTypeOK, NEW t \in Taps, NEW pc \in Places, Gift!Goes(t, pc)
    PROVE  \E new \in TapType : /\ Steps(t, new) /\ new.pc = pc /\ new.on = tap[t].on
                                /\ new.saw = tap[t].saw
    <1> DEFINE new == [tap[t] EXCEPT !.pc = pc]
    <1>1. tap[t] \in TapType
        BY DEF GiftsTypeOK
    <1>2. new \in TapType /\ new.pc = pc /\ new.on = tap[t].on /\ new.saw = tap[t].saw
        BY <1>1 DEF TapType
    <1>3. tap' = [tap EXCEPT ![t] = new]
        BY DEF Gift!Goes, GiftsTypeOK
    <1> HIDE DEF new
    <1>4. Steps(t, new)
        BY <1>2, <1>3, Stepped
    <1> QED BY <1>2, <1>4

LEMMA Ended ==
    ASSUME FinitelyMany, GiftsTypeOK, NEW t \in Taps, Gift!Ends(t)
    PROVE  \E new \in TapType : /\ Steps(t, new) /\ new.pc = "idle" /\ new.on = "none"
                                /\ new.saw = 0
    <1>1. Steps(t, Gift!Idle)
        BY IdleTyped, Stepped DEF Gift!Ends
    <1> QED BY <1>1, IdleTyped

\* Nobody else is at one of these places.
LEMMA NoOthers ==
    ASSUME NEW t \in Taps, NEW pcs, tap[t].pc \notin pcs, ~Gift!Others(t, pcs)
    PROVE  Count(tap, pcs) = 0
    <1>1. {x \in Taps : tap[x].pc \in pcs} = {}
        BY DEF Gift!Others
    <1> QED BY <1>1, FS_EmptySet DEF Count

LEMMA SomeOther ==
    ASSUME FinitelyMany, NEW t \in Taps, NEW pcs, Gift!Others(t, pcs)
    PROVE  Count(tap, pcs) > 0
    BY CountedTaps DEF Gift!Others

LEMMA SamePlaces ==
    ASSUME NEW f, NEW g, \A x \in Taps : g[x].pc = f[x].pc, NEW pcs
    PROVE  Count(g, pcs) = Count(f, pcs)
    <1>1. {x \in Taps : g[x].pc \in pcs} = {x \in Taps : f[x].pc \in pcs}
        OBVIOUS
    <1> QED BY <1>1 DEF Count

LEMMA Excused ==
    ASSUME GiftsTypeOK, NEW what \in {"trials", "draws", "charges"}, NEW late, Gift!Excuse(what, late)
    PROVE  /\ excused' \in ExcusedType
           /\ excused'.trials = excused.trials + IF what = "trials" /\ late THEN 1 ELSE 0
           /\ excused'.draws = excused.draws + IF what = "draws" /\ late THEN 1 ELSE 0
           /\ excused'.charges = excused.charges + IF what = "charges" /\ late THEN 1 ELSE 0
    <1> DEFINE n == IF late THEN 1 ELSE 0
    <1>1. n \in Nat /\ excused \in ExcusedType
        BY DEF GiftsTypeOK
    <1>2. CASE what = "trials"
        <2>1. excused' = [excused EXCEPT !.trials = @ + n]
            BY <1>2 DEF Gift!Excuse
        <2> HIDE DEF n
        <2>2. /\ excused' \in ExcusedType
              /\ excused'.trials = excused.trials + n
              /\ excused'.draws = excused.draws /\ excused'.charges = excused.charges
            BY <1>1, <2>1
        <2> QED BY <1>1, <1>2, <2>2 DEF n
    <1>3. CASE what = "draws"
        <2>1. excused' = [excused EXCEPT !.draws = @ + n]
            BY <1>3 DEF Gift!Excuse
        <2> HIDE DEF n
        <2>2. /\ excused' \in ExcusedType
              /\ excused'.draws = excused.draws + n
              /\ excused'.trials = excused.trials /\ excused'.charges = excused.charges
            BY <1>1, <2>1
        <2> QED BY <1>1, <1>3, <2>2 DEF n
    <1>4. CASE what = "charges"
        <2>1. excused' = [excused EXCEPT !.charges = @ + n]
            BY <1>4 DEF Gift!Excuse
        <2> HIDE DEF n
        <2>2. /\ excused' \in ExcusedType
              /\ excused'.charges = excused.charges + n
              /\ excused'.trials = excused.trials /\ excused'.draws = excused.draws
            BY <1>1, <2>1
        <2> QED BY <1>1, <1>4, <2>2 DEF n
    <1> QED BY <1>2, <1>3, <1>4

LEMMA Failed ==
    ASSUME GiftsTypeOK, NEW failed \in BOOLEAN, Gift!Fails(failed)
    PROVE  faults' \in Nat /\ (faults' = 0 => faults = 0) /\ (failed => faults' # 0)
    <1>1. faults \in Nat
        BY DEF GiftsTypeOK
    <1>2. CASE failed
        BY <1>1, <1>2 DEF Gift!Fails
    <1>3. CASE ~failed
        BY <1>1, <1>3 DEF Gift!Fails
    <1> QED BY <1>2, <1>3

-----------------------------------------------------------------------------
(* What a tap that is about something else leaves alone.                   *)

TrialPlaces == {"mark", "create", "record", "reset"}
NotTrials(t, new) ==
    /\ tap[t].pc \notin TrialPlaces /\ new.pc \notin TrialPlaces
    /\ resets' = resets /\ user'.tested = user.tested /\ (faults' = 0 => faults = 0)
    /\ given'.trials = given.trials /\ given'.rows = given.rows
    /\ excused'.trials = excused.trials

LEMMA TrialsUntouched ==
    ASSUME FinitelyMany, GiftsInv, NEW t \in Taps, NEW new \in TapType, Steps(t, new),
           NotTrials(t, new)
    PROVE  TrialsCounted' /\ TrialsRecorded'
    <1>1. /\ Count(tap', {"mark", "create"}) = Count(tap, {"mark", "create"})
          /\ Count(tap', {"reset"}) = Count(tap, {"reset"})
          /\ Count(tap', {"mark"}) = Count(tap, {"mark"})
          /\ Count(tap', {"create"}) = Count(tap, {"create"})
          /\ Count(tap', {"record"}) = Count(tap, {"record"})
        BY CountsTyped DEF Steps, Recount, In, NotTrials, TrialPlaces, Counts
    <1> QED BY <1>1 DEF NotTrials, GiftsInv, TrialsCounted, TrialsRecorded

NotGames(t, new) ==
    /\ tap[t].pc \notin Gift!Playing /\ new.pc \notin Gift!Playing
    /\ new.on = "fresh" <=> tap[t].on = "fresh"
    /\ user'.played = user.played /\ shown'.fresh = shown.fresh
    /\ given'.draws = given.draws /\ excused'.draws = excused.draws

LEMMA SameButtons ==
    ASSUME NEW t \in Taps, NEW new \in TapType, Steps(t, new),
           new.on = "fresh" <=> tap[t].on = "fresh", shown'.fresh = shown.fresh
    PROVE  Unpressed' = Unpressed
    <1>1. (\A x \in Taps : tap'[x].on # "fresh") <=> (\A x \in Taps : tap[x].on # "fresh")
        BY DEF Steps
    <1> QED BY <1>1 DEF Unpressed

LEMMA DrawsUntouched ==
    ASSUME FinitelyMany, GiftsInv, NEW t \in Taps, NEW new \in TapType, Steps(t, new),
           NotGames(t, new)
    PROVE  DrawsCounted'
    <1>1. /\ Count(tap', {"roll", "menu"}) = Count(tap, {"roll", "menu"})
          /\ Count(tap', Gift!Playing) = Count(tap, Gift!Playing)
        BY CountsTyped DEF Steps, Recount, In, NotGames, Gift!Playing, Counts
    <1>2. Unpressed' = Unpressed
        BY SameButtons DEF NotGames
    <1> QED BY <1>1, <1>2 DEF NotGames, GiftsInv, DrawsCounted

NotCharges(t, new) ==
    /\ tap[t].pc \notin {"edit", "charge"} /\ new.pc \notin {"edit", "charge"}
    /\ shown'.charge = shown.charge
    /\ given'.charges = given.charges /\ excused'.charges = excused.charges

LEMMA ChargesUntouched ==
    ASSUME FinitelyMany, GiftsInv, NEW t \in Taps, NEW new \in TapType, Steps(t, new),
           NotCharges(t, new)
    PROVE  ChargesCounted'
    <1>1. /\ Count(tap', {"edit", "charge"}) = Count(tap, {"edit", "charge"})
          /\ Count(tap', {"edit"}) = Count(tap, {"edit"})
        BY CountsTyped DEF Steps, Recount, In, NotCharges, Counts
    <1> QED BY <1>1 DEF NotCharges, GiftsInv, ChargesCounted

NotMoney(t, new) ==
    /\ new.pc # "write" /\ new.saw \in {0, tap[t].saw}
    /\ locking' = locking /\ user'.amount = user.amount /\ given'.owed = given.owed

LEMMA MoneyUntouched ==
    ASSUME FinitelyMany, GiftsInv, NEW t \in Taps, NEW new \in TapType, Steps(t, new),
           NotMoney(t, new)
    PROVE  MoneyCounted'
    <1>1. new.saw <= given.owed
        BY DEF NotMoney, GiftsInv, MoneyCounted, GiftsTypeOK
    <1>2. \A x \in Taps : tap'[x].saw <= given.owed
        BY <1>1 DEF Steps, GiftsInv, MoneyCounted
    <1>3. locking => \A x \in Taps : tap'[x].pc # "write"
        BY DEF Steps, NotMoney, GiftsInv, MoneyCounted
    <1> QED BY <1>2, <1>3 DEF NotMoney, GiftsInv, MoneyCounted

\* The rest of the type, and of Presses.
LEMMA Typed ==
    ASSUME GiftsInv, NEW t \in Taps, NEW new \in TapType, Steps(t, new),
           new.on # "none" => new.pc \in {"prize", "write", "close"},
           new.pc = "close" => new.on # "none",
           locking' = locking, resets' \in Nat, faults' \in Nat,
           user' \in UserType,
           shown' \in ShownType,
           given' \in GivenType,
           excused' \in ExcusedType
    PROVE  GiftsTypeOK' /\ Presses'
    BY DEF GiftsInv, GiftsTypeOK, Presses, Steps

\* A tap that is at one of these places pressed no game buttons.
LEMMA PressedNothing ==
    ASSUME GiftsInv, NEW t \in Taps, tap[t].pc \notin {"prize", "write", "close"}
    PROVE  tap[t].on = "none"
    BY DEF GiftsInv, Presses

-----------------------------------------------------------------------------
(* Trials.                                                                 *)

\* A tap that was let in by a row that is not marked.
LEMMA TrialBegins ==
    ASSUME FinitelyMany, GiftsInv, NEW t \in Taps, Gift!At(t, "idle"), ~user.tested,
           Gift!Goes(t, "mark"), Gift!Excuse("trials", Gift!Others(t, {"mark"})),
           shown' \in ShownType,
           shown'.fresh = shown.fresh, shown'.charge = shown.charge,
           UNCHANGED <<locking, user, given, resets, faults>>
    PROVE  GiftsInv'
    <1> DEFINE late == IF Gift!Others(t, {"mark"}) THEN 1 ELSE 0
    <1>1. PICK new \in TapType : /\ Steps(t, new) /\ new.pc = "mark" /\ new.on = tap[t].on
                                 /\ new.saw = tap[t].saw
        BY Went DEF GiftsInv, Places
    <1>2. tap[t].pc = "idle" /\ tap[t].on = "none"
        BY PressedNothing DEF Gift!At
    <1>3. /\ excused' \in ExcusedType
          /\ excused'.trials = excused.trials + late
          /\ excused'.draws = excused.draws /\ excused'.charges = excused.charges
        <2>1. "trials" \in {"trials", "draws", "charges"}
            OBVIOUS
        <2>2. /\ excused' \in ExcusedType
              /\ excused'.trials = excused.trials + IF "trials" = "trials" /\ Gift!Others(t, {"mark"}) THEN 1 ELSE 0
              /\ excused'.draws = excused.draws + IF "trials" = "draws" /\ Gift!Others(t, {"mark"}) THEN 1 ELSE 0
              /\ excused'.charges = excused.charges + IF "trials" = "charges" /\ Gift!Others(t, {"mark"}) THEN 1 ELSE 0
            BY <2>1, Excused DEF GiftsInv
        <2> QED BY <2>2 DEF GiftsInv, GiftsTypeOK
    <1>4. GiftsTypeOK' /\ Presses'
        BY <1>1, <1>2, <1>3, Typed DEF GiftsInv, GiftsTypeOK
    <1>5. TrialsCounted'
        <2>1. /\ Count(tap', {"mark", "create"}) = Count(tap, {"mark", "create"}) + 1
              /\ Count(tap', {"reset"}) = Count(tap, {"reset"})
              /\ Count(tap', {"mark"}) = Count(tap, {"mark"}) + 1
            BY <1>1, <1>2, CountsTyped DEF Steps, Recount, In, Counts
        <2>2. late = 0 => Count(tap, {"mark"}) = 0
            BY <1>2, NoOthers
        <2>3. late \in {0, 1}
            OBVIOUS
        <2> HIDE DEF late
        <2> QED BY <1>3, <2>1, <2>2, <2>3, CountsTyped DEF GiftsInv, TrialsCounted, Counts,
                   GiftsTypeOK
    <1>6. TrialsRecorded'
        <2>1. /\ Count(tap', {"create"}) = Count(tap, {"create"})
              /\ Count(tap', {"record"}) = Count(tap, {"record"})
            BY <1>1, <1>2, CountsTyped DEF Steps, Recount, In, Counts
        <2> QED BY <2>1 DEF GiftsInv, TrialsRecorded
    <1>7. DrawsCounted'
        <2>1. NotGames(t, new)
            BY <1>1, <1>2, <1>3 DEF NotGames, Gift!Playing
        <2> QED BY <1>1, <2>1, DrawsUntouched
    <1>8. ChargesCounted'
        <2>1. NotCharges(t, new)
            BY <1>1, <1>2, <1>3 DEF NotCharges
        <2> QED BY <1>1, <2>1, ChargesUntouched
    <1>9. MoneyCounted'
        <2>1. NotMoney(t, new)
            BY <1>1 DEF NotMoney
        <2> QED BY <1>1, <2>1, MoneyUntouched
    <1> QED BY <1>4, <1>5, <1>6, <1>7, <1>8, <1>9 DEF GiftsInv

\* Nobody moves, and of the row and the messages only the number and the picker change.
LEMMA Elsewhere ==
    ASSUME FinitelyMany, GiftsInv,
           user' \in UserType,
           user'.tested = user.tested, user'.played = user.played, user'.amount = user.amount,
           shown' \in ShownType,
           shown'.fresh = shown.fresh, shown'.charge = shown.charge,
           UNCHANGED <<locking, tap, given, resets, excused, faults>>
    PROVE  GiftsInv'
    <1> USE DEF GiftsInv
    <1>1. GiftsTypeOK' /\ Presses'
        BY DEF GiftsTypeOK, Presses
    <1>2. TrialsCounted' /\ TrialsRecorded'
        BY DEF TrialsCounted, TrialsRecorded
    <1>3. Unpressed' = Unpressed
        BY DEF Unpressed
    <1>4. DrawsCounted'
        BY <1>3 DEF DrawsCounted
    <1>5. ChargesCounted' /\ MoneyCounted'
        BY DEF ChargesCounted, MoneyCounted
    <1> QED BY <1>1, <1>2, <1>4, <1>5

LEMMA FreeTrialStep ==
    ASSUME FinitelyMany, GiftsInv, NEW t \in Taps, Gift!FreeTrial(t)
    PROVE  GiftsInv'
    <1>1. Gift!At(t, "idle") /\ UNCHANGED <<locking, given, resets, faults>>
        BY DEF Gift!FreeTrial, Gift!Config
    <1>2. CASE verify /\ user.number # "known"
        <2>1. user' = [user EXCEPT !.number = "asked"] /\ UNCHANGED <<shown, tap, excused>>
            BY <1>2 DEF Gift!FreeTrial
        <2> QED BY <1>1, <2>1, Elsewhere DEF GiftsInv, GiftsTypeOK
    <1>3. CASE ~(verify /\ user.number # "known") /\ setting.panels > 1
        <2>1. shown' = [shown EXCEPT !.picker = TRUE] /\ UNCHANGED <<user, tap, excused>>
            BY <1>3 DEF Gift!FreeTrial
        <2> QED BY <1>1, <2>1, Elsewhere DEF GiftsInv, GiftsTypeOK
    <1>4. CASE ~(verify /\ user.number # "known") /\ ~(setting.panels > 1)
        <2>1. /\ ~user.tested /\ Gift!Goes(t, "mark") /\ Gift!Excuse("trials", Gift!Others(t, {"mark"}))
              /\ UNCHANGED <<user, shown>>
            BY <1>4 DEF Gift!FreeTrial
        <2> QED BY <1>1, <2>1, TrialBegins DEF GiftsInv, GiftsTypeOK
    <1> QED BY <1>2, <1>3, <1>4

LEMMA PickPanelStep ==
    ASSUME FinitelyMany, GiftsInv, NEW t \in Taps, Gift!PickPanel(t)
    PROVE  GiftsInv'
    <1>1. /\ Gift!At(t, "idle") /\ ~user.tested /\ Gift!Goes(t, "mark")
          /\ Gift!Excuse("trials", Gift!Others(t, {"mark"}))
          /\ \E kept \in BOOLEAN : shown' = [shown EXCEPT !.picker = kept]
          /\ UNCHANGED <<locking, user, given, resets, faults>>
        BY DEF Gift!PickPanel, Gift!Config
    <1>2. /\ shown' \in ShownType
          /\ shown'.fresh = shown.fresh /\ shown'.charge = shown.charge
        BY <1>1 DEF GiftsInv, GiftsTypeOK
    <1> QED BY <1>1, <1>2, TrialBegins

LEMMA VerifyPhoneStep ==
    ASSUME FinitelyMany, GiftsInv, Gift!VerifyPhone
    PROVE  GiftsInv'
    BY Elsewhere DEF Gift!VerifyPhone, Gift!Config, GiftsInv, GiftsTypeOK

LEMMA SwitchTrialsStep ==
    ASSUME FinitelyMany, GiftsInv, Gift!SwitchTrials
    PROVE  GiftsInv'
    BY Elsewhere DEF Gift!SwitchTrials, Gift!Config, GiftsInv, GiftsTypeOK

LEMMA MarkTestedStep ==
    ASSUME FinitelyMany, GiftsInv, NEW t \in Taps, Gift!MarkTested(t)
    PROVE  GiftsInv'
    <1>1. /\ tap[t].pc = "mark" /\ Gift!Goes(t, "create") /\ user' = [user EXCEPT !.tested = TRUE]
          /\ UNCHANGED <<locking, shown, given, resets, excused, faults>>
        BY DEF Gift!MarkTested, Gift!At, Gift!Config
    <1>2. PICK new \in TapType : /\ Steps(t, new)
                                  /\ new.pc = "create" /\ new.on = tap[t].on /\ new.saw = tap[t].saw
        BY <1>1, Went DEF GiftsInv, Places
    <1>3. tap[t].on = "none"
        BY <1>1, PressedNothing
    <1>4. /\ user' \in UserType
          /\ user'.tested = TRUE
          /\ user'.number = user.number
          /\ user'.played = user.played
          /\ user'.amount = user.amount
        BY <1>1 DEF GiftsInv, GiftsTypeOK
    <1>5. GiftsTypeOK' /\ Presses'
        BY <1>1, <1>2, <1>3, <1>4, Typed DEF GiftsInv, GiftsTypeOK
    <1>6. TrialsCounted' /\ TrialsRecorded'
        <2>1. /\ Count(tap', {"mark", "create"}) = Count(tap, {"mark", "create"})
              /\ Count(tap', {"reset"}) = Count(tap, {"reset"})
              /\ Count(tap, {"mark"}) = Count(tap', {"mark"}) + 1
              /\ Count(tap', {"create"}) = Count(tap, {"create"}) + 1
              /\ Count(tap', {"record"}) = Count(tap, {"record"})
            BY <1>1, <1>2, CountsTyped DEF Steps, Recount, In, Counts
        <2>2. Counts /\ Counts'
            BY CountsTyped
        <2> QED BY <1>1, <1>4, <2>1, <2>2 DEF GiftsInv, GiftsTypeOK, TrialsCounted, TrialsRecorded,
                   Counts
    <1>7. DrawsCounted'
        <2>1. NotGames(t, new)
            BY <1>1, <1>2, <1>3, <1>4 DEF NotGames, Gift!Playing
        <2> QED BY <1>2, <2>1, DrawsUntouched
    <1>8. ChargesCounted'
        <2>1. NotCharges(t, new)
            BY <1>1, <1>2, <1>3, <1>4 DEF NotCharges
        <2> QED BY <1>2, <2>1, ChargesUntouched
    <1>9. MoneyCounted'
        <2>1. NotMoney(t, new)
            BY <1>1, <1>2, <1>3, <1>4 DEF NotMoney
        <2> QED BY <1>2, <2>1, MoneyUntouched
    <1> QED BY <1>5, <1>6, <1>7, <1>8, <1>9 DEF GiftsInv

LEMMA CreateTrialStep ==
    ASSUME FinitelyMany, GiftsInv, NEW t \in Taps, Gift!CreateTrial(t)
    PROVE  GiftsInv'
    <1>1. /\ tap[t].pc = "create" /\ Gift!Goes(t, "record") /\ given' = [given EXCEPT !.trials = @ + 1]
          /\ UNCHANGED <<locking, user, shown, resets, excused, faults>>
        BY DEF Gift!CreateTrial, Gift!At, Gift!Config
    <1>2. PICK new \in TapType : /\ Steps(t, new)
                                  /\ new.pc = "record" /\ new.on = tap[t].on /\ new.saw = tap[t].saw
        BY <1>1, Went DEF GiftsInv, Places
    <1>3. tap[t].on = "none"
        BY <1>1, PressedNothing
    <1>4. /\ given' \in GivenType
          /\ given'.trials = given.trials + 1
          /\ given'.rows = given.rows
          /\ given'.draws = given.draws
          /\ given'.owed = given.owed
          /\ given'.charges = given.charges
        BY <1>1 DEF GiftsInv, GiftsTypeOK
    <1>5. GiftsTypeOK' /\ Presses'
        BY <1>1, <1>2, <1>3, <1>4, Typed DEF GiftsInv, GiftsTypeOK
    <1>6. TrialsCounted' /\ TrialsRecorded'
        <2>1. /\ Count(tap, {"mark", "create"}) = Count(tap', {"mark", "create"}) + 1
              /\ Count(tap', {"reset"}) = Count(tap, {"reset"})
              /\ Count(tap', {"mark"}) = Count(tap, {"mark"})
              /\ Count(tap, {"create"}) = Count(tap', {"create"}) + 1
              /\ Count(tap', {"record"}) = Count(tap, {"record"}) + 1
            BY <1>1, <1>2, CountsTyped DEF Steps, Recount, In, Counts
        <2>2. Counts /\ Counts'
            BY CountsTyped
        <2> QED BY <1>1, <1>4, <2>1, <2>2 DEF GiftsInv, GiftsTypeOK, TrialsCounted, TrialsRecorded,
                   Counts
    <1>7. DrawsCounted'
        <2>1. NotGames(t, new)
            BY <1>1, <1>2, <1>3, <1>4 DEF NotGames, Gift!Playing
        <2> QED BY <1>2, <2>1, DrawsUntouched
    <1>8. ChargesCounted'
        <2>1. NotCharges(t, new)
            BY <1>1, <1>2, <1>3, <1>4 DEF NotCharges
        <2> QED BY <1>2, <2>1, ChargesUntouched
    <1>9. MoneyCounted'
        <2>1. NotMoney(t, new)
            BY <1>1, <1>2, <1>3, <1>4 DEF NotMoney
        <2> QED BY <1>2, <2>1, MoneyUntouched
    <1> QED BY <1>5, <1>6, <1>7, <1>8, <1>9 DEF GiftsInv

LEMMA RecordTrialStep ==
    ASSUME FinitelyMany, GiftsInv, NEW t \in Taps, Gift!RecordTrial(t)
    PROVE  GiftsInv'
    <1>1. /\ tap[t].pc = "record" /\ Gift!Ends(t) /\ given' = [given EXCEPT !.rows = @ + 1]
          /\ UNCHANGED <<locking, user, shown, resets, excused, faults>>
        BY DEF Gift!RecordTrial, Gift!At, Gift!Config
    <1>2. PICK new \in TapType : /\ Steps(t, new)
                                  /\ new.pc = "idle" /\ new.on = "none" /\ new.saw = 0
        BY <1>1, Ended DEF GiftsInv
    <1>3. tap[t].on = "none"
        BY <1>1, PressedNothing
    <1>4. /\ given' \in GivenType
          /\ given'.trials = given.trials
          /\ given'.rows = given.rows + 1
          /\ given'.draws = given.draws
          /\ given'.owed = given.owed
          /\ given'.charges = given.charges
        BY <1>1 DEF GiftsInv, GiftsTypeOK
    <1>5. GiftsTypeOK' /\ Presses'
        BY <1>1, <1>2, <1>3, <1>4, Typed DEF GiftsInv, GiftsTypeOK
    <1>6. TrialsCounted' /\ TrialsRecorded'
        <2>1. /\ Count(tap', {"mark", "create"}) = Count(tap, {"mark", "create"})
              /\ Count(tap', {"reset"}) = Count(tap, {"reset"})
              /\ Count(tap', {"mark"}) = Count(tap, {"mark"})
              /\ Count(tap', {"create"}) = Count(tap, {"create"})
              /\ Count(tap, {"record"}) = Count(tap', {"record"}) + 1
            BY <1>1, <1>2, CountsTyped DEF Steps, Recount, In, Counts
        <2>2. Counts /\ Counts'
            BY CountsTyped
        <2> QED BY <1>1, <1>4, <2>1, <2>2 DEF GiftsInv, GiftsTypeOK, TrialsCounted, TrialsRecorded,
                   Counts
    <1>7. DrawsCounted'
        <2>1. NotGames(t, new)
            BY <1>1, <1>2, <1>3, <1>4 DEF NotGames, Gift!Playing
        <2> QED BY <1>2, <2>1, DrawsUntouched
    <1>8. ChargesCounted'
        <2>1. NotCharges(t, new)
            BY <1>1, <1>2, <1>3, <1>4 DEF NotCharges
        <2> QED BY <1>2, <2>1, ChargesUntouched
    <1>9. MoneyCounted'
        <2>1. NotMoney(t, new)
            BY <1>1, <1>2, <1>3, <1>4 DEF NotMoney
        <2> QED BY <1>2, <2>1, MoneyUntouched
    <1> QED BY <1>5, <1>6, <1>7, <1>8, <1>9 DEF GiftsInv

LEMMA ListResetStep ==
    ASSUME FinitelyMany, GiftsInv, NEW t \in Taps, Gift!ListReset(t)
    PROVE  GiftsInv'
    <1>1. /\ tap[t].pc = "idle" /\ Gift!Goes(t, "reset") /\ resets' = resets + 1
          /\ UNCHANGED <<locking, user, shown, given, excused, faults>>
        BY DEF Gift!ListReset, Gift!At, Gift!Config
    <1>2. PICK new \in TapType : /\ Steps(t, new)
                                  /\ new.pc = "reset" /\ new.on = tap[t].on /\ new.saw = tap[t].saw
        BY <1>1, Went DEF GiftsInv, Places
    <1>3. tap[t].on = "none"
        BY <1>1, PressedNothing
    <1>4. UNCHANGED <<user, given, shown>>
        BY <1>1
    <1>5. GiftsTypeOK' /\ Presses'
        BY <1>1, <1>2, <1>3, <1>4, Typed DEF GiftsInv, GiftsTypeOK
    <1>6. TrialsCounted' /\ TrialsRecorded'
        <2>1. /\ Count(tap', {"mark", "create"}) = Count(tap, {"mark", "create"})
              /\ Count(tap', {"reset"}) = Count(tap, {"reset"}) + 1
              /\ Count(tap', {"mark"}) = Count(tap, {"mark"})
              /\ Count(tap', {"create"}) = Count(tap, {"create"})
              /\ Count(tap', {"record"}) = Count(tap, {"record"})
            BY <1>1, <1>2, CountsTyped DEF Steps, Recount, In, Counts
        <2>2. Counts /\ Counts'
            BY CountsTyped
        <2> QED BY <1>1, <1>4, <2>1, <2>2 DEF GiftsInv, GiftsTypeOK, TrialsCounted, TrialsRecorded,
                   Counts
    <1>7. DrawsCounted'
        <2>1. NotGames(t, new)
            BY <1>1, <1>2, <1>3, <1>4 DEF NotGames, Gift!Playing
        <2> QED BY <1>2, <2>1, DrawsUntouched
    <1>8. ChargesCounted'
        <2>1. NotCharges(t, new)
            BY <1>1, <1>2, <1>3, <1>4 DEF NotCharges
        <2> QED BY <1>2, <2>1, ChargesUntouched
    <1>9. MoneyCounted'
        <2>1. NotMoney(t, new)
            BY <1>1, <1>2, <1>3, <1>4 DEF NotMoney
        <2> QED BY <1>2, <2>1, MoneyUntouched
    <1> QED BY <1>5, <1>6, <1>7, <1>8, <1>9 DEF GiftsInv

LEMMA ResetTestedStep ==
    ASSUME FinitelyMany, GiftsInv, NEW t \in Taps, Gift!ResetTested(t)
    PROVE  GiftsInv'
    <1>1. /\ tap[t].pc = "reset" /\ Gift!Ends(t) /\ user' = [user EXCEPT !.tested = FALSE]
          /\ UNCHANGED <<locking, shown, given, resets, excused, faults>>
        BY DEF Gift!ResetTested, Gift!At, Gift!Config
    <1>2. PICK new \in TapType : /\ Steps(t, new)
                                  /\ new.pc = "idle" /\ new.on = "none" /\ new.saw = 0
        BY <1>1, Ended DEF GiftsInv
    <1>3. tap[t].on = "none"
        BY <1>1, PressedNothing
    <1>4. /\ user' \in UserType
          /\ user'.tested = FALSE
          /\ user'.number = user.number
          /\ user'.played = user.played
          /\ user'.amount = user.amount
        BY <1>1 DEF GiftsInv, GiftsTypeOK
    <1>5. GiftsTypeOK' /\ Presses'
        BY <1>1, <1>2, <1>3, <1>4, Typed DEF GiftsInv, GiftsTypeOK
    <1>6. TrialsCounted' /\ TrialsRecorded'
        <2>1. /\ Count(tap', {"mark", "create"}) = Count(tap, {"mark", "create"})
              /\ Count(tap, {"reset"}) = Count(tap', {"reset"}) + 1
              /\ Count(tap', {"mark"}) = Count(tap, {"mark"})
              /\ Count(tap', {"create"}) = Count(tap, {"create"})
              /\ Count(tap', {"record"}) = Count(tap, {"record"})
            BY <1>1, <1>2, CountsTyped DEF Steps, Recount, In, Counts
        <2>2. Counts /\ Counts'
            BY CountsTyped
        <2> QED BY <1>1, <1>4, <2>1, <2>2 DEF GiftsInv, GiftsTypeOK, TrialsCounted, TrialsRecorded,
                   Counts
    <1>7. DrawsCounted'
        <2>1. NotGames(t, new)
            BY <1>1, <1>2, <1>3, <1>4 DEF NotGames, Gift!Playing
        <2> QED BY <1>2, <2>1, DrawsUntouched
    <1>8. ChargesCounted'
        <2>1. NotCharges(t, new)
            BY <1>1, <1>2, <1>3, <1>4 DEF NotCharges
        <2> QED BY <1>2, <2>1, ChargesUntouched
    <1>9. MoneyCounted'
        <2>1. NotMoney(t, new)
            BY <1>1, <1>2, <1>3, <1>4 DEF NotMoney
        <2> QED BY <1>2, <2>1, MoneyUntouched
    <1> QED BY <1>5, <1>6, <1>7, <1>8, <1>9 DEF GiftsInv

-----------------------------------------------------------------------------
(* The games.                                                              *)

LEMMA RollStep ==
    ASSUME FinitelyMany, GiftsInv, NEW t \in Taps, Gift!Roll(t)
    PROVE  GiftsInv'
    <1>1. /\ tap[t].pc = "roll" /\ Gift!Goes(t, "rolled") /\ given' = [given EXCEPT !.draws = @ + 1]
          /\ UNCHANGED <<locking, user, shown, resets, excused, faults>>
        BY DEF Gift!Roll, Gift!At, Gift!Config
    <1>2. PICK new \in TapType : /\ Steps(t, new)
                                  /\ new.pc = "rolled" /\ new.on = tap[t].on /\ new.saw = tap[t].saw
        BY <1>1, Went DEF GiftsInv, Places
    <1>3. tap[t].on = "none"
        BY <1>1, PressedNothing
    <1>4. /\ given' \in GivenType
          /\ given'.trials = given.trials
          /\ given'.rows = given.rows
          /\ given'.draws = given.draws + 1
          /\ given'.owed = given.owed
          /\ given'.charges = given.charges
        BY <1>1 DEF GiftsInv, GiftsTypeOK
    <1>5. GiftsTypeOK' /\ Presses'
        BY <1>1, <1>2, <1>3, <1>4, Typed DEF GiftsInv, GiftsTypeOK
    <1>6. TrialsCounted' /\ TrialsRecorded'
        <2>1. NotTrials(t, new)
            BY <1>1, <1>2, <1>3, <1>4 DEF NotTrials, TrialPlaces
        <2> QED BY <1>2, <2>1, TrialsUntouched
    <1>7. DrawsCounted'
        <2>1. /\ Count(tap, {"roll", "menu"}) = Count(tap', {"roll", "menu"}) + 1
              /\ Count(tap', Gift!Playing) = Count(tap, Gift!Playing)
            BY <1>1, <1>2, CountsTyped DEF Steps, Recount, In, Counts, Gift!Playing
        <2>2. Unpressed' = Unpressed
            BY <1>1, <1>2, <1>3, <1>4, SameButtons
        <2>3. Counts /\ Counts' /\ Unpressed \in {0, 1}
            BY CountsTyped DEF Unpressed
        <2> QED BY <1>1, <1>4, <2>1, <2>2, <2>3 DEF GiftsInv, GiftsTypeOK, DrawsCounted, Counts
    <1>8. ChargesCounted'
        <2>1. NotCharges(t, new)
            BY <1>1, <1>2, <1>3, <1>4 DEF NotCharges
        <2> QED BY <1>2, <2>1, ChargesUntouched
    <1>9. MoneyCounted'
        <2>1. NotMoney(t, new)
            BY <1>1, <1>2, <1>3, <1>4 DEF NotMoney
        <2> QED BY <1>2, <2>1, MoneyUntouched
    <1> QED BY <1>5, <1>6, <1>7, <1>8, <1>9 DEF GiftsInv

LEMMA RollStoredStep ==
    ASSUME FinitelyMany, GiftsInv, NEW t \in Taps, Gift!RollStored(t)
    PROVE  GiftsInv'
    <1>1. /\ tap[t].pc = "rolled" /\ (Gift!Goes(t, "prize") \/ Gift!Ends(t))
          /\ user' = [user EXCEPT !.played = TRUE]
          /\ UNCHANGED <<locking, shown, given, resets, excused, faults>>
        BY DEF Gift!RollStored, Gift!At, Gift!Config
    <1>2. PICK new \in TapType : /\ Steps(t, new)
                                  /\ new.pc \in {"prize", "idle"} /\ new.on \in {"none", tap[t].on}
                                  /\ new.saw \in {0, tap[t].saw}
        BY <1>1, Went, Ended DEF GiftsInv, Places
    <1>3. tap[t].on = "none"
        BY <1>1, PressedNothing
    <1>4. /\ user' \in UserType
          /\ user'.tested = user.tested
          /\ user'.number = user.number
          /\ user'.played = TRUE
          /\ user'.amount = user.amount
        BY <1>1 DEF GiftsInv, GiftsTypeOK
    <1>5. GiftsTypeOK' /\ Presses'
        BY <1>1, <1>2, <1>3, <1>4, Typed DEF GiftsInv, GiftsTypeOK
    <1>6. TrialsCounted' /\ TrialsRecorded'
        <2>1. NotTrials(t, new)
            BY <1>1, <1>2, <1>3, <1>4 DEF NotTrials, TrialPlaces
        <2> QED BY <1>2, <2>1, TrialsUntouched
    <1>7. DrawsCounted'
        <2>1. /\ Count(tap', {"roll", "menu"}) = Count(tap, {"roll", "menu"})
              /\ Count(tap, Gift!Playing) = Count(tap', Gift!Playing) + 1
            BY <1>1, <1>2, CountsTyped DEF Steps, Recount, In, Counts, Gift!Playing
        <2>2. Unpressed' = Unpressed
            BY <1>1, <1>2, <1>3, <1>4, SameButtons
        <2>3. Counts /\ Counts' /\ Unpressed \in {0, 1}
            BY CountsTyped DEF Unpressed
        <2> QED BY <1>1, <1>4, <2>1, <2>2, <2>3 DEF GiftsInv, GiftsTypeOK, DrawsCounted, Counts
    <1>8. ChargesCounted'
        <2>1. NotCharges(t, new)
            BY <1>1, <1>2, <1>3, <1>4 DEF NotCharges
        <2> QED BY <1>2, <2>1, ChargesUntouched
    <1>9. MoneyCounted'
        <2>1. NotMoney(t, new)
            BY <1>1, <1>2, <1>3, <1>4 DEF NotMoney
        <2> QED BY <1>2, <2>1, MoneyUntouched
    <1> QED BY <1>5, <1>6, <1>7, <1>8, <1>9 DEF GiftsInv

LEMMA OpenChoicesStep ==
    ASSUME FinitelyMany, GiftsInv, NEW t \in Taps, Gift!OpenChoices(t)
    PROVE  GiftsInv'
    <1>1. /\ tap[t].pc = "menu" /\ Gift!Ends(t)
          /\ user' = [user EXCEPT !.played = TRUE] /\ shown' = [shown EXCEPT !.fresh = TRUE]
          /\ UNCHANGED <<locking, given, resets, excused, faults>>
        BY DEF Gift!OpenChoices, Gift!At, Gift!Config
    <1>2. PICK new \in TapType : /\ Steps(t, new)
                                  /\ new.pc = "idle" /\ new.on = "none" /\ new.saw = 0
        BY <1>1, Ended DEF GiftsInv
    <1>3. tap[t].on = "none"
        BY <1>1, PressedNothing
    <1>4. /\ user' \in UserType
          /\ user'.tested = user.tested
          /\ user'.number = user.number
          /\ user'.played = TRUE
          /\ user'.amount = user.amount
          /\ shown' \in ShownType
          /\ shown'.picker = shown.picker
          /\ shown'.fresh = TRUE
          /\ shown'.stale = shown.stale
          /\ shown'.charge = shown.charge
        BY <1>1 DEF GiftsInv, GiftsTypeOK
    <1>5. GiftsTypeOK' /\ Presses'
        BY <1>1, <1>2, <1>3, <1>4, Typed DEF GiftsInv, GiftsTypeOK
    <1>6. TrialsCounted' /\ TrialsRecorded'
        <2>1. NotTrials(t, new)
            BY <1>1, <1>2, <1>3, <1>4 DEF NotTrials, TrialPlaces
        <2> QED BY <1>2, <2>1, TrialsUntouched
    <1>7. DrawsCounted'
        <2>1. /\ Count(tap, {"roll", "menu"}) = Count(tap', {"roll", "menu"}) + 1
              /\ Count(tap, Gift!Playing) = Count(tap', Gift!Playing) + 1
            BY <1>1, <1>2, CountsTyped DEF Steps, Recount, In, Counts, Gift!Playing
        <2>2. Unpressed' \in {0, 1}
            BY DEF Unpressed
        <2>3. Counts /\ Counts' /\ Unpressed \in {0, 1}
            BY CountsTyped DEF Unpressed
        <2> QED BY <1>1, <1>4, <2>1, <2>2, <2>3 DEF GiftsInv, GiftsTypeOK, DrawsCounted, Counts
    <1>8. ChargesCounted'
        <2>1. NotCharges(t, new)
            BY <1>1, <1>2, <1>3, <1>4 DEF NotCharges
        <2> QED BY <1>2, <2>1, ChargesUntouched
    <1>9. MoneyCounted'
        <2>1. NotMoney(t, new)
            BY <1>1, <1>2, <1>3, <1>4 DEF NotMoney
        <2> QED BY <1>2, <2>1, MoneyUntouched
    <1> QED BY <1>5, <1>6, <1>7, <1>8, <1>9 DEF GiftsInv

LEMMA PlayStep ==
    ASSUME FinitelyMany, GiftsInv, NEW t \in Taps, Gift!Play(t)
    PROVE  GiftsInv'
    <1> DEFINE late == IF Gift!Others(t, Gift!Playing) THEN 1 ELSE 0
    <1>1. /\ tap[t].pc = "idle" /\ ~user.played
          /\ \E pc \in {"roll", "menu"} : Gift!Goes(t, pc)
          /\ Gift!Excuse("draws", Gift!Others(t, Gift!Playing))
          /\ UNCHANGED <<locking, user, shown, given, resets, faults>>
        BY DEF Gift!Play, Gift!At, Gift!Config
    <1>2. PICK new \in TapType : /\ Steps(t, new) /\ new.pc \in {"roll", "menu"}
                                 /\ new.on = tap[t].on /\ new.saw = tap[t].saw
        BY <1>1, Went DEF GiftsInv, Places
    <1>3. tap[t].on = "none"
        BY <1>1, PressedNothing
    <1>4. /\ excused' \in ExcusedType
          /\ excused'.draws = excused.draws + late
          /\ excused'.trials = excused.trials /\ excused'.charges = excused.charges
        <2>1. "draws" \in {"trials", "draws", "charges"}
            OBVIOUS
        <2>2. /\ excused' \in ExcusedType
              /\ excused'.trials = excused.trials + IF "draws" = "trials" /\ Gift!Others(t, Gift!Playing) THEN 1 ELSE 0
              /\ excused'.draws = excused.draws + IF "draws" = "draws" /\ Gift!Others(t, Gift!Playing) THEN 1 ELSE 0
              /\ excused'.charges = excused.charges + IF "draws" = "charges" /\ Gift!Others(t, Gift!Playing) THEN 1 ELSE 0
            BY <1>1, <2>1, Excused DEF GiftsInv
        <2> QED BY <2>2 DEF GiftsInv, GiftsTypeOK
    <1>5. GiftsTypeOK' /\ Presses'
        BY <1>1, <1>2, <1>3, <1>4, Typed DEF GiftsInv, GiftsTypeOK
    <1>6. TrialsCounted' /\ TrialsRecorded'
        <2>1. NotTrials(t, new)
            BY <1>1, <1>2, <1>4 DEF NotTrials, TrialPlaces
        <2> QED BY <1>2, <2>1, TrialsUntouched
    <1>7. DrawsCounted'
        <2>1. /\ Count(tap', {"roll", "menu"}) = Count(tap, {"roll", "menu"}) + 1
              /\ Count(tap', Gift!Playing) = Count(tap, Gift!Playing) + 1
            BY <1>1, <1>2, CountsTyped DEF Steps, Recount, In, Counts, Gift!Playing
        <2>2. Unpressed' = Unpressed /\ Unpressed \in {0, 1}
            BY <1>1, <1>2, <1>3, SameButtons DEF Unpressed
        <2>3. late = 0 => Count(tap, Gift!Playing) = 0
            BY <1>1, NoOthers DEF Gift!Playing
        <2>4. late \in {0, 1} /\ Counts /\ Counts'
            BY CountsTyped
        <2> HIDE DEF late
        <2> QED BY <1>1, <1>4, <2>1, <2>2, <2>3, <2>4 DEF GiftsInv, GiftsTypeOK, DrawsCounted,
                   Counts
    <1>8. ChargesCounted'
        <2>1. NotCharges(t, new)
            BY <1>1, <1>2, <1>4 DEF NotCharges
        <2> QED BY <1>2, <2>1, ChargesUntouched
    <1>9. MoneyCounted'
        <2>1. NotMoney(t, new)
            BY <1>1, <1>2 DEF NotMoney
        <2> QED BY <1>2, <2>1, MoneyUntouched
    <1> QED BY <1>5, <1>6, <1>7, <1>8, <1>9 DEF GiftsInv

LEMMA ChooseStep ==
    ASSUME FinitelyMany, GiftsInv, NEW t \in Taps, NEW on \in {"fresh", "stale"}, Gift!Choose(t, on)
    PROVE  GiftsInv'
    <1> DEFINE again == on = "stale" \/ \E o \in Taps : tap[o].on = on
               late == IF again THEN 1 ELSE 0
    <1>1. /\ tap[t].pc = "idle" /\ shown[on]
          /\ user' = [user EXCEPT !.played = TRUE] /\ given' = [given EXCEPT !.draws = @ + 1]
          /\ Gift!Excuse("draws", again)
          /\ \E pc \in {"prize", "close"} : tap' = [tap EXCEPT ![t] = [@ EXCEPT !.pc = pc, !.on = on]]
          /\ UNCHANGED <<locking, shown, resets, faults>>
        BY DEF Gift!Choose, Gift!At, Gift!Config
    <1>2. PICK new \in TapType : /\ Steps(t, new) /\ new.pc \in {"prize", "close"}
                                 /\ new.on = on /\ new.saw = tap[t].saw
        <2>1. PICK pc \in {"prize", "close"} : tap' = [tap EXCEPT ![t] = [@ EXCEPT !.pc = pc, !.on = on]]
            BY <1>1
        <2> DEFINE new == [tap[t] EXCEPT !.pc = pc, !.on = on]
        <2>2. tap[t] \in TapType
            BY DEF GiftsInv, GiftsTypeOK
        <2>3. new \in TapType /\ new.pc = pc /\ new.on = on /\ new.saw = tap[t].saw
            BY <2>2 DEF TapType, Places
        <2>4. tap' = [tap EXCEPT ![t] = new]
            BY <2>1 DEF GiftsInv, GiftsTypeOK
        <2> HIDE DEF new
        <2>5. Steps(t, new)
            BY <2>3, <2>4, Stepped DEF GiftsInv
        <2> QED BY <2>3, <2>5
    <1>3. tap[t].on = "none"
        BY <1>1, PressedNothing
    <1>4. /\ excused' \in ExcusedType
          /\ excused'.draws = excused.draws + late
          /\ excused'.trials = excused.trials /\ excused'.charges = excused.charges
        <2>1. "draws" \in {"trials", "draws", "charges"}
            OBVIOUS
        <2> HIDE DEF again
        <2>2. /\ excused' \in ExcusedType
              /\ excused'.trials = excused.trials + IF "draws" = "trials" /\ again THEN 1 ELSE 0
              /\ excused'.draws = excused.draws + IF "draws" = "draws" /\ again THEN 1 ELSE 0
              /\ excused'.charges = excused.charges + IF "draws" = "charges" /\ again THEN 1 ELSE 0
            BY <1>1, <2>1, Excused DEF GiftsInv
        <2> QED BY <2>2 DEF GiftsInv, GiftsTypeOK
    <1>5. /\ user' \in UserType
          /\ user'.tested = user.tested /\ user'.played = TRUE /\ user'.amount = user.amount
          /\ given' \in GivenType
          /\ given'.draws = given.draws + 1 /\ given'.trials = given.trials
          /\ given'.rows = given.rows /\ given'.owed = given.owed /\ given'.charges = given.charges
        <2> HIDE DEF again
        <2>1. /\ user' \in UserType
              /\ user'.tested = user.tested /\ user'.played = TRUE /\ user'.amount = user.amount
            BY <1>1 DEF GiftsInv, GiftsTypeOK
        <2>2. /\ given' \in GivenType
              /\ given'.draws = given.draws + 1 /\ given'.trials = given.trials
              /\ given'.rows = given.rows /\ given'.owed = given.owed
              /\ given'.charges = given.charges
            BY <1>1 DEF GiftsInv, GiftsTypeOK
        <2> QED BY <2>1, <2>2
    <1>6. GiftsTypeOK' /\ Presses'
        BY <1>1, <1>2, <1>3, <1>4, <1>5, Typed DEF GiftsInv, GiftsTypeOK
    <1>7. TrialsCounted' /\ TrialsRecorded'
        <2>1. NotTrials(t, new)
            BY <1>1, <1>2, <1>4, <1>5 DEF NotTrials, TrialPlaces
        <2> QED BY <1>2, <2>1, TrialsUntouched
    <1>8. DrawsCounted'
        <2>1. /\ Count(tap', {"roll", "menu"}) = Count(tap, {"roll", "menu"})
              /\ Count(tap', Gift!Playing) = Count(tap, Gift!Playing)
            BY <1>1, <1>2, CountsTyped DEF Steps, Recount, In, Counts, Gift!Playing
        <2>2. Unpressed \in {0, 1} /\ Unpressed' \in {0, 1}
            BY DEF Unpressed
        <2>3. CASE again
            <3>1. late = 1
                BY <2>3
            <3>2. Unpressed' <= Unpressed
                <4>1. (\A x \in Taps : tap'[x].on # "fresh") => (\A x \in Taps : tap[x].on # "fresh")
                    BY <1>2, <1>3 DEF Steps
                <4> QED BY <1>1, <4>1 DEF Unpressed
            <3> HIDE DEF again, late
            <3> QED BY <1>1, <1>4, <1>5, <2>1, <2>2, <3>1, <3>2, CountsTyped
                    DEF GiftsInv, GiftsTypeOK, DrawsCounted, Counts
        <2>4. CASE ~again
            <3>1. late = 0 /\ on = "fresh"
                BY <2>4
            <3>2. Unpressed = 1
                BY <1>1, <2>4, <3>1 DEF Unpressed
            <3>3. Unpressed' = 0
                BY <1>2, <3>1 DEF Unpressed, Steps
            <3> HIDE DEF again, late
            <3> QED BY <1>1, <1>4, <1>5, <2>1, <3>1, <3>2, <3>3, CountsTyped
                    DEF GiftsInv, GiftsTypeOK, DrawsCounted, Counts
        <2> QED BY <2>3, <2>4
    <1>9. ChargesCounted'
        <2>1. NotCharges(t, new)
            BY <1>1, <1>2, <1>4, <1>5 DEF NotCharges
        <2> QED BY <1>2, <2>1, ChargesUntouched
    <1>10. MoneyCounted'
        <2>1. NotMoney(t, new)
            BY <1>1, <1>2, <1>5 DEF NotMoney
        <2> QED BY <1>2, <2>1, MoneyUntouched
    <1> QED BY <1>6, <1>7, <1>8, <1>9, <1>10 DEF GiftsInv

LEMMA CloseChoicesStep ==
    ASSUME FinitelyMany, GiftsInv, NEW t \in Taps, Gift!CloseChoices(t)
    PROVE  GiftsInv'
    <1>1. /\ tap[t].pc = "close" /\ Gift!Ends(t)
          /\ faults' \in Nat /\ (faults' = 0 => faults = 0)
          /\ \E failed \in BOOLEAN :
                 shown' = [shown EXCEPT ![tap[t].on] = FALSE,
                                         !.stale = (@ /\ tap[t].on # "stale") \/ failed]
          /\ UNCHANGED <<locking, user, given, resets, excused>>
        <2>1. PICK failed \in BOOLEAN :
                 /\ Gift!Fails(failed)
                 /\ shown' = [shown EXCEPT ![tap[t].on] = FALSE,
                                            !.stale = (@ /\ tap[t].on # "stale") \/ failed]
            BY DEF Gift!CloseChoices
        <2>2. faults' \in Nat /\ (faults' = 0 => faults = 0)
            BY <2>1, Failed DEF GiftsInv
        <2>3. /\ tap[t].pc = "close" /\ Gift!Ends(t)
              /\ UNCHANGED <<locking, user, given, resets, excused>>
            BY DEF Gift!CloseChoices, Gift!At, Gift!Config
        <2> QED BY <2>1, <2>2, <2>3
    <1>2. PICK new \in TapType : /\ Steps(t, new)
                                  /\ new.pc = "idle" /\ new.on = "none" /\ new.saw = 0
        BY <1>1, Ended DEF GiftsInv
    <1>0. tap[t].pc = "close" /\ UNCHANGED <<locking, user, given, resets, excused>>
        BY <1>1
    <1>3. tap[t].on \in {"fresh", "stale"}
        BY <1>1 DEF GiftsInv, Presses, GiftsTypeOK, TapType
    <1>4. /\ shown' \in ShownType
          /\ shown'.charge = shown.charge
          /\ tap[t].on = "fresh" => shown'.fresh = FALSE
          /\ tap[t].on = "stale" => shown'.fresh = shown.fresh
        <2>1. CASE tap[t].on = "fresh"
            <3>1. PICK failed \in BOOLEAN :
                    shown' = [shown EXCEPT !.fresh = FALSE, !.stale = (@ /\ tap[t].on # "stale") \/ failed]
                BY <1>1, <2>1
            <3> QED BY <2>1, <3>1 DEF GiftsInv, GiftsTypeOK
        <2>2. CASE tap[t].on = "stale"
            <3>1. PICK failed \in BOOLEAN :
                    shown' = [shown EXCEPT !.stale = FALSE, !.stale = (@ /\ tap[t].on # "stale") \/ failed]
                BY <1>1, <2>2
            <3> QED BY <2>2, <3>1 DEF GiftsInv, GiftsTypeOK
        <2> QED BY <1>3, <2>1, <2>2
    <1>5. GiftsTypeOK' /\ Presses'
        BY <1>1, <1>2, <1>3, <1>4, Typed DEF GiftsInv, GiftsTypeOK
    <1>6. TrialsCounted' /\ TrialsRecorded'
        <2>1. NotTrials(t, new)
            BY <1>1, <1>2, <1>3, <1>4 DEF NotTrials, TrialPlaces
        <2> QED BY <1>2, <2>1, TrialsUntouched
    <1>7. DrawsCounted'
        <2>1. /\ Count(tap', {"roll", "menu"}) = Count(tap, {"roll", "menu"})
              /\ Count(tap', Gift!Playing) = Count(tap, Gift!Playing)
            BY <1>0, <1>2, CountsTyped DEF Steps, Recount, In, Counts, Gift!Playing
        <2>2. Unpressed \in {0, 1} /\ Unpressed' \in {0, 1}
            BY DEF Unpressed
        <2>3. Unpressed' <= Unpressed
            <3>1. CASE tap[t].on = "fresh"
                BY <1>4, <2>2, <3>1 DEF Unpressed
            <3>2. CASE tap[t].on # "fresh"
                <4>1. shown'.fresh = shown.fresh
                    BY <1>3, <1>4, <3>2
                <4> QED BY <1>2, <2>2, <3>2, <4>1, SameButtons
            <3> QED BY <3>1, <3>2
        <2> QED BY <1>0, <2>1, <2>2, <2>3, CountsTyped DEF GiftsInv, GiftsTypeOK, DrawsCounted,
                   Counts
    <1>8. ChargesCounted'
        <2>1. NotCharges(t, new)
            BY <1>1, <1>2, <1>3, <1>4 DEF NotCharges
        <2> QED BY <1>2, <2>1, ChargesUntouched
    <1>9. MoneyCounted'
        <2>1. NotMoney(t, new)
            BY <1>1, <1>2, <1>3, <1>4 DEF NotMoney
        <2> QED BY <1>2, <2>1, MoneyUntouched
    <1> QED BY <1>5, <1>6, <1>7, <1>8, <1>9 DEF GiftsInv

-----------------------------------------------------------------------------
(* Money.                                                                  *)

\* Where a tap is after its prize.
LEMMA PrizeGiven ==
    ASSUME FinitelyMany, GiftsInv, NEW t \in Taps, tap[t].pc \in {"prize", "write"},
           tap' = [tap EXCEPT ![t] = Gift!AfterPrize(t)]
    PROVE  \E new \in TapType :
              /\ Steps(t, new) /\ new.pc \in {"idle", "close"} /\ new.saw = 0
              /\ new.on = tap[t].on /\ (new.pc = "close" => new.on # "none")
    <1>1. tap[t] \in TapType
        BY DEF GiftsInv, GiftsTypeOK
    <1>2. CASE tap[t].on = "none"
        <2>1. Gift!AfterPrize(t) = Gift!Idle
            BY <1>2 DEF Gift!AfterPrize
        <2>2. Steps(t, Gift!Idle)
            BY <2>1, IdleTyped, Stepped DEF GiftsInv
        <2> QED BY <1>2, <2>2, IdleTyped
    <1>3. CASE tap[t].on # "none"
        <2> DEFINE new == [tap[t] EXCEPT !.pc = "close", !.saw = 0]
        <2>1. Gift!AfterPrize(t) = new
            BY <1>3 DEF Gift!AfterPrize
        <2>2. new \in TapType /\ new.pc = "close" /\ new.on = tap[t].on /\ new.saw = 0
            BY <1>1 DEF TapType, Places
        <2> HIDE DEF new
        <2>3. Steps(t, new)
            BY <2>1, <2>2, Stepped DEF GiftsInv
        <2> QED BY <1>3, <2>2, <2>3
    <1> QED BY <1>2, <1>3

\* One prize more is owed; the row says so, or was overwritten.
LEMMA PrizePaid ==
    ASSUME FinitelyMany, GiftsInv, NEW t \in Taps, tap[t].pc \in {"prize", "write"},
           NEW amount \in Nat, amount <= given.owed + 1,
           locking => amount = given.owed + 1,
           user' = [user EXCEPT !.amount = amount],
           given' = [given EXCEPT !.owed = @ + 1],
           tap' = [tap EXCEPT ![t] = Gift!AfterPrize(t)],
           UNCHANGED <<locking, shown, resets, excused, faults>>
    PROVE  GiftsInv'
    <1>1. PICK new \in TapType :
              /\ Steps(t, new) /\ new.pc \in {"idle", "close"} /\ new.saw = 0
              /\ new.on = tap[t].on /\ (new.pc = "close" => new.on # "none")
        BY PrizeGiven
    <1>2. new.on # "none" => new.pc = "close"
        <2>1. CASE tap[t].on = "none"
            BY <1>1, <2>1
        <2>2. CASE tap[t].on # "none"
            <3>1. tap'[t] = [tap[t] EXCEPT !.pc = "close", !.saw = 0]
                BY <2>2 DEF Gift!AfterPrize, GiftsInv, GiftsTypeOK
            <3>2. tap'[t].pc = "close"
                BY <3>1 DEF GiftsInv, GiftsTypeOK, TapType
            <3> QED BY <1>1, <3>2 DEF Steps
        <2> QED BY <2>1, <2>2
    <1>3. /\ user' \in UserType
          /\ user'.tested = user.tested /\ user'.played = user.played /\ user'.amount = amount
          /\ given' \in GivenType
          /\ given'.owed = given.owed + 1 /\ given'.draws = given.draws
          /\ given'.trials = given.trials /\ given'.rows = given.rows
          /\ given'.charges = given.charges
        BY DEF GiftsInv, GiftsTypeOK
    <1>4. GiftsTypeOK' /\ Presses'
        BY <1>1, <1>2, <1>3, Typed DEF GiftsInv, GiftsTypeOK
    <1>5. TrialsCounted' /\ TrialsRecorded'
        <2>1. NotTrials(t, new)
            BY <1>1, <1>3 DEF NotTrials, TrialPlaces
        <2> QED BY <1>1, <2>1, TrialsUntouched
    <1>6. DrawsCounted'
        <2>1. NotGames(t, new)
            BY <1>1, <1>3 DEF NotGames, Gift!Playing
        <2> QED BY <1>1, <2>1, DrawsUntouched
    <1>7. ChargesCounted'
        <2>1. NotCharges(t, new)
            BY <1>1, <1>3 DEF NotCharges
        <2> QED BY <1>1, <2>1, ChargesUntouched
    <1>8. MoneyCounted'
        <2>1. \A x \in Taps : tap'[x].saw <= given.owed + 1
            <3>1. \A x \in Taps : tap[x].saw \in Nat /\ tap[x].saw <= given.owed
                BY DEF GiftsInv, MoneyCounted, GiftsTypeOK, TapType
            <3>2. given.owed \in Nat
                BY DEF GiftsInv, GiftsTypeOK
            <3> QED BY <1>1, <3>1, <3>2 DEF Steps
        <2>2. locking => \A x \in Taps : tap'[x].pc # "write"
            BY <1>1 DEF Steps, GiftsInv, MoneyCounted
        <2> QED BY <1>3, <2>1, <2>2 DEF MoneyCounted
    <1> QED BY <1>4, <1>5, <1>6, <1>7, <1>8 DEF GiftsInv

LEMMA AwardPrizeStep ==
    ASSUME FinitelyMany, GiftsInv, NEW t \in Taps, Gift!AwardPrize(t)
    PROVE  GiftsInv'
    <1>1. tap[t].pc = "prize" /\ UNCHANGED <<locking, shown, resets, excused, faults>>
        BY DEF Gift!AwardPrize, Gift!At, Gift!Config
    <1>2. user.amount \in Nat /\ given.owed \in Nat /\ user.amount <= given.owed
          /\ (locking => user.amount = given.owed)
        BY DEF GiftsInv, GiftsTypeOK, MoneyCounted
    <1>3. CASE locking
        <2>1. /\ user' = [user EXCEPT !.amount = user.amount + 1]
              /\ given' = [given EXCEPT !.owed = @ + 1]
              /\ tap' = [tap EXCEPT ![t] = Gift!AfterPrize(t)]
            BY <1>3 DEF Gift!AwardPrize, GiftsInv, GiftsTypeOK
        <2>2. /\ user.amount + 1 \in Nat /\ user.amount + 1 <= given.owed + 1
              /\ user.amount + 1 = given.owed + 1
            BY <1>2, <1>3
        <2> QED BY <1>1, <2>1, <2>2, PrizePaid
    <1>4. CASE ~locking
        <2>1. /\ tap' = [tap EXCEPT ![t] = [@ EXCEPT !.pc = "write", !.saw = user.amount]]
              /\ UNCHANGED <<user, given>>
            BY <1>4 DEF Gift!AwardPrize
        <2> DEFINE new == [tap[t] EXCEPT !.pc = "write", !.saw = user.amount]
        <2>2. tap[t] \in TapType
            BY DEF GiftsInv, GiftsTypeOK
        <2>3. new \in TapType /\ new.pc = "write" /\ new.on = tap[t].on /\ new.saw = user.amount
            BY <1>2, <2>2 DEF TapType, Places
        <2>4. tap' = [tap EXCEPT ![t] = new]
            BY <2>1 DEF GiftsInv, GiftsTypeOK
        <2> HIDE DEF new
        <2>5. Steps(t, new)
            BY <2>3, <2>4, Stepped DEF GiftsInv
        <2>6. GiftsTypeOK' /\ Presses'
            BY <1>1, <2>1, <2>3, <2>5, Typed DEF GiftsInv, GiftsTypeOK
        <2>7. TrialsCounted' /\ TrialsRecorded'
            <3>1. NotTrials(t, new)
                BY <1>1, <2>1, <2>3 DEF NotTrials, TrialPlaces
            <3> QED BY <2>3, <2>5, <3>1, TrialsUntouched
        <2>8. DrawsCounted'
            <3>1. NotGames(t, new)
                BY <1>1, <2>1, <2>3 DEF NotGames, Gift!Playing
            <3> QED BY <2>3, <2>5, <3>1, DrawsUntouched
        <2>9. ChargesCounted'
            <3>1. NotCharges(t, new)
                BY <1>1, <2>1, <2>3 DEF NotCharges
            <3> QED BY <2>3, <2>5, <3>1, ChargesUntouched
        <2>10. MoneyCounted'
            <3>1. \A x \in Taps : tap'[x].saw <= given.owed
                BY <1>2, <2>3, <2>5 DEF Steps, GiftsInv, MoneyCounted
            <3> QED BY <1>1, <1>2, <1>4, <2>1, <3>1 DEF MoneyCounted
        <2> QED BY <2>6, <2>7, <2>8, <2>9, <2>10 DEF GiftsInv
    <1> QED BY <1>3, <1>4

LEMMA WritePrizeStep ==
    ASSUME FinitelyMany, GiftsInv, NEW t \in Taps, Gift!WritePrize(t)
    PROVE  GiftsInv'
    <1>1. /\ tap[t].pc = "write"
          /\ user' = [user EXCEPT !.amount = tap[t].saw + 1]
          /\ given' = [given EXCEPT !.owed = @ + 1]
          /\ tap' = [tap EXCEPT ![t] = Gift!AfterPrize(t)]
          /\ UNCHANGED <<locking, shown, resets, excused, faults>>
        BY DEF Gift!WritePrize, Gift!At, Gift!Config
    <1>2. ~locking
        BY <1>1 DEF GiftsInv, MoneyCounted
    <1>3. given.owed \in Nat /\ tap[t].saw \in Nat /\ tap[t].saw <= given.owed
        BY DEF GiftsInv, GiftsTypeOK, MoneyCounted, TapType
    <1>4. tap[t].saw + 1 \in Nat /\ tap[t].saw + 1 <= given.owed + 1
        BY <1>3
    <1> QED BY <1>1, <1>2, <1>4, PrizePaid

LEMMA ConfirmChargeStep ==
    ASSUME FinitelyMany, GiftsInv, NEW t \in Taps, Gift!ConfirmCharge(t)
    PROVE  GiftsInv'
    <1> DEFINE late == IF Gift!Others(t, {"edit"}) THEN 1 ELSE 0
    <1>1. /\ tap[t].pc = "idle" /\ shown.charge /\ Gift!Goes(t, "edit")
          /\ Gift!Excuse("charges", Gift!Others(t, {"edit"}))
          /\ UNCHANGED <<locking, user, shown, given, resets, faults>>
        BY DEF Gift!ConfirmCharge, Gift!At, Gift!Config
    <1>2. PICK new \in TapType : /\ Steps(t, new) /\ new.pc = "edit" /\ new.on = tap[t].on
                                 /\ new.saw = tap[t].saw
        BY <1>1, Went DEF GiftsInv, Places
    <1>3. tap[t].on = "none"
        BY <1>1, PressedNothing
    <1>4. /\ excused' \in ExcusedType
          /\ excused'.charges = excused.charges + late
          /\ excused'.trials = excused.trials /\ excused'.draws = excused.draws
        <2>1. "charges" \in {"trials", "draws", "charges"}
            OBVIOUS
        <2>2. /\ excused' \in ExcusedType
              /\ excused'.trials = excused.trials + IF "charges" = "trials" /\ Gift!Others(t, {"edit"}) THEN 1 ELSE 0
              /\ excused'.draws = excused.draws + IF "charges" = "draws" /\ Gift!Others(t, {"edit"}) THEN 1 ELSE 0
              /\ excused'.charges = excused.charges + IF "charges" = "charges" /\ Gift!Others(t, {"edit"}) THEN 1 ELSE 0
            BY <1>1, <2>1, Excused DEF GiftsInv
        <2> QED BY <2>2 DEF GiftsInv, GiftsTypeOK
    <1>5. GiftsTypeOK' /\ Presses'
        BY <1>1, <1>2, <1>3, <1>4, Typed DEF GiftsInv, GiftsTypeOK
    <1>6. TrialsCounted' /\ TrialsRecorded'
        <2>1. NotTrials(t, new)
            BY <1>1, <1>2, <1>4 DEF NotTrials, TrialPlaces
        <2> QED BY <1>2, <2>1, TrialsUntouched
    <1>7. DrawsCounted'
        <2>1. NotGames(t, new)
            BY <1>1, <1>2, <1>4 DEF NotGames, Gift!Playing
        <2> QED BY <1>2, <2>1, DrawsUntouched
    <1>8. ChargesCounted'
        <2>1. /\ Count(tap', {"edit", "charge"}) = Count(tap, {"edit", "charge"}) + 1
              /\ Count(tap', {"edit"}) = Count(tap, {"edit"}) + 1
            BY <1>1, <1>2, CountsTyped DEF Steps, Recount, In, Counts
        <2>2. late = 0 => Count(tap, {"edit"}) = 0
            BY <1>1, NoOthers
        <2>3. late \in {0, 1} /\ Counts /\ Counts'
            BY CountsTyped
        <2> HIDE DEF late
        <2> QED BY <1>1, <1>4, <2>1, <2>2, <2>3 DEF GiftsInv, GiftsTypeOK, ChargesCounted, Counts
    <1>9. MoneyCounted'
        <2>1. NotMoney(t, new)
            BY <1>1, <1>2 DEF NotMoney
        <2> QED BY <1>2, <2>1, MoneyUntouched
    <1> QED BY <1>5, <1>6, <1>7, <1>8, <1>9 DEF GiftsInv

LEMMA TakeButtonsStep ==
    ASSUME FinitelyMany, GiftsInv, NEW t \in Taps, Gift!TakeButtons(t)
    PROVE  GiftsInv'
    <1>1. tap[t].pc = "edit" /\ UNCHANGED <<locking, user, given, resets, excused>>
        BY DEF Gift!TakeButtons, Gift!At, Gift!Config
    <1>2. tap[t].on = "none"
        BY <1>1, PressedNothing
    <1>3. /\ faults' \in Nat /\ (faults' = 0 => faults = 0)
          /\ \/ shown' = [shown EXCEPT !.charge = FALSE] /\ Gift!Goes(t, "charge")
             \/ Gift!Ends(t) /\ UNCHANGED shown
        BY Failed DEF Gift!TakeButtons, GiftsInv
    <1>4. PICK new \in TapType :
              /\ Steps(t, new) /\ new.on = "none" /\ new.saw \in {0, tap[t].saw}
              /\ \/ new.pc = "charge" /\ shown' = [shown EXCEPT !.charge = FALSE]
                 \/ new.pc = "idle" /\ UNCHANGED shown
        <2>1. CASE shown' = [shown EXCEPT !.charge = FALSE] /\ Gift!Goes(t, "charge")
            BY <1>2, <2>1, Went DEF GiftsInv, Places
        <2>2. CASE Gift!Ends(t) /\ UNCHANGED shown
            BY <2>2, Ended DEF GiftsInv
        <2> QED BY <1>3, <2>1, <2>2
    <1>5. /\ shown' \in ShownType
          /\ shown'.fresh = shown.fresh
          /\ new.pc = "charge" => shown'.charge = FALSE
          /\ new.pc = "idle" => shown'.charge = shown.charge
        <2>1. CASE new.pc = "charge" /\ shown' = [shown EXCEPT !.charge = FALSE]
            BY <2>1 DEF GiftsInv, GiftsTypeOK
        <2>2. CASE new.pc = "idle" /\ UNCHANGED shown
            BY <2>2 DEF GiftsInv, GiftsTypeOK
        <2> QED BY <1>4, <2>1, <2>2
    <1>6. new.pc \in {"charge", "idle"} /\ new.on = "none" /\ new.saw \in {0, tap[t].saw}
          /\ Steps(t, new)
        BY <1>4
    <1>7. GiftsTypeOK' /\ Presses'
        BY <1>1, <1>3, <1>5, <1>6, Typed DEF GiftsInv, GiftsTypeOK
    <1>8. TrialsCounted' /\ TrialsRecorded'
        <2>1. NotTrials(t, new)
            BY <1>1, <1>3, <1>6 DEF NotTrials, TrialPlaces
        <2> QED BY <1>6, <2>1, TrialsUntouched
    <1>9. DrawsCounted'
        <2>1. NotGames(t, new)
            BY <1>1, <1>2, <1>5, <1>6 DEF NotGames, Gift!Playing
        <2> QED BY <1>6, <2>1, DrawsUntouched
    <1>10. ChargesCounted'
        <2>1. CASE new.pc = "charge"
            <3>1. Count(tap', {"edit", "charge"}) = Count(tap, {"edit", "charge"})
                BY <1>1, <1>6, <2>1, CountsTyped DEF Steps, Recount, In, Counts
            <3> QED BY <1>1, <1>5, <2>1, <3>1 DEF GiftsInv, ChargesCounted
        <2>2. CASE new.pc = "idle"
            <3>1. /\ Count(tap, {"edit", "charge"}) = Count(tap', {"edit", "charge"}) + 1
                  /\ Counts /\ Counts'
                BY <1>1, <1>6, <2>2, CountsTyped DEF Steps, Recount, In, Counts
            <3> QED BY <1>1, <3>1 DEF GiftsInv, GiftsTypeOK, ChargesCounted, Counts
        <2> QED BY <1>6, <2>1, <2>2
    <1>11. MoneyCounted'
        <2>1. NotMoney(t, new)
            BY <1>1, <1>6 DEF NotMoney
        <2> QED BY <1>6, <2>1, MoneyUntouched
    <1> QED BY <1>7, <1>8, <1>9, <1>10, <1>11 DEF GiftsInv

LEMMA GroupChargeStep ==
    ASSUME FinitelyMany, GiftsInv, NEW t \in Taps, Gift!GroupCharge(t)
    PROVE  GiftsInv'
    <1>1. /\ tap[t].pc = "charge" /\ Gift!Ends(t)
          /\ user' = [user EXCEPT !.amount = @ + 1]
          /\ given' = [given EXCEPT !.owed = @ + 1, !.charges = @ + 1]
          /\ UNCHANGED <<locking, shown, resets, excused, faults>>
        BY DEF Gift!GroupCharge, Gift!At, Gift!Config
    <1>2. PICK new \in TapType : /\ Steps(t, new) /\ new.pc = "idle" /\ new.on = "none"
                                 /\ new.saw = 0
        BY <1>1, Ended DEF GiftsInv
    <1>3. tap[t].on = "none"
        BY <1>1, PressedNothing
    <1>4. /\ user' \in UserType
          /\ user'.tested = user.tested /\ user'.played = user.played
          /\ user'.amount = user.amount + 1
        BY <1>1 DEF GiftsInv, GiftsTypeOK
    <1>5. /\ given' \in GivenType
          /\ given'.owed = given.owed + 1 /\ given'.charges = given.charges + 1
          /\ given'.draws = given.draws /\ given'.trials = given.trials
          /\ given'.rows = given.rows
        <2>1. /\ given \in GivenType
              /\ given.owed + 1 \in Nat /\ given.charges + 1 \in Nat
            BY DEF GiftsInv, GiftsTypeOK
        <2>2. given' = [given EXCEPT !.owed = given.owed + 1, !.charges = given.charges + 1]
            BY <1>1
        <2> QED BY <2>1, <2>2
    <1>6. GiftsTypeOK' /\ Presses'
        BY <1>1, <1>2, <1>4, <1>5, Typed DEF GiftsInv, GiftsTypeOK
    <1>7. TrialsCounted' /\ TrialsRecorded'
        <2>1. NotTrials(t, new)
            BY <1>1, <1>2, <1>4, <1>5 DEF NotTrials, TrialPlaces
        <2> QED BY <1>2, <2>1, TrialsUntouched
    <1>8. DrawsCounted'
        <2>1. NotGames(t, new)
            BY <1>1, <1>2, <1>3, <1>4, <1>5 DEF NotGames, Gift!Playing
        <2> QED BY <1>2, <2>1, DrawsUntouched
    <1>9. ChargesCounted'
        <2>1. /\ Count(tap, {"edit", "charge"}) = Count(tap', {"edit", "charge"}) + 1
              /\ Count(tap', {"edit"}) = Count(tap, {"edit"})
              /\ Counts /\ Counts'
            BY <1>1, <1>2, CountsTyped DEF Steps, Recount, In, Counts
        <2> QED BY <1>1, <1>5, <2>1 DEF GiftsInv, GiftsTypeOK, ChargesCounted, Counts
    <1>10. MoneyCounted'
        <2>1. \A x \in Taps : tap'[x].saw <= given.owed + 1
            <3>1. \A x \in Taps : tap[x].saw \in Nat /\ tap[x].saw <= given.owed
                BY DEF GiftsInv, MoneyCounted, GiftsTypeOK, TapType
            <3>2. given.owed \in Nat
                BY DEF GiftsInv, GiftsTypeOK
            <3> QED BY <1>2, <3>1, <3>2 DEF Steps
        <2>2. locking => \A x \in Taps : tap'[x].pc # "write"
            BY <1>2 DEF Steps, GiftsInv, MoneyCounted
        <2>3. user.amount <= given.owed /\ user.amount \in Nat /\ given.owed \in Nat
              /\ (locking => user.amount = given.owed)
            BY DEF GiftsInv, MoneyCounted, GiftsTypeOK
        <2> QED BY <1>1, <1>4, <1>5, <2>1, <2>2, <2>3 DEF MoneyCounted
    <1> QED BY <1>6, <1>7, <1>8, <1>9, <1>10 DEF GiftsInv

-----------------------------------------------------------------------------
(* What happens to any tap, and to all of them.                            *)

LEMMA DiesStep ==
    ASSUME FinitelyMany, GiftsInv, NEW t \in Taps, Gift!Dies(t)
    PROVE  GiftsInv'
    <1> DEFINE late == IF tap[t].pc = "rolled" THEN 1 ELSE 0
    <1>1. /\ Gift!Ends(t) /\ Gift!Excuse("draws", Gift!At(t, "rolled"))
          /\ shown' = [shown EXCEPT !.stale = @ \/ tap[t].on = "fresh",
                                    !.fresh = @ /\ tap[t].on # "fresh"]
          /\ UNCHANGED <<locking, user, given, resets>>
        BY DEF Gift!Dies, Gift!Config
    <1>2. faults' \in Nat /\ faults' # 0
        BY Failed DEF Gift!Dies, GiftsInv
    <1>3. PICK new \in TapType : /\ Steps(t, new) /\ new.pc = "idle" /\ new.on = "none"
                                 /\ new.saw = 0
        BY <1>1, Ended DEF GiftsInv
    <1>4. /\ excused' \in ExcusedType
          /\ excused'.draws = excused.draws + late
          /\ excused'.trials = excused.trials /\ excused'.charges = excused.charges
        <2>1. "draws" \in {"trials", "draws", "charges"}
            OBVIOUS
        <2>2. /\ excused' \in ExcusedType
              /\ excused'.trials = excused.trials + IF "draws" = "trials" /\ Gift!At(t, "rolled") THEN 1 ELSE 0
              /\ excused'.draws = excused.draws + IF "draws" = "draws" /\ Gift!At(t, "rolled") THEN 1 ELSE 0
              /\ excused'.charges = excused.charges + IF "draws" = "charges" /\ Gift!At(t, "rolled") THEN 1 ELSE 0
            BY <1>1, <2>1, Excused DEF GiftsInv
        <2> QED BY <2>2 DEF GiftsInv, GiftsTypeOK, Gift!At
    <1>5. /\ shown' \in ShownType
          /\ shown'.charge = shown.charge
          /\ shown'.fresh => shown.fresh /\ tap[t].on # "fresh"
        BY <1>1 DEF GiftsInv, GiftsTypeOK
    <1>6. UNCHANGED <<locking, user, given, resets>> /\ Counts /\ Counts'
        BY <1>1, CountsTyped
    <1>7. GiftsTypeOK' /\ Presses'
        BY <1>2, <1>3, <1>4, <1>5, <1>6, Typed DEF GiftsInv, GiftsTypeOK
    <1>8. TrialsCounted' /\ TrialsRecorded'
        <2>1. TrialsCounted'
            <3>1. CASE tap[t].pc \in {"mark", "create", "reset"}
                <4>1. Count(tap, {"mark", "create"}) + Count(tap, {"reset"})
                        = Count(tap', {"mark", "create"}) + Count(tap', {"reset"}) + 1
                    BY <1>3, <1>6, <3>1 DEF Steps, Recount, In, Counts
                <4> QED BY <1>4, <1>6, <4>1
                        DEF GiftsInv, GiftsTypeOK, TrialsCounted, Counts
            <3>2. CASE tap[t].pc \notin {"mark", "create", "reset"}
                <4>1. /\ Count(tap', {"mark", "create"}) = Count(tap, {"mark", "create"})
                      /\ Count(tap', {"reset"}) = Count(tap, {"reset"})
                      /\ Count(tap', {"mark"}) = Count(tap, {"mark"})
                    BY <1>3, <1>6, <3>2 DEF Steps, Recount, In, Counts
                <4> QED BY <1>4, <1>6, <4>1 DEF GiftsInv, TrialsCounted
            <3> QED BY <3>1, <3>2
        <2> QED BY <1>2, <2>1 DEF TrialsRecorded
    <1>9. DrawsCounted'
        <2>1. Unpressed \in {0, 1} /\ Unpressed' \in {0, 1}
            BY DEF Unpressed
        <2>2. Unpressed' <= Unpressed
            <3>1. shown'.fresh /\ (\A x \in Taps : tap'[x].on # "fresh")
                    => shown.fresh /\ \A x \in Taps : tap[x].on # "fresh"
                BY <1>3, <1>5 DEF Steps
            <3> QED BY <3>1 DEF Unpressed
        <2>3. CASE tap[t].pc \in {"roll", "menu"}
            <3>1. late = 0
                BY <2>3
            <3>2. Count(tap, {"roll", "menu"}) = Count(tap', {"roll", "menu"}) + 1
                BY <1>3, <1>6, <2>3 DEF Steps, Recount, In, Counts
            <3> HIDE DEF late
            <3> QED BY <1>4, <1>6, <2>1, <2>2, <3>1, <3>2
                    DEF GiftsInv, GiftsTypeOK, DrawsCounted, Counts
        <2>4. CASE tap[t].pc = "rolled"
            <3>1. late = 1
                BY <2>4
            <3>2. Count(tap', {"roll", "menu"}) = Count(tap, {"roll", "menu"})
                BY <1>3, <1>6, <2>4 DEF Steps, Recount, In, Counts
            <3> HIDE DEF late
            <3> QED BY <1>4, <1>6, <2>1, <2>2, <3>1, <3>2
                    DEF GiftsInv, GiftsTypeOK, DrawsCounted, Counts
        <2>5. CASE tap[t].pc \notin Gift!Playing
            <3>1. late = 0
                BY <2>5 DEF Gift!Playing
            <3>2. /\ Count(tap', {"roll", "menu"}) = Count(tap, {"roll", "menu"})
                  /\ Count(tap', Gift!Playing) = Count(tap, Gift!Playing)
                BY <1>3, <1>6, <2>5 DEF Steps, Recount, In, Counts, Gift!Playing
            <3> HIDE DEF late
            <3> QED BY <1>4, <1>6, <2>1, <2>2, <3>1, <3>2
                    DEF GiftsInv, GiftsTypeOK, DrawsCounted, Counts
        <2> QED BY <2>3, <2>4, <2>5 DEF Gift!Playing
    <1>10. ChargesCounted'
        <2>1. CASE tap[t].pc \in {"edit", "charge"}
            <3>1. Count(tap, {"edit", "charge"}) = Count(tap', {"edit", "charge"}) + 1
                BY <1>3, <1>6, <2>1 DEF Steps, Recount, In, Counts
            <3> QED BY <1>4, <1>6, <3>1 DEF GiftsInv, GiftsTypeOK, ChargesCounted, Counts
        <2>2. CASE tap[t].pc \notin {"edit", "charge"}
            <3>1. NotCharges(t, new)
                BY <1>3, <1>4, <1>5, <1>6, <2>2 DEF NotCharges
            <3> QED BY <1>3, <3>1, ChargesUntouched
        <2> QED BY <2>1, <2>2
    <1>11. MoneyCounted'
        <2>1. NotMoney(t, new)
            BY <1>3, <1>6 DEF NotMoney
        <2> QED BY <1>3, <2>1, MoneyUntouched
    <1> QED BY <1>7, <1>8, <1>9, <1>10, <1>11 DEF GiftsInv

LEMMA NewDayStep ==
    ASSUME FinitelyMany, GiftsInv, Gift!NewDay
    PROVE  GiftsInv'
    <1>1. /\ \A t \in Taps : tap[t].pc \notin Gift!Playing
          /\ user' = [user EXCEPT !.played = FALSE]
          /\ shown' = [shown EXCEPT !.fresh = FALSE, !.stale = @ \/ shown.fresh]
          /\ tap' = [t \in Taps |-> [tap[t] EXCEPT !.on = IF @ = "fresh" THEN "stale" ELSE @]]
          /\ given' = [given EXCEPT !.draws = 0]
          /\ excused' = [excused EXCEPT !.draws = 0]
          /\ UNCHANGED <<locking, resets, faults>>
        BY DEF Gift!NewDay, Gift!Config
    <1>2. /\ tap' \in [Taps -> TapType]
          /\ \A t \in Taps : /\ tap'[t].pc = tap[t].pc /\ tap'[t].saw = tap[t].saw
                             /\ tap'[t].on = "none" <=> tap[t].on = "none"
        <2>1. tap \in [Taps -> TapType]
            BY DEF GiftsInv, GiftsTypeOK
        <2>2. ASSUME NEW t \in Taps
              PROVE  /\ tap'[t] \in TapType /\ tap'[t].pc = tap[t].pc /\ tap'[t].saw = tap[t].saw
                     /\ tap'[t].on = "none" <=> tap[t].on = "none"
            <3> DEFINE new == IF tap[t].on = "fresh" THEN "stale" ELSE tap[t].on
            <3>1. tap[t] \in TapType
                BY <2>1
            <3>2. new \in {"none", "fresh", "stale"} /\ (new = "none" <=> tap[t].on = "none")
                BY <3>1 DEF TapType
            <3>3. tap'[t] = [tap[t] EXCEPT !.on = new]
                BY <1>1
            <3> HIDE DEF new
            <3> QED BY <3>1, <3>2, <3>3 DEF TapType
        <2>3. DOMAIN tap' = Taps /\ tap' = [t \in Taps |-> tap'[t]]
            BY <1>1
        <2> QED BY <2>2, <2>3
    <1>3. \A pcs : Count(tap', pcs) = Count(tap, pcs)
        BY <1>2, SamePlaces
    <1>4. /\ user' \in UserType
          /\ user'.tested = user.tested /\ user'.amount = user.amount
        BY <1>1 DEF GiftsInv, GiftsTypeOK
    <1>5. /\ shown' \in ShownType
          /\ shown'.charge = shown.charge /\ shown'.fresh = FALSE
        BY <1>1 DEF GiftsInv, GiftsTypeOK
    <1>6. /\ given' \in GivenType
          /\ given'.draws = 0 /\ given'.trials = given.trials /\ given'.rows = given.rows
          /\ given'.owed = given.owed /\ given'.charges = given.charges
        BY <1>1 DEF GiftsInv, GiftsTypeOK
    <1>7. /\ excused' \in ExcusedType
          /\ excused'.draws = 0 /\ excused'.trials = excused.trials
          /\ excused'.charges = excused.charges
        BY <1>1 DEF GiftsInv, GiftsTypeOK
    <1>8. UNCHANGED <<locking, resets, faults>>
        BY <1>1
    <1>9. GiftsTypeOK'
        BY <1>2, <1>4, <1>5, <1>6, <1>7, <1>8 DEF GiftsInv, GiftsTypeOK
    <1>10. Presses'
        BY <1>2 DEF GiftsInv, Presses
    <1>11. TrialsCounted' /\ TrialsRecorded'
        BY <1>3, <1>4, <1>6, <1>7, <1>8 DEF GiftsInv, TrialsCounted, TrialsRecorded
    <1>12. DrawsCounted'
        <2>1. Count(tap', {"roll", "menu"}) = 0
            <3>1. {t \in Taps : tap'[t].pc \in {"roll", "menu"}} = {}
                BY <1>1, <1>2 DEF Gift!Playing
            <3> QED BY <3>1, FS_EmptySet DEF Count
        <2>2. Unpressed' = 0
            BY <1>5 DEF Unpressed
        <2> QED BY <1>6, <1>7, <2>1, <2>2 DEF DrawsCounted
    <1>13. ChargesCounted'
        BY <1>3, <1>5, <1>6, <1>7 DEF GiftsInv, ChargesCounted
    <1>14. MoneyCounted'
        BY <1>2, <1>4, <1>6, <1>8 DEF GiftsInv, MoneyCounted
    <1> QED BY <1>9, <1>10, <1>11, <1>12, <1>13, <1>14 DEF GiftsInv

-----------------------------------------------------------------------------
(* The theorem.                                                            *)

LEMMA GiftsInit ==
    ASSUME FinitelyMany, Gift!Init
    PROVE  GiftsInv
    <1>1. \A t \in Taps : tap[t] = Gift!Idle
        BY DEF Gift!Init
    <1>2. GiftsTypeOK
        <2>1. tap \in [Taps -> TapType]
            BY IdleTyped DEF Gift!Init
        <2> QED BY <2>1 DEF Gift!Init, GiftsTypeOK
    <1>3. \A pcs : "idle" \notin pcs => Count(tap, pcs) = 0
        <2>1. ASSUME NEW pcs, "idle" \notin pcs
              PROVE  Count(tap, pcs) = 0
            <3>1. {t \in Taps : tap[t].pc \in pcs} = {}
                BY <1>1, <2>1, IdleTyped
            <3> QED BY <3>1, FS_EmptySet DEF Count
        <2> QED BY <2>1
    <1>4. /\ Count(tap, {"mark", "create"}) = 0 /\ Count(tap, {"reset"}) = 0
          /\ Count(tap, {"record"}) = 0 /\ Count(tap, {"roll", "menu"}) = 0
          /\ Count(tap, {"edit", "charge"}) = 0
        BY <1>3
    <1>5. Presses
        BY <1>1, IdleTyped DEF Presses
    <1>6. TrialsCounted /\ TrialsRecorded
        BY <1>4 DEF Gift!Init, TrialsCounted, TrialsRecorded
    <1>7. DrawsCounted
        <2>1. Unpressed = 0
            BY DEF Gift!Init, Unpressed
        <2> QED BY <1>4, <2>1 DEF Gift!Init, DrawsCounted
    <1>8. ChargesCounted
        BY <1>4 DEF Gift!Init, ChargesCounted
    <1>9. MoneyCounted
        BY <1>1, IdleTyped DEF Gift!Init, MoneyCounted
    <1> QED BY <1>2, <1>5, <1>6, <1>7, <1>8, <1>9 DEF GiftsInv

LEMMA GiftsStep ==
    ASSUME FinitelyMany, GiftsInv, [Gift!Next]_(Gift!vars)
    PROVE  GiftsInv'
    <1>1. CASE Gift!VerifyPhone \/ Gift!SwitchTrials \/ Gift!NewDay
        BY <1>1, VerifyPhoneStep, SwitchTrialsStep, NewDayStep
    <1>2. ASSUME NEW t \in Taps,
                 \/ Gift!FreeTrial(t) \/ Gift!PickPanel(t) \/ Gift!MarkTested(t) \/ Gift!CreateTrial(t) \/ Gift!RecordTrial(t)
                 \/ Gift!ListReset(t) \/ Gift!ResetTested(t)
          PROVE  GiftsInv'
        BY <1>2, FreeTrialStep, PickPanelStep, MarkTestedStep, CreateTrialStep, RecordTrialStep,
           ListResetStep, ResetTestedStep
    <1>3. ASSUME NEW t \in Taps,
                 \/ Gift!Play(t) \/ Gift!Roll(t) \/ Gift!RollStored(t) \/ Gift!OpenChoices(t) \/ Gift!CloseChoices(t)
                 \/ \E on \in {"fresh", "stale"} : Gift!Choose(t, on)
          PROVE  GiftsInv'
        BY <1>3, PlayStep, RollStep, RollStoredStep, OpenChoicesStep, CloseChoicesStep, ChooseStep
    <1>4. ASSUME NEW t \in Taps,
                 \/ Gift!AwardPrize(t) \/ Gift!WritePrize(t)
                 \/ Gift!ConfirmCharge(t) \/ Gift!TakeButtons(t) \/ Gift!GroupCharge(t) \/ Gift!Dies(t)
          PROVE  GiftsInv'
        BY <1>4, AwardPrizeStep, WritePrizeStep, ConfirmChargeStep, TakeButtonsStep,
           GroupChargeStep, DiesStep
    <1>5. CASE UNCHANGED Gift!vars
        <2>1. UNCHANGED <<locking, user, shown, tap, given, resets, excused, faults>>
            BY <1>5 DEF Gift!vars
        <2>2. user \in UserType
              /\ shown \in ShownType
            BY DEF GiftsInv, GiftsTypeOK
        <2> QED BY <2>1, <2>2, Elsewhere
    <1> QED BY <1>1, <1>2, <1>3, <1>4, <1>5 DEF Gift!Next

LEMMA GiftsInvOnce ==
    ASSUME FinitelyMany, GiftsInv
    PROVE  Gift!GiftsOnce
    <1>1. Counts /\ (Unpressed \in {0, 1})
        BY CountsTyped DEF Unpressed
    <1>2. Gift!TrialOnce
        <2>1. given.trials <= 1 + resets + excused.trials
            BY <1>1 DEF GiftsInv, GiftsTypeOK, TrialsCounted, Counts
        <2>2. ASSUME Gift!AtRest, faults = 0
              PROVE  given.rows = given.trials /\ (user.tested => given.trials > 0)
            <3>1. Count(tap, {"record"}) = 0 /\ Count(tap, {"create"}) = 0
                <4>1. /\ {t \in Taps : tap[t].pc \in {"record"}} = {}
                      /\ {t \in Taps : tap[t].pc \in {"create"}} = {}
                    BY <2>2 DEF Gift!AtRest, Gift!At
                <4> QED BY <4>1, FS_EmptySet DEF Count
            <3> QED BY <2>2, <3>1 DEF GiftsInv, GiftsTypeOK, TrialsRecorded
        <2> QED BY <2>1, <2>2 DEF Gift!TrialOnce
    <1>3. Gift!OneDrawPerDay
        BY <1>1 DEF GiftsInv, GiftsTypeOK, DrawsCounted, Counts, Gift!OneDrawPerDay
    <1>4. Gift!MoneyGivenOnce
        BY <1>1 DEF GiftsInv, GiftsTypeOK, ChargesCounted, MoneyCounted, Counts, Gift!MoneyGivenOnce
    <1> QED BY <1>2, <1>3, <1>4 DEF Gift!GiftsOnce

\* Whatever the number of taps, trials, draws and resets: a trial, a draw of the day and
\* a group charge are given once, but to the taps that overtake one another
\* (trial.py, games.py, wallets), and no balance is more than what was given.
THEOREM GiftsOnceAlways ==
    ASSUME FinitelyMany
    PROVE  Gift!Spec => []Gift!GiftsOnce
    <1>1. Gift!Init => GiftsInv
        BY GiftsInit
    <1>2. GiftsInv /\ [Gift!Next]_(Gift!vars) => GiftsInv'
        BY GiftsStep
    <1>3. GiftsInv => Gift!GiftsOnce
        BY GiftsInvOnce
    <1> QED BY <1>1, <1>2, <1>3, PTL DEF Gift!Spec
=============================================================================
