-------------------------- MODULE CardReceipts_proofs --------------------------
(***************************************************************************)
(* Proofs about card receipts for any number of photos, senders, reviews   *)
(* and transactions.                                                       *)
(***************************************************************************)
EXTENDS CardReceipts, FiniteSetTheorems, TLAPS

\* The bound is a number, and no photo is called "none".
Sizes == MAX_TXS \in Nat /\ "none" \notin Receipts

Statuses == {"none", "pending", "approved", "rejected", "needs_fix"}
Photos == Receipts \cup {"none"}
HashType == [linked : {FALSE}, tx : Nat, stored : BOOLEAN]
TxType == [status : Statuses, receipt : Photos, due : BOOLEAN]
SenderType == [pc : {"idle", "create", "schedule", "link"}, receipt : Photos,
               bot : BOOLEAN, tx : Nat]
AdminType == [pc : {"idle", "cancel", "write", "cancelled", "unhash"},
              op : {"rejectInBot", "reject", "fix"}, tx : Nat]

TypeInv ==
    /\ hashes \in [Receipts -> HashType] /\ txs \in [Txs -> TxType] /\ made \in 0..MAX_TXS
    /\ credits \in [Txs -> Nat]
    /\ sender \in [Senders -> SenderType] /\ admin \in [Admins -> AdminType]
    /\ job \subseteq Txs /\ auto \subseteq Txs /\ overruled \subseteq Txs
    /\ late \subseteq Receipts /\ faults \in Nat

\* Transactions are numbered as they are made; whoever works on one works on one
\* that was made, and of the photo he holds.
MadeInTurn ==
    /\ \A t \in Txs : txs[t].status # "none" <=> t <= made
    /\ \A t \in Txs : t > made => txs[t].receipt = "none"
    /\ \A t \in job \cup auto \cup overruled : t <= made
    /\ \A a \in Admins : admin[a].pc # "idle" => admin[a].tx \in 1..made
    /\ \A s \in Senders : sender[s].pc # "idle" => sender[s].receipt \in Receipts
    /\ \A s \in Senders : sender[s].pc \in {"schedule", "link"} =>
         sender[s].tx \in 1..made /\ txs[sender[s].tx].receipt = sender[s].receipt

Base == Sizes /\ TypeInv /\ MadeInTurn

-----------------------------------------------------------------------------
(* What each step writes.                                                  *)

LEMMA Sent ==
    ASSUME TypeInv, NEW s \in Senders, Send(s)
    PROVE  \E r \in Receipts :
             /\ ~hashes[r].stored /\ sender[s].pc = "idle"
             /\ sender'[s].pc = "create" /\ sender'[s].receipt = r /\ sender'[s].tx = 0
             /\ sender' \in [Senders -> SenderType]
             /\ \A x \in Senders : x # s => sender'[x] = sender[x]
             /\ r \in Unreadable => UNCHANGED hashes
             /\ r \notin Unreadable => hashes'[r].stored /\ hashes'[r].tx = hashes[r].tx
             /\ hashes' \in [Receipts -> HashType]
             /\ \A x \in Receipts \ {r} : hashes'[x] = hashes[x]
             /\ UNCHANGED <<txs, made, credits, admin, job, auto, overruled, late, faults>>
    <1>1. PICK r \in Receipts : ~hashes[r].stored /\ Sends(s, r)
        BY DEF Send
    <1>2. PICK bot \in BOOLEAN :
            sender' = [sender EXCEPT ![s] = [pc |-> "create", receipt |-> r, bot |-> bot, tx |-> 0]]
        BY <1>1 DEF Sends
    <1>3. /\ sender'[s] = [pc |-> "create", receipt |-> r, bot |-> bot, tx |-> 0]
          /\ \A x \in Senders : x # s => sender'[x] = sender[x]
        BY <1>2 DEF TypeInv
    <1> DEFINE new == [pc |-> "create", receipt |-> r, bot |-> bot, tx |-> 0]
    <1>7. new \in SenderType
        BY DEF SenderType, Photos
    <1>8. sender' = [sender EXCEPT ![s] = new]
        BY <1>2
    <1> HIDE DEF new
    <1>4. sender' \in [Senders -> SenderType]
        BY <1>7, <1>8 DEF TypeInv
    <1> USE DEF new
    <1>5. hashes' = IF r \in Unreadable THEN hashes ELSE [hashes EXCEPT ![r].stored = TRUE]
        BY <1>1 DEF Sends
    <1>6. /\ r \notin Unreadable => hashes'[r].stored /\ hashes'[r].tx = hashes[r].tx
          /\ hashes' \in [Receipts -> HashType]
          /\ \A x \in Receipts \ {r} : hashes'[x] = hashes[x]
        BY <1>5 DEF TypeInv, HashType
    <1> QED BY <1>1, <1>3, <1>4, <1>5, <1>6 DEF Send, Sends

LEMMA Created ==
    ASSUME Base, NEW s \in Senders, Create(s)
    PROVE  /\ made' = made + 1 /\ made' \in Txs /\ sender[s].pc = "create"
           /\ txs'[made'].status = "pending" /\ txs'[made'].receipt = sender[s].receipt
           /\ ~txs'[made'].due
           /\ \A u \in Txs : u # made' => txs'[u] = txs[u]
           /\ txs' \in [Txs -> TxType]
           /\ sender[s].bot => sender'[s].pc = "schedule"
           /\ ~sender[s].bot => sender'[s].pc = "link"
           /\ sender'[s].receipt = sender[s].receipt /\ sender'[s].bot = sender[s].bot
           /\ sender'[s].tx = made' /\ sender' \in [Senders -> SenderType]
           /\ \A x \in Senders : x # s => sender'[x] = sender[x]
           /\ UNCHANGED <<hashes, credits, admin, job, auto, overruled, late, faults>>
    <1>1. made + 1 \in Txs /\ made \in Nat
        BY DEF Base, Sizes, TypeInv, Txs, Create
    <1>2. /\ txs' = [txs EXCEPT ![made + 1] =
                       [status |-> "pending", receipt |-> sender[s].receipt, due |-> FALSE]]
          /\ made' = made + 1 /\ sender[s].pc = "create"
          /\ UNCHANGED <<hashes, credits, admin, job, auto, overruled, late, faults>>
        BY DEF Create
    <1>3. /\ txs'[made + 1] = [status |-> "pending", receipt |-> sender[s].receipt, due |-> FALSE]
          /\ \A u \in Txs : u # made + 1 => txs'[u] = txs[u]
          /\ txs' \in [Txs -> TxType]
        BY <1>1, <1>2 DEF Base, TypeInv, TxType, Statuses, SenderType
    <1> DEFINE pc == IF sender[s].bot THEN "schedule" ELSE "link"
               t == made + 1
    <1>4. sender' = [sender EXCEPT ![s].tx = t, ![s].pc = pc]
        BY DEF Create
    <1>5. pc \in {"schedule", "link"} /\ t \in Nat
        BY <1>1
    <1> HIDE DEF pc, t
    <1>6. /\ sender'[s].pc = pc /\ sender'[s].tx = t /\ sender'[s].receipt = sender[s].receipt
          /\ sender'[s].bot = sender[s].bot /\ sender' \in [Senders -> SenderType]
          /\ \A x \in Senders : x # s => sender'[x] = sender[x]
        BY <1>4, <1>5 DEF Base, TypeInv, SenderType
    <1> QED BY <1>1, <1>2, <1>3, <1>6 DEF pc, t

LEMMA Moved ==
    ASSUME TypeInv, NEW s \in Senders, NEW pc \in {"idle", "create", "schedule", "link"}, Goes(s, pc)
    PROVE  /\ sender' \in [Senders -> SenderType] /\ sender'[s].pc = pc
           /\ sender'[s].receipt = sender[s].receipt /\ sender'[s].bot = sender[s].bot
           /\ sender'[s].tx = sender[s].tx
           /\ \A x \in Senders : x # s => sender'[x] = sender[x]
    BY DEF Goes, TypeInv, SenderType

LEMMA Rests ==
    ASSUME TypeInv, NEW s \in Senders, sender' = [sender EXCEPT ![s] = IdleSender]
    PROVE  /\ sender'[s] = IdleSender /\ sender' \in [Senders -> SenderType]
           /\ \A x \in Senders : x # s => sender'[x] = sender[x]
    BY DEF TypeInv, SenderType, IdleSender, Photos

LEMMA Scheduled ==
    ASSUME Base, NEW s \in Senders, Schedule(s)
    PROVE  /\ sender[s].pc = "schedule" /\ sender[s].tx \in 1..made /\ sender[s].tx \in Txs
           /\ \A u \in Txs : /\ txs'[u].status = txs[u].status /\ txs'[u].receipt = txs[u].receipt
                             /\ txs'[u].due => txs[u].due \/ (u = sender[s].tx /\ sender[s].receipt \notin Unreadable)
           /\ txs' \in [Txs -> TxType]
           /\ sender' \in [Senders -> SenderType]
           /\ IF sender[s].bot THEN /\ sender'[s].pc = "link" /\ sender'[s].receipt = sender[s].receipt
                                    /\ sender'[s].tx = sender[s].tx
                               ELSE sender'[s] = IdleSender
           /\ \A x \in Senders : x # s => sender'[x] = sender[x]
           /\ UNCHANGED <<hashes, made, credits, admin, job, auto, overruled, late, faults>>
    <1>1. sender[s].pc = "schedule" /\ sender[s].tx \in 1..made /\ sender[s].tx \in Txs
        BY DEF Schedule, Base, MadeInTurn, TypeInv, Sizes, Txs
    <1> DEFINE t == sender[s].tx
    <1>2. PICK due \in BOOLEAN : /\ due => sender[s].receipt \notin Unreadable
                                 /\ txs' = [txs EXCEPT ![t].due = @ \/ due]
        BY DEF Schedule
    <1> DEFINE new == txs[t].due \/ due
    <1>3. new \in BOOLEAN /\ txs' = [txs EXCEPT ![t].due = new]
        BY <1>1, <1>2 DEF Base, TypeInv, TxType
    <1> HIDE DEF new, t
    <1>4. /\ \A u \in Txs : /\ txs'[u].status = txs[u].status /\ txs'[u].receipt = txs[u].receipt
                            /\ txs'[u].due => txs[u].due \/ (u = t /\ new)
          /\ txs' \in [Txs -> TxType]
        BY <1>3 DEF Base, TypeInv, TxType
    <1>5. new => txs[t].due \/ sender[s].receipt \notin Unreadable
        BY <1>2 DEF new
    <1>6. /\ sender' \in [Senders -> SenderType]
          /\ IF sender[s].bot THEN /\ sender'[s].pc = "link" /\ sender'[s].receipt = sender[s].receipt
                                   /\ sender'[s].tx = sender[s].tx
                              ELSE sender'[s] = IdleSender
          /\ \A x \in Senders : x # s => sender'[x] = sender[x]
        <2>1. CASE sender[s].bot
            <3>1. Goes(s, "link")
                BY <2>1 DEF Schedule
            <3> QED BY <2>1, <3>1, Moved DEF Base
        <2>2. CASE ~sender[s].bot
            <3>1. sender' = [sender EXCEPT ![s] = IdleSender]
                BY <2>2 DEF Schedule
            <3> QED BY <2>2, <3>1, Rests DEF Base
        <2> QED BY <2>1, <2>2
    <1> QED BY <1>1, <1>4, <1>5, <1>6 DEF Schedule, t

LEMMA Linked ==
    ASSUME Base, NEW s \in Senders, Link(s)
    PROVE  /\ sender[s].pc = "link" /\ sender[s].receipt \in Receipts
           /\ sender[s].tx \in 1..made /\ sender[s].tx \in Txs
           /\ \A x \in Receipts \ {sender[s].receipt} : hashes'[x] = hashes[x]
           /\ LET r == sender[s].receipt
              IN  /\ hashes' \in [Receipts -> HashType] /\ hashes'[r].stored = hashes[r].stored
                  /\ hashes'[r].tx = IF hashes[r].stored THEN sender[s].tx ELSE hashes[r].tx
                  /\ late' = IF txs[sender[s].tx].status = "needs_fix" THEN late \cup {r} ELSE late
           /\ sender' \in [Senders -> SenderType]
           /\ IF sender[s].bot THEN sender'[s] = IdleSender
              ELSE /\ sender'[s].pc = "schedule" /\ sender'[s].receipt = sender[s].receipt
                   /\ sender'[s].tx = sender[s].tx /\ ~sender'[s].bot
           /\ \A x \in Senders : x # s => sender'[x] = sender[x]
           /\ UNCHANGED <<txs, made, credits, admin, job, auto, overruled, faults>>
    <1>1. /\ sender[s].pc = "link" /\ sender[s].receipt \in Receipts
          /\ sender[s].tx \in 1..made /\ sender[s].tx \in Txs
        BY DEF Link, Base, MadeInTurn, TypeInv, Sizes, Txs
    <1> DEFINE r == sender[s].receipt
    <1>2. hashes' = IF hashes[r].stored THEN [hashes EXCEPT ![r].tx = sender[s].tx] ELSE hashes
        BY DEF Link
    <1>3. /\ \A x \in Receipts \ {r} : hashes'[x] = hashes[x]
          /\ hashes' \in [Receipts -> HashType] /\ hashes'[r].stored = hashes[r].stored
          /\ hashes'[r].tx = IF hashes[r].stored THEN sender[s].tx ELSE hashes[r].tx
        BY <1>1, <1>2 DEF Base, TypeInv, HashType, SenderType
    <1>4. /\ sender' \in [Senders -> SenderType]
          /\ IF sender[s].bot THEN sender'[s] = IdleSender
             ELSE /\ sender'[s].pc = "schedule" /\ sender'[s].receipt = sender[s].receipt
                  /\ sender'[s].tx = sender[s].tx /\ ~sender'[s].bot
          /\ \A x \in Senders : x # s => sender'[x] = sender[x]
        <2>1. CASE sender[s].bot
            <3>1. sender' = [sender EXCEPT ![s] = IdleSender]
                BY <2>1 DEF Link
            <3> QED BY <2>1, <3>1, Rests DEF Base
        <2>2. CASE ~sender[s].bot
            <3>1. Goes(s, "schedule")
                BY <2>2 DEF Link
            <3> QED BY <2>2, <3>1, Moved DEF Base
        <2> QED BY <2>1, <2>2
    <1> QED BY <1>1, <1>3, <1>4 DEF Link

LEMMA WasApproved ==
    ASSUME TypeInv, NEW t \in Txs, Approved(t)
    PROVE  /\ txs[t].status = "pending" /\ txs'[t].status = "approved" /\ ~txs'[t].due
           /\ credits'[t] = credits[t] + 1
           /\ \A u \in Txs : u # t => txs'[u] = txs[u] /\ credits'[u] = credits[u]
           /\ txs'[t].receipt = txs[t].receipt
           /\ txs' \in [Txs -> TxType] /\ credits' \in [Txs -> Nat]
    <1>1. /\ txs' = [txs EXCEPT ![t].status = "approved", ![t].due = FALSE]
          /\ credits' = [credits EXCEPT ![t] = @ + 1] /\ txs[t].status = "pending"
        BY DEF Approved, Pending
    <1>2. /\ txs' \in [Txs -> TxType]
          /\ txs'[t].status = "approved" /\ ~txs'[t].due /\ txs'[t].receipt = txs[t].receipt
          /\ \A u \in Txs : u # t => txs'[u] = txs[u]
        BY <1>1 DEF TypeInv, TxType, Statuses
    <1>3. /\ credits' \in [Txs -> Nat] /\ credits'[t] = credits[t] + 1
          /\ \A u \in Txs : u # t => credits'[u] = credits[u]
        BY <1>1 DEF TypeInv
    <1> QED BY <1>1, <1>2, <1>3

LEMMA Reviewed ==
    ASSUME Base, NEW a \in Admins, NEW t \in Txs, Review(a, t)
    PROVE  /\ txs[t].status = "pending" /\ admin[a].pc = "idle"
           /\ admin' \in [Admins -> AdminType] /\ admin'[a].tx = t /\ admin'[a].pc \in {"cancel", "write"}
           /\ \A x \in Admins : x # a => admin'[x] = admin[x]
           /\ UNCHANGED <<hashes, txs, made, credits, sender, job, auto, overruled, late, faults>>
    <1>1. PICK op \in {"rejectInBot", "reject", "fix"} :
            admin' = [admin EXCEPT ![a] =
              [pc |-> IF op = "rejectInBot" THEN "cancel" ELSE "write", op |-> op, tx |-> t]]
        BY DEF Review
    <1> DEFINE pc == IF op = "rejectInBot" THEN "cancel" ELSE "write"
    <1>2. pc \in {"cancel", "write"} /\ t \in Nat
        BY DEF Txs
    <1>3. /\ admin'[a] = [pc |-> pc, op |-> op, tx |-> t]
          /\ \A x \in Admins : x # a => admin'[x] = admin[x]
        BY <1>1 DEF Base, TypeInv
    <1> HIDE DEF pc
    <1>4. [pc |-> pc, op |-> op, tx |-> t] \in AdminType
        BY <1>2 DEF AdminType
    <1>5. admin' = [admin EXCEPT ![a] = [pc |-> pc, op |-> op, tx |-> t]]
        BY <1>1 DEF pc
    <1>6. admin' \in [Admins -> AdminType]
        BY <1>4, <1>5 DEF Base, TypeInv
    <1> QED BY <1>2, <1>3, <1>6 DEF Review, Pending

LEMMA Cancelled ==
    ASSUME Base, NEW a \in Admins, CancelSchedule(a)
    PROVE  /\ admin[a].pc \in {"cancel", "cancelled"}
           /\ admin[a].tx \in 1..made /\ admin[a].tx \in Txs
           /\ \A u \in Txs : /\ txs'[u].status = txs[u].status /\ txs'[u].receipt = txs[u].receipt
                             /\ txs'[u].due => txs[u].due
           /\ txs' \in [Txs -> TxType]
           /\ admin' \in [Admins -> AdminType]
           /\ \/ admin'[a].pc = "write" /\ admin[a].pc = "cancel"
              \/ /\ admin[a].pc = "cancelled" /\ admin[a].op = "fix" /\ admin'[a].pc = "unhash"
              \/ admin[a].op # "fix" /\ admin'[a].pc = "idle"
           /\ admin'[a].pc # "idle" => admin'[a].tx = admin[a].tx /\ admin'[a].op = admin[a].op
           /\ \A x \in Admins : x # a => admin'[x] = admin[x]
           /\ UNCHANGED <<hashes, made, credits, sender, job, auto, overruled, late, faults>>
    <1>1. /\ admin[a].pc \in {"cancel", "cancelled"}
          /\ admin[a].tx \in 1..made /\ admin[a].tx \in Txs
        BY DEF CancelSchedule, Base, MadeInTurn, TypeInv, Sizes, Txs
    <1> DEFINE t == admin[a].tx
    <1>2. txs' = [txs EXCEPT ![t].due = FALSE]
        BY DEF CancelSchedule
    <1>3. /\ \A u \in Txs : /\ txs'[u].status = txs[u].status /\ txs'[u].receipt = txs[u].receipt
                            /\ txs'[u].due => txs[u].due
          /\ txs' \in [Txs -> TxType]
        BY <1>1, <1>2 DEF Base, TypeInv, TxType
    <1> DEFINE new == IF admin[a].pc = "cancel" THEN [admin[a] EXCEPT !.pc = "write"]
                      ELSE IF admin[a].op = "fix" THEN [admin[a] EXCEPT !.pc = "unhash"] ELSE IdleAdmin
    <1>4. admin' = [admin EXCEPT ![a] = new]
        BY DEF CancelSchedule, Base, TypeInv
    <1>5. admin'[a] = new /\ \A x \in Admins : x # a => admin'[x] = admin[x]
        BY <1>4 DEF Base, TypeInv
    <1>6. admin[a] \in AdminType
        BY DEF Base, TypeInv
    <1>10. new \in AdminType
        BY <1>6 DEF AdminType, IdleAdmin
    <1>11. admin' \in [Admins -> AdminType]
        <2> HIDE DEF new
        <2> QED BY <1>4, <1>10 DEF Base, TypeInv
    <1>7. CASE admin[a].pc = "cancel"
        <2>1. new = [admin[a] EXCEPT !.pc = "write"]
            BY <1>7
        <2> QED BY <1>1, <1>3, <1>5, <1>6, <1>7, <1>11, <2>1 DEF CancelSchedule, AdminType
    <1>8. CASE admin[a].pc = "cancelled" /\ admin[a].op = "fix"
        <2>1. new = [admin[a] EXCEPT !.pc = "unhash"]
            BY <1>8
        <2> QED BY <1>1, <1>3, <1>5, <1>6, <1>8, <1>11, <2>1 DEF CancelSchedule, AdminType
    <1>9. CASE admin[a].pc = "cancelled" /\ admin[a].op # "fix"
        <2>1. new = IdleAdmin
            BY <1>9
        <2> QED BY <1>1, <1>3, <1>5, <1>9, <1>11, <2>1 DEF CancelSchedule, IdleAdmin
    <1> QED BY <1>1, <1>7, <1>8, <1>9

LEMMA Written ==
    ASSUME Base, NEW a \in Admins, Write(a)
    PROVE  /\ admin[a].pc = "write" /\ admin[a].tx \in 1..made /\ admin[a].tx \in Txs
           /\ admin[a].op = "fix" => txs'[admin[a].tx].status = "needs_fix"
           /\ admin[a].op # "fix" => txs'[admin[a].tx].status = "rejected"
           /\ txs'[admin[a].tx].receipt = txs[admin[a].tx].receipt
           /\ txs'[admin[a].tx].due => txs[admin[a].tx].due
           /\ txs' \in [Txs -> TxType]
           /\ \A u \in Txs : u # admin[a].tx => txs'[u] = txs[u]
           /\ txs[admin[a].tx].status = "pending" => overruled' = overruled
           /\ txs[admin[a].tx].status # "pending" => overruled' = overruled \cup {admin[a].tx}
           /\ admin' \in [Admins -> AdminType]
           /\ \/ admin'[a].pc = "idle" /\ admin[a].op # "fix"
              \/ admin'[a].pc = "cancelled" /\ admin'[a].op = admin[a].op /\ admin'[a].tx = admin[a].tx
           /\ \A x \in Admins : x # a => admin'[x] = admin[x]
           /\ UNCHANGED <<hashes, made, credits, sender, job, auto, late, faults>>
    <1>1. admin[a].pc = "write" /\ admin[a].tx \in 1..made /\ admin[a].tx \in Txs
        BY DEF Write, Base, MadeInTurn, TypeInv, Sizes, Txs
    <1> DEFINE t == admin[a].tx
               to == IF admin[a].op = "fix" THEN "needs_fix" ELSE "rejected"
               due == txs[t].due /\ ~(admin[a].op = "fix")
               new == IF admin[a].op = "rejectInBot" THEN IdleAdmin
                      ELSE [admin[a] EXCEPT !.pc = "cancelled"]
    <1>2. /\ txs' = [txs EXCEPT ![t].status = to, ![t].due = due]
          /\ admin' = [admin EXCEPT ![a] = new]
          /\ overruled' = IF Pending(t) THEN overruled ELSE overruled \cup {t}
          /\ UNCHANGED <<hashes, made, credits, sender, job, auto, late, faults>>
        BY <1>1 DEF Write, Base, TypeInv, TxType
    <1>3. to \in Statuses /\ due \in BOOLEAN /\ (due => txs[t].due)
        BY DEF Statuses
    <1>4. /\ admin'[a] = new /\ \A x \in Admins : x # a => admin'[x] = admin[x]
          /\ admin[a] \in AdminType
        BY <1>2 DEF Base, TypeInv
    <1>7. new \in AdminType
        BY <1>4 DEF AdminType, IdleAdmin
    <1>8. admin' \in [Admins -> AdminType]
        <2> HIDE DEF new
        <2> QED BY <1>2, <1>7 DEF Base, TypeInv
    <1>5. /\ admin' \in [Admins -> AdminType]
          /\ \/ admin'[a].pc = "idle" /\ admin[a].op # "fix"
             \/ admin'[a].pc = "cancelled" /\ admin'[a].op = admin[a].op /\ admin'[a].tx = admin[a].tx
        <2>1. CASE admin[a].op = "rejectInBot"
            BY <1>4, <1>8, <2>1 DEF IdleAdmin
        <2>2. CASE admin[a].op # "rejectInBot"
            BY <1>4, <1>8, <2>2 DEF AdminType
        <2> QED BY <2>1, <2>2
    <1> HIDE DEF due, to
    <1>6. /\ txs'[t].status = to /\ txs'[t].receipt = txs[t].receipt /\ txs'[t].due = due
          /\ txs' \in [Txs -> TxType] /\ \A u \in Txs : u # t => txs'[u] = txs[u]
        BY <1>1, <1>2, <1>3 DEF Base, TypeInv, TxType
    <1> QED BY <1>1, <1>2, <1>3, <1>4, <1>5, <1>6 DEF to, Pending

LEMMA Unhashed ==
    ASSUME Base, NEW a \in Admins, Unhash(a)
    PROVE  /\ admin[a].pc = "unhash" /\ admin[a].tx \in 1..made /\ admin[a].tx \in Txs
           /\ hashes' \in [Receipts -> HashType]
           /\ \A r \in Receipts :
                hashes'[r] = IF hashes[r].stored /\ hashes[r].tx = admin[a].tx
                             THEN Absent ELSE hashes[r]
           /\ admin'[a] = IdleAdmin /\ admin' \in [Admins -> AdminType]
           /\ \A x \in Admins : x # a => admin'[x] = admin[x]
           /\ UNCHANGED <<txs, made, credits, sender, job, auto, overruled, late, faults>>
    <1>1. admin[a].pc = "unhash" /\ admin[a].tx \in 1..made /\ admin[a].tx \in Txs
        BY DEF Unhash, Base, MadeInTurn, TypeInv, Sizes, Txs
    <1>2. \A r \in Receipts :
            hashes'[r] = IF hashes[r].stored /\ hashes[r].tx = admin[a].tx THEN Absent ELSE hashes[r]
        BY DEF Unhash
    <1>3. Absent \in HashType /\ \A r \in Receipts : hashes[r] \in HashType
        BY DEF Base, TypeInv, HashType, Absent
    <1>4. IdleAdmin \in AdminType
        BY DEF IdleAdmin, AdminType
    <1>5. admin'[a] = IdleAdmin /\ \A x \in Admins : x # a => admin'[x] = admin[x]
        BY DEF Unhash, Base, TypeInv
    <1>6. admin' \in [Admins -> AdminType]
        BY <1>4 DEF Unhash, Base, TypeInv
    <1>7. hashes' \in [Receipts -> HashType]
        BY <1>3 DEF Unhash
    <1> QED BY <1>1, <1>2, <1>5, <1>6, <1>7 DEF Unhash

LEMMA JobApproved ==
    ASSUME TypeInv, NEW t \in Txs, JobApproves(t)
    PROVE  /\ t \in job /\ job' = job \ {t}
           /\ \/ UNCHANGED <<txs, credits, auto>>
              \/ Approved(t) /\ auto' = auto \cup {t}
           /\ UNCHANGED <<hashes, made, sender, admin, overruled, late, faults>>
    <1>1. CASE Pending(t)
        BY <1>1 DEF JobApproves
    <1>2. CASE ~Pending(t)
        BY <1>2 DEF JobApproves
    <1> QED BY <1>1, <1>2

LEMMA Restarted ==
    ASSUME Restart
    PROVE  /\ sender' \in [Senders -> SenderType] /\ \A s \in Senders : sender'[s] = IdleSender
           /\ admin' \in [Admins -> AdminType] /\ \A a \in Admins : admin'[a] = IdleAdmin
    BY DEF Restart, SenderType, AdminType, IdleSender, IdleAdmin, Photos

-----------------------------------------------------------------------------
(* Types, and the numbering of the transactions.                           *)

LEMMA BaseInit == ASSUME Sizes, Init PROVE TypeInv /\ MadeInTurn
    <1>1. Absent \in HashType /\ NoTx \in TxType /\ IdleSender \in SenderType
          /\ IdleAdmin \in AdminType
        BY DEF Absent, HashType, NoTx, TxType, Statuses, Photos, IdleSender, SenderType,
               IdleAdmin, AdminType
    <1>2. TypeInv
        BY <1>1 DEF Init, TypeInv, Sizes
    <1>3. MadeInTurn
        BY DEF Init, MadeInTurn, NoTx, IdleSender, IdleAdmin, Txs
    <1> QED BY <1>2, <1>3

LEMMA BaseStep == ASSUME Base, [Next]_vars PROVE TypeInv' /\ MadeInTurn'
    <1> USE DEF Base
    <1>1. ASSUME NEW s \in Senders, Send(s) PROVE TypeInv' /\ MadeInTurn'
        <2>1. PICK r \in Receipts :
                 /\ sender'[s].pc = "create" /\ sender'[s].receipt = r
                 /\ sender' \in [Senders -> SenderType] /\ hashes' \in [Receipts -> HashType]
                 /\ \A x \in Senders : x # s => sender'[x] = sender[x]
                 /\ UNCHANGED <<txs, made, credits, admin, job, auto, overruled, late, faults>>
            BY <1>1, Sent
        <2>2. TypeInv'
            BY <2>1 DEF TypeInv
        <2>3. MadeInTurn'
            BY <2>1 DEF MadeInTurn
        <2> QED BY <2>2, <2>3
    <1>2. ASSUME NEW s \in Senders, Create(s) PROVE TypeInv' /\ MadeInTurn'
        <2> DEFINE m == made'
        <2>10. /\ m \in Txs /\ made' = m /\ m = made + 1 /\ txs'[m].status = "pending"
               /\ txs'[m].receipt = sender[s].receipt
               /\ \A u \in Txs : u # m => txs'[u] = txs[u]
               /\ txs' \in [Txs -> TxType] /\ sender' \in [Senders -> SenderType]
               /\ sender'[s].tx = m /\ sender'[s].receipt = sender[s].receipt
               /\ \A x \in Senders : x # s => sender'[x] = sender[x]
               /\ UNCHANGED <<hashes, credits, admin, job, auto, overruled, late, faults>>
            BY <1>2, Created
        <2>11. m \in 0..MAX_TXS /\ m = made + 1
            BY <2>10 DEF Txs, TypeInv, Sizes
        <2> HIDE DEF m
        <2>1. TypeInv'
            BY <2>10, <2>11 DEF TypeInv
        <2>2. made \in Nat /\ \A t \in Txs : t \in Nat
            BY DEF TypeInv, Txs
        <2>3. /\ \A t \in Txs : t # m => (t <= m <=> t <= made)
              /\ m <= m /\ ~(m > m) /\ \A t \in Txs : t > m => t > made /\ t # m
            BY <2>2, <2>11
        <2>4. \A t \in Txs : txs'[t].status # "none" <=> t <= m
            BY <2>3, <2>10 DEF MadeInTurn
        <2>5. \A t \in Txs : t > m => txs'[t].receipt = "none"
            BY <2>3, <2>10 DEF MadeInTurn
        <2>6. \A t \in job \cup auto \cup overruled : t <= m
            BY <2>2, <2>11 DEF MadeInTurn, TypeInv
        <2>7. \A a \in Admins : admin[a].pc # "idle" => admin[a].tx \in 1..m
            BY <2>2, <2>11 DEF MadeInTurn
        <2>8. \A x \in Senders : sender'[x].pc # "idle" => sender'[x].receipt \in Receipts
            <3>1. sender[s].receipt \in Receipts
                BY <1>2 DEF Create, MadeInTurn
            <3> QED BY <1>2, <3>1, Created DEF MadeInTurn
        <2>9. \A x \in Senders : sender'[x].pc \in {"schedule", "link"} =>
                sender'[x].tx \in 1..m /\ txs'[sender'[x].tx].receipt = sender'[x].receipt
            <3>1. sender'[s].tx \in 1..m /\ txs'[sender'[s].tx].receipt = sender'[s].receipt
                BY <2>2, <2>10, <2>11
            <3>2. ASSUME NEW x \in Senders \ {s}, sender'[x].pc \in {"schedule", "link"}
                  PROVE  sender'[x].tx \in 1..m /\ txs'[sender'[x].tx].receipt = sender'[x].receipt
                <4>1. sender'[x] = sender[x]
                    BY <1>2, Created
                <4>2. sender[x].tx \in 1..made /\ txs[sender[x].tx].receipt = sender[x].receipt
                    BY <3>2, <4>1 DEF MadeInTurn
                <4>3. sender[x].tx \in Txs /\ sender[x].tx # m /\ sender[x].tx \in 1..m
                    BY <2>2, <2>11, <4>2 DEF Txs, TypeInv, Sizes
                <4> QED BY <2>10, <4>1, <4>2, <4>3
            <3> QED BY <3>1, <3>2
        <2> QED BY <2>1, <2>4, <2>5, <2>6, <2>7, <2>8, <2>9, <2>10 DEF MadeInTurn
    <1>3. ASSUME NEW s \in Senders, Schedule(s) PROVE TypeInv' /\ MadeInTurn'
        <2>1. TypeInv'
            BY <1>3, Scheduled DEF TypeInv
        <2>2. \A x \in Senders : sender'[x].pc # "idle" =>
                 /\ sender[x].pc # "idle" /\ sender'[x].receipt = sender[x].receipt
                 /\ sender'[x].tx = sender[x].tx
                 /\ sender'[x].pc \in {"schedule", "link"} => sender[x].pc \in {"schedule", "link"}
            <3>1. CASE sender[s].bot
                BY <1>3, <3>1, Scheduled
            <3>2. CASE ~sender[s].bot
                BY <1>3, <3>2, Scheduled DEF IdleSender
            <3> QED BY <3>1, <3>2
        <2>3. \A u \in Txs : txs'[u].status = txs[u].status /\ txs'[u].receipt = txs[u].receipt
            BY <1>3, Scheduled
        <2>4. UNCHANGED <<made, admin, job, auto, overruled>>
            BY <1>3, Scheduled
        <2>5. \A x \in Senders : sender'[x].pc \in {"schedule", "link"} =>
                sender'[x].tx \in 1..made /\ txs'[sender'[x].tx].receipt = sender'[x].receipt
            <3>1. 1..made \subseteq Txs
                BY DEF TypeInv, Txs, Sizes
            <3> QED BY <2>2, <2>3, <3>1 DEF MadeInTurn
        <2> QED BY <2>1, <2>2, <2>3, <2>4, <2>5 DEF MadeInTurn
    <1>4. ASSUME NEW s \in Senders, Link(s) PROVE TypeInv' /\ MadeInTurn'
        <2>1. TypeInv'
            BY <1>4, Linked DEF TypeInv
        <2>2. \A x \in Senders : sender'[x].pc # "idle" =>
                 /\ sender[x].pc # "idle" /\ sender'[x].receipt = sender[x].receipt
                 /\ sender'[x].tx = sender[x].tx
                 /\ sender'[x].pc \in {"schedule", "link"} => sender[x].pc \in {"schedule", "link"}
            <3>1. CASE sender[s].bot
                BY <1>4, <3>1, Linked DEF IdleSender
            <3>2. CASE ~sender[s].bot
                BY <1>4, <3>2, Linked
            <3> QED BY <3>1, <3>2
        <2>3. UNCHANGED <<txs, made, admin, job, auto, overruled>>
            BY <1>4, Linked
        <2> QED BY <2>1, <2>2, <2>3 DEF MadeInTurn
    <1>5. ASSUME NEW t \in Txs, Approved(t), auto' \in {auto, auto \cup {t}}, job' \subseteq job,
                 UNCHANGED <<hashes, made, sender, admin, overruled, late, faults>>
          PROVE  TypeInv' /\ MadeInTurn'
        <2>1. TypeInv'
            BY <1>5, WasApproved DEF TypeInv
        <2>2. t <= made /\ \A u \in Txs : /\ txs'[u].status # "none" <=> txs[u].status # "none"
                                         /\ txs'[u].receipt = txs[u].receipt
            BY <1>5, WasApproved DEF MadeInTurn
        <2>3. 1..made \subseteq Txs
            BY DEF TypeInv, Txs, Sizes
        <2>4. \A x \in Senders : sender'[x].pc \in {"schedule", "link"} =>
                sender'[x].tx \in 1..made /\ txs'[sender'[x].tx].receipt = sender'[x].receipt
            BY <1>5, <2>2, <2>3 DEF MadeInTurn
        <2> QED BY <1>5, <2>1, <2>2, <2>4 DEF MadeInTurn
    <1>6. ASSUME NEW t \in Txs, Approve(t) PROVE TypeInv' /\ MadeInTurn'
        BY <1>5, <1>6 DEF Approve
    <1>7. ASSUME NEW t \in Txs, JobApproves(t) PROVE TypeInv' /\ MadeInTurn'
        <2>1. CASE UNCHANGED <<txs, credits, auto>>
            BY <1>7, <2>1, JobApproved DEF TypeInv, MadeInTurn
        <2>2. CASE Approved(t) /\ auto' = auto \cup {t}
            BY <1>5, <1>7, <2>2, JobApproved
        <2> QED BY <1>7, <2>1, <2>2, JobApproved
    <1>8. ASSUME NEW a \in Admins, NEW t \in Txs, Review(a, t) PROVE TypeInv' /\ MadeInTurn'
        <2>1. t \in 1..made
            BY <1>8, Reviewed DEF MadeInTurn, Txs, TypeInv
        <2>2. TypeInv'
            BY <1>8, Reviewed DEF TypeInv
        <2> QED BY <1>8, <2>1, <2>2, Reviewed DEF MadeInTurn
    <1>9. ASSUME NEW a \in Admins, CancelSchedule(a) PROVE TypeInv' /\ MadeInTurn'
        <2>1. TypeInv'
            BY <1>9, Cancelled DEF TypeInv
        <2>2. \A u \in Txs : txs'[u].status = txs[u].status /\ txs'[u].receipt = txs[u].receipt
            BY <1>9, Cancelled
        <2>3. 1..made \subseteq Txs
            BY DEF TypeInv, Txs, Sizes
        <2>4. \A x \in Admins : admin'[x].pc # "idle" => admin'[x].tx \in 1..made
            BY <1>9, Cancelled DEF MadeInTurn
        <2>5. \A x \in Senders : sender[x].pc \in {"schedule", "link"} =>
                sender[x].tx \in 1..made /\ txs'[sender[x].tx].receipt = sender[x].receipt
            BY <2>2, <2>3 DEF MadeInTurn
        <2> QED BY <1>9, <2>1, <2>2, <2>4, <2>5, Cancelled DEF MadeInTurn
    <1>10. ASSUME NEW a \in Admins, Write(a) PROVE TypeInv' /\ MadeInTurn'
        <2> DEFINE t == admin[a].tx
        <2>1. t \in Txs /\ t \in 1..made
            BY <1>10, Written
        <2>2. TypeInv'
            BY <1>10, <2>1, Written DEF TypeInv
        <2>3. \A u \in Txs : /\ txs'[u].status # "none" <=> txs[u].status # "none"
                             /\ txs'[u].receipt = txs[u].receipt
            <3>1. txs[t].status # "none" /\ txs'[t].status # "none"
                BY <1>10, <2>1, Written DEF MadeInTurn
            <3>2. txs'[t].receipt = txs[t].receipt /\ \A u \in Txs : u # t => txs'[u] = txs[u]
                BY <1>10, Written
            <3> QED BY <3>1, <3>2
        <2>4. 1..made \subseteq Txs
            BY DEF TypeInv, Txs, Sizes
        <2>5. \A x \in Admins : admin'[x].pc # "idle" => admin'[x].tx \in 1..made
            BY <1>10, Written DEF MadeInTurn
        <2>6. \A x \in Senders : sender[x].pc \in {"schedule", "link"} =>
                sender[x].tx \in 1..made /\ txs'[sender[x].tx].receipt = sender[x].receipt
            BY <2>3, <2>4 DEF MadeInTurn
        <2>7. \A u \in overruled' : u <= made
            BY <1>10, <2>1, Written DEF MadeInTurn
        <2> QED BY <1>10, <2>2, <2>3, <2>5, <2>6, <2>7, Written DEF MadeInTurn
    <1>11. ASSUME NEW a \in Admins, Unhash(a) PROVE TypeInv' /\ MadeInTurn'
        <2>1. TypeInv'
            BY <1>11, Unhashed DEF TypeInv
        <2> QED BY <1>11, <2>1, Unhashed DEF MadeInTurn, IdleAdmin
    <1>12. ASSUME JobLists PROVE TypeInv' /\ MadeInTurn'
        BY <1>12 DEF JobLists, TypeInv, MadeInTurn, Pending
    <1>13. ASSUME Restart PROVE TypeInv' /\ MadeInTurn'
        <2>1. TypeInv'
            BY <1>13, Restarted DEF Restart, TypeInv
        <2> QED BY <1>13, <2>1, Restarted DEF Restart, MadeInTurn, IdleSender, IdleAdmin
    <1>14. ASSUME UNCHANGED vars PROVE TypeInv' /\ MadeInTurn'
        BY <1>14 DEF vars, TypeInv, MadeInTurn
    <1> QED BY <1>1, <1>2, <1>3, <1>4, <1>6, <1>7, <1>8, <1>9, <1>10, <1>11, <1>12, <1>13, <1>14
            DEF Next

-----------------------------------------------------------------------------
(* What the steps do to the transactions.                                  *)

SameBooks ==
    /\ \A t \in Txs : txs'[t].status = txs[t].status /\ txs'[t].receipt = txs[t].receipt
    /\ UNCHANGED <<made, credits, overruled>>

\* An approval by an admin or by the job.
ApprovedBySomebody(t) ==
    Approved(t) /\ UNCHANGED <<hashes, made, sender, admin, overruled, late, faults>>

LEMMA Steps ==
    ASSUME Base, [Next]_vars
    PROVE  \/ SameBooks
           \/ \E s \in Senders : Create(s)
           \/ \E t \in Txs : ApprovedBySomebody(t)
           \/ \E a \in Admins : Write(a)
    <1> USE DEF Base
    <1>1. ASSUME NEW s \in Senders, Send(s) PROVE SameBooks
        BY <1>1, Sent DEF SameBooks
    <1>2. ASSUME NEW s \in Senders, Schedule(s) PROVE SameBooks
        BY <1>2, Scheduled DEF SameBooks
    <1>3. ASSUME NEW s \in Senders, Link(s) PROVE SameBooks
        BY <1>3 DEF Link, SameBooks
    <1>4. ASSUME NEW t \in Txs, Approve(t) PROVE ApprovedBySomebody(t)
        BY <1>4 DEF Approve, ApprovedBySomebody
    <1>5. ASSUME NEW t \in Txs, JobApproves(t) PROVE SameBooks \/ ApprovedBySomebody(t)
        BY <1>5, JobApproved DEF SameBooks, ApprovedBySomebody
    <1>6. ASSUME NEW a \in Admins, NEW t \in Txs, Review(a, t) PROVE SameBooks
        BY <1>6 DEF Review, SameBooks
    <1>7. ASSUME NEW a \in Admins, CancelSchedule(a) PROVE SameBooks
        BY <1>7, Cancelled DEF SameBooks
    <1>8. ASSUME NEW a \in Admins, Unhash(a) PROVE SameBooks
        BY <1>8 DEF Unhash, SameBooks
    <1>9. ASSUME JobLists PROVE SameBooks
        BY <1>9 DEF JobLists, SameBooks
    <1>10. ASSUME Restart PROVE SameBooks
        BY <1>10 DEF Restart, SameBooks
    <1>11. ASSUME UNCHANGED vars PROVE SameBooks
        BY <1>11 DEF vars, SameBooks
    <1> QED BY <1>1, <1>2, <1>3, <1>4, <1>5, <1>6, <1>7, <1>8, <1>9, <1>10, <1>11 DEF Next

-----------------------------------------------------------------------------
(* The credits.                                                            *)

\* Nothing is added twice, and nothing before it is decided.
Credited ==
    \A t \in Txs :
        /\ credits[t] <= 1
        /\ txs[t].status \in {"none", "pending"} => credits[t] = 0
        /\ t \notin overruled => (credits[t] = 1 <=> txs[t].status = "approved")

\* What the job may approve is the charge of a photo that was checked.
Checked ==
    /\ \A t \in Txs : txs[t].due => txs[t].receipt \notin Unreadable
    /\ \A t \in job \cup auto : txs[t].receipt \notin Unreadable

LEMMA CreditedStep == ASSUME Base, Credited, [Next]_vars PROVE Credited'
    <1> USE DEF Base
    <1>1. CASE SameBooks
        BY <1>1 DEF SameBooks, Credited
    <1>2. ASSUME NEW s \in Senders, Create(s) PROVE Credited'
        <2> DEFINE m == made'
        <2>1. /\ m \in Txs /\ m = made + 1 /\ txs'[m].status = "pending"
              /\ \A u \in Txs : u # m => txs'[u] = txs[u]
              /\ UNCHANGED <<credits, overruled>>
            BY <1>2, Created
        <2>2. made \in Nat /\ ~(m <= made)
            BY <2>1 DEF TypeInv
        <2>3. txs[m].status = "none" /\ m \notin overruled
            BY <2>1, <2>2 DEF MadeInTurn
        <2>4. credits[m] = 0
            BY <2>1, <2>3 DEF Credited
        <2> HIDE DEF m
        <2> QED BY <2>1, <2>3, <2>4 DEF Credited
    <1>3. ASSUME NEW t \in Txs, ApprovedBySomebody(t) PROVE Credited'
        <2>1. /\ txs[t].status = "pending" /\ txs'[t].status = "approved"
              /\ credits'[t] = credits[t] + 1 /\ overruled' = overruled
              /\ \A u \in Txs : u # t => txs'[u] = txs[u] /\ credits'[u] = credits[u]
            BY <1>3, WasApproved DEF ApprovedBySomebody
        <2>2. credits'[t] = 1
            BY <2>1 DEF Credited
        <2> QED BY <2>1, <2>2 DEF Credited
    <1>4. ASSUME NEW a \in Admins, Write(a) PROVE Credited'
        <2> DEFINE t == admin[a].tx
        <2>1. /\ t \in Txs /\ txs'[t].status \in {"needs_fix", "rejected"}
              /\ \A u \in Txs : u # t => txs'[u] = txs[u]
              /\ UNCHANGED credits
            BY <1>4, Written
        <2>2. /\ txs[t].status = "pending" => overruled' = overruled
              /\ txs[t].status # "pending" => overruled' = overruled \cup {t}
            BY <1>4, Written
        <2>3. t \notin overruled' => credits[t] = 0
            BY <2>1, <2>2 DEF Credited
        <2>4. \A u \in Txs : u # t => (u \in overruled' <=> u \in overruled)
            BY <2>2
        <2> HIDE DEF t
        <2> QED BY <2>1, <2>3, <2>4 DEF Credited
    <1> QED BY <1>1, <1>2, <1>3, <1>4, Steps

LEMMA CheckedStep == ASSUME Base, Checked, [Next]_vars PROVE Checked'
    <1> USE DEF Base
    <1>1. ASSUME NEW s \in Senders, Send(s) PROVE Checked'
        BY <1>1, Sent DEF Checked
    <1>2. ASSUME NEW s \in Senders, Create(s) PROVE Checked'
        <2> DEFINE m == made'
        <2>1. /\ m \in Txs /\ m = made + 1 /\ ~txs'[m].due
              /\ \A u \in Txs : u # m => txs'[u] = txs[u]
              /\ UNCHANGED <<job, auto>>
            BY <1>2, Created
        <2>2. made \in Nat /\ ~(m <= made) /\ job \subseteq Txs /\ auto \subseteq Txs
            BY <2>1 DEF TypeInv
        <2>3. m \notin job \cup auto
            BY <2>1, <2>2 DEF MadeInTurn
        <2> HIDE DEF m
        <2> QED BY <2>1, <2>2, <2>3 DEF Checked
    <1>3. ASSUME NEW s \in Senders, Schedule(s) PROVE Checked'
        <2>1. /\ \A u \in Txs : /\ txs'[u].receipt = txs[u].receipt
                                /\ txs'[u].due => txs[u].due
                                     \/ (u = sender[s].tx /\ sender[s].receipt \notin Unreadable)
              /\ UNCHANGED <<job, auto>> /\ sender[s].pc = "schedule"
            BY <1>3, Scheduled
        <2>2. txs[sender[s].tx].receipt = sender[s].receipt
            BY <2>1 DEF MadeInTurn
        <2>3. job \subseteq Txs /\ auto \subseteq Txs
            BY DEF TypeInv
        <2> QED BY <2>1, <2>2, <2>3 DEF Checked
    <1>4. ASSUME NEW s \in Senders, Link(s) PROVE Checked'
        BY <1>4 DEF Link, Checked
    <1>5. ASSUME NEW t \in Txs, Approved(t) PROVE
              \A u \in Txs : txs'[u].receipt = txs[u].receipt /\ (txs'[u].due => txs[u].due)
        BY <1>5, WasApproved
    <1>6. ASSUME NEW t \in Txs, Approve(t) PROVE Checked'
        BY <1>5, <1>6 DEF Approve, Checked, TypeInv
    <1>7. ASSUME NEW t \in Txs, JobApproves(t) PROVE Checked'
        <2>1. t \in job /\ job' \subseteq job /\ job \subseteq Txs /\ auto \subseteq Txs
            BY <1>7, JobApproved DEF TypeInv
        <2>2. CASE UNCHANGED <<txs, credits, auto>>
            BY <2>1, <2>2 DEF Checked
        <2>3. CASE Approved(t) /\ auto' = auto \cup {t}
            BY <1>5, <2>1, <2>3 DEF Checked
        <2> QED BY <1>7, <2>2, <2>3, JobApproved
    <1>8. ASSUME NEW a \in Admins, NEW t \in Txs, Review(a, t) PROVE Checked'
        BY <1>8 DEF Review, Checked
    <1>9. ASSUME NEW a \in Admins, CancelSchedule(a) PROVE Checked'
        BY <1>9, Cancelled DEF Checked, TypeInv
    <1>10. ASSUME NEW a \in Admins, Write(a) PROVE Checked'
        <2>1. /\ \A u \in Txs : txs'[u].receipt = txs[u].receipt /\ (txs'[u].due => txs[u].due)
              /\ UNCHANGED <<job, auto>>
            BY <1>10, Written
        <2> QED BY <2>1 DEF Checked, TypeInv
    <1>11. ASSUME NEW a \in Admins, Unhash(a) PROVE Checked'
        BY <1>11 DEF Unhash, Checked
    <1>12. ASSUME JobLists PROVE Checked'
        BY <1>12 DEF JobLists, Checked
    <1>13. ASSUME Restart PROVE Checked'
        BY <1>13 DEF Restart, Checked
    <1>14. ASSUME UNCHANGED vars PROVE Checked'
        BY <1>14 DEF vars, Checked
    <1> QED BY <1>1, <1>2, <1>3, <1>4, <1>6, <1>7, <1>8, <1>9, <1>10, <1>11, <1>12, <1>13, <1>14
            DEF Next

-----------------------------------------------------------------------------
(* The hashes.                                                             *)

\* A sender who has stored the hash of his photo and not told it its transaction.
Unlinked(s) ==
    sender[s].pc \in {"create", "link"} \/ (sender[s].pc = "schedule" /\ sender[s].bot)

\* A fix was asked of t, and its hash is still to be deleted.
Fixing(t) ==
    \E a \in Admins : admin[a].op = "fix" /\ admin[a].pc \in {"cancelled", "unhash"} /\ admin[a].tx = t

\* An unlinked sender of a photo that can be checked is the only one of it, and its
\* hash is stored without a transaction; a linked hash has a transaction of its photo.
Hashed ==
    /\ \A r \in Receipts : hashes[r].stored => r \notin Unreadable
    /\ \A s \in Senders : Unlinked(s) /\ sender[s].receipt \notin Unreadable =>
         /\ hashes[sender[s].receipt].stored /\ hashes[sender[s].receipt].tx = 0
         /\ \A x \in Senders : Unlinked(x) /\ sender[x].receipt = sender[s].receipt => x = s
    /\ \A r \in Receipts : hashes[r].tx # 0 =>
         hashes[r].stored /\ hashes[r].tx \in 1..made /\ txs[hashes[r].tx].receipt = r
    /\ \A t \in Txs : Fixing(t) => txs[t].status = "needs_fix" \/ t \in overruled
    /\ \A a \in Admins : admin[a].pc = "unhash" => admin[a].op = "fix"

\* Making a transaction and looking for a rule leave the unlinked senders as they were.
LEMMA StillUnlinked ==
    ASSUME Base, NEW s \in Senders, Create(s) \/ Schedule(s)
    PROVE  /\ \A x \in Senders : Unlinked(x)' => Unlinked(x) /\ sender'[x].receipt = sender[x].receipt
           /\ \A x \in Senders : Unlinked(x) => Unlinked(x)' /\ sender'[x].receipt = sender[x].receipt
           /\ UNCHANGED <<hashes, admin, overruled, late, faults>>
    <1>1. CASE Create(s)
        <2>1. /\ sender[s].pc = "create" /\ sender'[s].receipt = sender[s].receipt
              /\ \A x \in Senders : x # s => sender'[x] = sender[x]
              /\ UNCHANGED <<hashes, admin, overruled, late, faults>>
            BY <1>1, Created
        <2>2. Unlinked(s) /\ Unlinked(s)'
            BY <1>1, <2>1, Created DEF Unlinked
        <2>3. \A x \in Senders : x # s => (Unlinked(x)' <=> Unlinked(x))
            BY <2>1 DEF Unlinked
        <2> QED BY <2>1, <2>2, <2>3
    <1>2. CASE Schedule(s)
        <2>1. /\ sender[s].pc = "schedule"
              /\ \A x \in Senders : x # s => sender'[x] = sender[x]
              /\ UNCHANGED <<hashes, admin, overruled, late, faults>>
            BY <1>2, Scheduled
        <2>2. \A x \in Senders : x # s => (Unlinked(x)' <=> Unlinked(x))
            BY <2>1 DEF Unlinked
        <2>3. CASE sender[s].bot
            <3>1. Unlinked(s) /\ Unlinked(s)' /\ sender'[s].receipt = sender[s].receipt
                BY <1>2, <2>1, <2>3, Scheduled DEF Unlinked
            <3> QED BY <2>1, <2>2, <3>1
        <2>4. CASE ~sender[s].bot
            <3>1. ~Unlinked(s) /\ ~Unlinked(s)'
                BY <1>2, <2>1, <2>4, Scheduled DEF Unlinked, IdleSender
            <3> QED BY <2>1, <2>2, <3>1
        <2> QED BY <2>3, <2>4
    <1> QED BY <1>1, <1>2

LEMMA NowLinked ==
    ASSUME Base, NEW s \in Senders, Link(s)
    PROVE  /\ Unlinked(s) /\ ~Unlinked(s)'
           /\ \A x \in Senders : x # s => sender'[x] = sender[x] /\ (Unlinked(x)' <=> Unlinked(x))
    <1>1. sender[s].pc = "link" /\ \A x \in Senders : x # s => sender'[x] = sender[x]
        BY Linked
    <1>2. ~Unlinked(s)'
        <2>1. CASE sender[s].bot
            BY <2>1, Linked DEF Unlinked, IdleSender
        <2>2. CASE ~sender[s].bot
            BY <2>2, Linked DEF Unlinked
        <2> QED BY <2>1, <2>2
    <1> QED BY <1>1, <1>2 DEF Unlinked

\* A review of t that asked for a fix is still under way, or it was not one.
LEMMA StillFixing ==
    ASSUME Base, Hashed, [Next]_vars, NEW t \in Txs
    PROVE  Fixing(t)' => \/ Fixing(t)
                         \/ \E a \in Admins : Write(a) /\ admin[a].tx = t /\ admin[a].op = "fix"
    <1> SUFFICES ASSUME NEW a \in Admins, admin'[a].op = "fix", admin'[a].tx = t,
                        admin'[a].pc \in {"cancelled", "unhash"}, ~Fixing(t)
                 PROVE  Write(a) /\ admin[a].tx = t /\ admin[a].op = "fix"
        BY DEF Fixing
    <1>1. admin'[a] # admin[a]
        BY DEF Fixing
    <1>2. ASSUME NEW x \in Admins, NEW u \in Txs, Review(x, u) PROVE FALSE
        BY <1>1, <1>2, Reviewed
    <1>3. ASSUME NEW x \in Admins, CancelSchedule(x) PROVE FALSE
        <2>1. x = a
            BY <1>1, <1>3, Cancelled
        <2>2. admin[a].pc = "cancelled" /\ admin[a].op = "fix" /\ admin[a].tx = t
            BY <1>3, <2>1, Cancelled
        <2> QED BY <2>2 DEF Fixing
    <1>4. ASSUME NEW x \in Admins, Write(x) PROVE Write(a) /\ admin[a].tx = t /\ admin[a].op = "fix"
        <2>1. x = a
            BY <1>1, <1>4, Written
        <2> QED BY <1>4, <2>1, Written
    <1>5. ASSUME NEW x \in Admins, Unhash(x) PROVE FALSE
        BY <1>1, <1>5, Unhashed DEF IdleAdmin
    <1>6. ASSUME Restart PROVE FALSE
        BY <1>6, Restarted DEF IdleAdmin
    <1>7. ASSUME NEW s \in Senders, Send(s) \/ Create(s) \/ Schedule(s) \/ Link(s) PROVE FALSE
        BY <1>1, <1>7, Sent, StillUnlinked DEF Link, Base
    <1>8. ASSUME NEW u \in Txs, Approve(u) \/ JobApproves(u) PROVE FALSE
        BY <1>1, <1>8 DEF Approve, JobApproves
    <1>9. ASSUME JobLists \/ UNCHANGED vars PROVE FALSE
        BY <1>1, <1>9 DEF JobLists, vars
    <1> QED BY <1>2, <1>3, <1>4, <1>5, <1>6, <1>7, <1>8, <1>9 DEF Next

\* A fix that is under way was written, or another review of its transaction lost.
LEMMA FixIsWritten ==
    ASSUME Base, Hashed, [Next]_vars
    PROVE  \A t \in Txs : Fixing(t)' => txs'[t].status = "needs_fix" \/ t \in overruled'
    <1> SUFFICES ASSUME NEW t \in Txs, Fixing(t)'
                 PROVE  txs'[t].status = "needs_fix" \/ t \in overruled'
        OBVIOUS
    <1>1. ASSUME NEW a \in Admins, Write(a), admin[a].tx = t, admin[a].op = "fix"
          PROVE  txs'[t].status = "needs_fix" \/ t \in overruled'
        BY <1>1, Written
    <1>2. ASSUME Fixing(t) PROVE txs'[t].status = "needs_fix" \/ t \in overruled'
        <2>1. txs[t].status = "needs_fix" \/ t \in overruled
            BY <1>2 DEF Hashed
        <2>2. CASE SameBooks
            BY <2>1, <2>2 DEF SameBooks
        <2>3. ASSUME NEW s \in Senders, Create(s) PROVE txs'[t].status = "needs_fix" \/ t \in overruled'
            <3>1. t <= made /\ made \in Nat /\ t \in Nat
                BY <2>1 DEF Base, TypeInv, MadeInTurn, Txs
            <3>2. made' = made + 1 /\ overruled' = overruled
                  /\ \A u \in Txs : u # made' => txs'[u] = txs[u]
                BY <2>3, Created
            <3>3. t # made'
                BY <3>1, <3>2
            <3> QED BY <2>1, <3>2, <3>3
        <2>4. ASSUME NEW u \in Txs, ApprovedBySomebody(u)
              PROVE  txs'[t].status = "needs_fix" \/ t \in overruled'
            <3>1. txs[u].status = "pending" /\ overruled' = overruled
                  /\ \A v \in Txs : v # u => txs'[v] = txs[v]
                BY <2>4, WasApproved DEF ApprovedBySomebody, Base
            <3> QED BY <2>1, <3>1
        <2>5. ASSUME NEW a \in Admins, Write(a)
              PROVE  txs'[t].status = "needs_fix" \/ t \in overruled'
            <3>1. admin[a].tx # t => txs'[t] = txs[t]
                BY <2>5, Written
            <3>2. overruled \subseteq overruled'
                BY <2>5, Written
            <3>3. txs[admin[a].tx].status # "pending" => admin[a].tx \in overruled'
                BY <2>5, Written
            <3>4. txs[admin[a].tx].status = "pending" /\ admin[a].tx = t => t \in overruled
                BY <2>1
            <3> QED BY <2>1, <3>1, <3>2, <3>3, <3>4
        <2> QED BY <2>2, <2>3, <2>4, <2>5, Steps
    <1> QED BY <1>1, <1>2, StillFixing

\* A transaction keeps its photo.
LEMMA PhotoStays ==
    ASSUME Base, [Next]_vars
    PROVE  \A t \in 1..made : t \in 1..made' /\ t \in Txs /\ txs'[t].receipt = txs[t].receipt
    <1>1. 1..made \subseteq Txs /\ made \in Nat
        BY DEF Base, TypeInv, Txs, Sizes
    <1>2. CASE SameBooks
        BY <1>1, <1>2 DEF SameBooks
    <1>3. ASSUME NEW s \in Senders, Create(s)
          PROVE  \A t \in 1..made : t \in 1..made' /\ t \in Txs /\ txs'[t].receipt = txs[t].receipt
        <2>1. made' = made + 1 /\ \A u \in Txs : u # made' => txs'[u] = txs[u]
            BY <1>3, Created
        <2>2. \A t \in 1..made : t # made' /\ t \in 1..made'
            BY <1>1, <2>1
        <2> QED BY <1>1, <2>1, <2>2
    <1>4. ASSUME NEW t \in Txs, ApprovedBySomebody(t)
          PROVE  \A u \in Txs : txs'[u].receipt = txs[u].receipt
        BY <1>4, WasApproved DEF ApprovedBySomebody, Base
    <1>5. ASSUME NEW t \in Txs, ApprovedBySomebody(t) PROVE made' = made
        BY <1>5 DEF ApprovedBySomebody
    <1>6. ASSUME NEW a \in Admins, Write(a)
          PROVE  made' = made /\ \A u \in Txs : txs'[u].receipt = txs[u].receipt
        BY <1>6, Written
    <1> QED BY <1>1, <1>2, <1>3, <1>4, <1>5, <1>6, Steps

StoredReadable == \A r \in Receipts : hashes[r].stored => r \notin Unreadable
OnlySender ==
    \A s \in Senders : Unlinked(s) /\ sender[s].receipt \notin Unreadable =>
         /\ hashes[sender[s].receipt].stored /\ hashes[sender[s].receipt].tx = 0
         /\ \A x \in Senders : Unlinked(x) /\ sender[x].receipt = sender[s].receipt => x = s
LinkedToItsOwn ==
    \A r \in Receipts : hashes[r].tx # 0 =>
         hashes[r].stored /\ hashes[r].tx \in 1..made /\ txs[hashes[r].tx].receipt = r
UnhashIsFix == \A a \in Admins : admin[a].pc = "unhash" => admin[a].op = "fix"

LEMMA SameHashes ==
    ASSUME Base, Hashed, [Next]_vars, UNCHANGED <<hashes, sender>>
    PROVE  StoredReadable' /\ OnlySender' /\ LinkedToItsOwn'
    <1>1. StoredReadable' /\ OnlySender'
        BY DEF Hashed, StoredReadable, OnlySender, Unlinked
    <1>2. LinkedToItsOwn'
        BY PhotoStays DEF Hashed, LinkedToItsOwn
    <1> QED BY <1>1, <1>2

LEMMA HashedStep == ASSUME Base, Hashed, [Next]_vars PROVE Hashed'
    <1>1. ASSUME NEW s \in Senders, Send(s) PROVE StoredReadable' /\ OnlySender' /\ LinkedToItsOwn'
        <2>1. PICK r \in Receipts :
                 /\ ~hashes[r].stored /\ sender[s].pc = "idle"
                 /\ sender'[s].pc = "create" /\ sender'[s].receipt = r
                 /\ \A x \in Senders : x # s => sender'[x] = sender[x]
                 /\ r \in Unreadable => UNCHANGED hashes
                 /\ r \notin Unreadable => hashes'[r].stored /\ hashes'[r].tx = hashes[r].tx
                 /\ \A x \in Receipts : x # r => hashes'[x] = hashes[x]
                 /\ UNCHANGED <<txs, made>>
            BY <1>1, Sent DEF Base
        <2>2. hashes[r].tx = 0
            BY <2>1 DEF Hashed
        <2>3. StoredReadable'
            BY <2>1 DEF Hashed, StoredReadable
        <2>4. LinkedToItsOwn'
            BY <2>1, <2>2 DEF Hashed, LinkedToItsOwn
        <2>5. \A x \in Senders : x # s => (Unlinked(x)' <=> Unlinked(x))
            BY <2>1 DEF Unlinked
        <2>6. \A x \in Senders : Unlinked(x) /\ sender[x].receipt \notin Unreadable =>
                x # s /\ sender[x].receipt # r /\ sender[x].receipt \in Receipts
            BY <2>1 DEF Hashed, Unlinked, Base, MadeInTurn
        <2>7. OnlySender'
            <3>1. ASSUME NEW x \in Senders, Unlinked(x)', sender'[x].receipt \notin Unreadable
                  PROVE  /\ hashes'[sender'[x].receipt].stored /\ hashes'[sender'[x].receipt].tx = 0
                         /\ \A y \in Senders : Unlinked(y)' /\ sender'[y].receipt = sender'[x].receipt => y = x
                <4>1. CASE x = s
                    BY <2>1, <2>2, <2>5, <2>6, <3>1, <4>1
                <4>2. CASE x # s
                    <5>1. sender'[x] = sender[x] /\ Unlinked(x) /\ sender[x].receipt # r
                          /\ sender[x].receipt \in Receipts
                        BY <2>1, <2>5, <2>6, <3>1, <4>2
                    <5>2. hashes'[sender'[x].receipt] = hashes[sender[x].receipt]
                        BY <2>1, <5>1
                    <5>3. /\ hashes[sender[x].receipt].stored /\ hashes[sender[x].receipt].tx = 0
                          /\ \A y \in Senders : Unlinked(y) /\ sender[y].receipt = sender[x].receipt => y = x
                        BY <3>1, <5>1 DEF Hashed
                    <5> QED BY <2>1, <2>5, <5>1, <5>2, <5>3
                <4> QED BY <4>1, <4>2
            <3> QED BY <3>1 DEF OnlySender
        <2> QED BY <2>3, <2>4, <2>7
    <1>2. ASSUME NEW s \in Senders, Create(s) \/ Schedule(s)
          PROVE  StoredReadable' /\ OnlySender' /\ LinkedToItsOwn'
        <2>3. /\ \A x \in Senders : Unlinked(x)' => Unlinked(x) /\ sender'[x].receipt = sender[x].receipt
              /\ hashes' = hashes
            BY <1>2, StillUnlinked DEF Unlinked
        <2>4. StoredReadable'
            BY <2>3 DEF Hashed, StoredReadable
        <2>5. OnlySender'
            BY <2>3 DEF Hashed, OnlySender
        <2>1. StoredReadable' /\ OnlySender'
            BY <2>4, <2>5
        <2>2. LinkedToItsOwn'
            BY <1>2, StillUnlinked, PhotoStays DEF Hashed, LinkedToItsOwn
        <2> QED BY <2>1, <2>2
    <1>3. ASSUME NEW s \in Senders, Link(s) PROVE StoredReadable' /\ OnlySender' /\ LinkedToItsOwn'
        <2> DEFINE r == sender[s].receipt
        <2>1. /\ r \in Receipts /\ sender[s].tx \in 1..made /\ sender[s].pc = "link"
              /\ \A x \in Receipts : x # r => hashes'[x] = hashes[x]
              /\ hashes'[r].stored = hashes[r].stored
              /\ hashes'[r].tx = IF hashes[r].stored THEN sender[s].tx ELSE hashes[r].tx
              /\ UNCHANGED <<txs, made>>
            BY <1>3, Linked DEF Link
        <2>2. txs[sender[s].tx].receipt = r
            BY <2>1 DEF Base, MadeInTurn
        <2>3. /\ Unlinked(s) /\ ~Unlinked(s)'
              /\ \A x \in Senders : x # s => sender'[x] = sender[x] /\ (Unlinked(x)' <=> Unlinked(x))
            BY <1>3, NowLinked
        <2>4. \A x \in Senders : Unlinked(x) => sender[x].receipt \in Receipts
            BY DEF Unlinked, Base, MadeInTurn
        <2> HIDE DEF r
        <2>5. StoredReadable'
            BY <2>1 DEF Hashed, StoredReadable
        <2>6. LinkedToItsOwn'
            <3>1. hashes'[r].tx # 0 =>
                    hashes'[r].stored /\ hashes'[r].tx \in 1..made /\ txs[hashes'[r].tx].receipt = r
                <4>1. CASE hashes[r].stored
                    BY <2>1, <2>2, <4>1
                <4>2. CASE ~hashes[r].stored
                    BY <2>1, <4>2 DEF Hashed
                <4> QED BY <4>1, <4>2
            <3> QED BY <2>1, <3>1 DEF Hashed, LinkedToItsOwn
        <2>7. OnlySender'
            <3>1. ASSUME NEW x \in Senders, Unlinked(x)', sender'[x].receipt \notin Unreadable
                  PROVE  /\ hashes'[sender'[x].receipt].stored /\ hashes'[sender'[x].receipt].tx = 0
                         /\ \A y \in Senders : Unlinked(y)' /\ sender'[y].receipt = sender'[x].receipt => y = x
                <4>1. x # s /\ sender'[x] = sender[x] /\ Unlinked(x) /\ sender[x].receipt \in Receipts
                    BY <2>3, <2>4, <3>1
                <4>2. /\ hashes[sender[x].receipt].stored /\ hashes[sender[x].receipt].tx = 0
                      /\ \A y \in Senders : Unlinked(y) /\ sender[y].receipt = sender[x].receipt => y = x
                    BY <3>1, <4>1 DEF Hashed
                <4>3. sender[x].receipt # r
                    BY <2>3, <4>1, <4>2 DEF r
                <4> QED BY <2>1, <2>3, <4>1, <4>2, <4>3
            <3> QED BY <3>1 DEF OnlySender
        <2> QED BY <2>5, <2>6, <2>7
    <1>4. ASSUME NEW a \in Admins, Unhash(a) PROVE StoredReadable' /\ OnlySender' /\ LinkedToItsOwn'
        <2>1. /\ admin[a].tx \in 1..made /\ admin[a].tx # 0
              /\ \A r \in Receipts : hashes'[r] = hashes[r] \/ (hashes'[r] = Absent /\ hashes[r].tx = admin[a].tx)
              /\ UNCHANGED <<txs, made, sender>>
            BY <1>4, Unhashed
        <2>2. ~Absent.stored /\ Absent.tx = 0
            BY DEF Absent
        <2>3. StoredReadable' /\ LinkedToItsOwn'
            BY <2>1, <2>2 DEF Hashed, StoredReadable, LinkedToItsOwn
        <2>4. \A x \in Senders : Unlinked(x) => sender[x].receipt \in Receipts
            BY DEF Unlinked, Base, MadeInTurn
        <2>5. OnlySender'
            BY <2>1, <2>4 DEF Hashed, OnlySender, Unlinked
        <2> QED BY <2>3, <2>5
    <1>5. ASSUME Restart PROVE StoredReadable' /\ OnlySender' /\ LinkedToItsOwn'
        <2>1. \A x \in Senders : ~Unlinked(x)'
            BY <1>5, Restarted DEF Unlinked, IdleSender
        <2> QED BY <1>5, <2>1 DEF Restart, Hashed, StoredReadable, OnlySender, LinkedToItsOwn
    <1>6. ASSUME NEW t \in Txs, Approve(t) \/ JobApproves(t) \/ \E a \in Admins : Review(a, t)
          PROVE  StoredReadable' /\ OnlySender' /\ LinkedToItsOwn'
        BY <1>6, SameHashes DEF Approve, JobApproves, Review
    <1>7. ASSUME NEW a \in Admins, CancelSchedule(a) \/ Write(a)
          PROVE  StoredReadable' /\ OnlySender' /\ LinkedToItsOwn'
        BY <1>7, SameHashes DEF CancelSchedule, Write
    <1>8. ASSUME JobLists \/ UNCHANGED vars PROVE StoredReadable' /\ OnlySender' /\ LinkedToItsOwn'
        BY <1>8, SameHashes DEF JobLists, vars
    <1>9. StoredReadable' /\ OnlySender' /\ LinkedToItsOwn'
        BY <1>1, <1>2, <1>3, <1>4, <1>5, <1>6, <1>7, <1>8 DEF Next
    <1>10. UnhashIsFix'
        <2>1. ASSUME NEW a \in Admins, NEW t \in Txs, Review(a, t) PROVE UnhashIsFix'
            <3>1. admin'[a].pc # "unhash"
                BY <2>1, Reviewed
            <3> QED BY <2>1, <3>1, Reviewed DEF Hashed, UnhashIsFix
        <2>2. ASSUME NEW a \in Admins, CancelSchedule(a) PROVE UnhashIsFix'
            <3>1. admin'[a].pc = "unhash" => admin'[a].op = "fix"
                BY <2>2, Cancelled
            <3> QED BY <2>2, <3>1, Cancelled DEF Hashed, UnhashIsFix
        <2>3. ASSUME NEW a \in Admins, Write(a) PROVE UnhashIsFix'
            <3>1. admin'[a].pc # "unhash"
                BY <2>3, Written
            <3> QED BY <2>3, <3>1, Written DEF Hashed, UnhashIsFix
        <2>4. ASSUME NEW a \in Admins, Unhash(a) PROVE UnhashIsFix'
            BY <2>4, Unhashed DEF Hashed, UnhashIsFix, IdleAdmin
        <2>5. ASSUME Restart PROVE UnhashIsFix'
            BY <2>5, Restarted DEF UnhashIsFix, IdleAdmin
        <2>6. ASSUME NEW s \in Senders, Send(s) \/ Create(s) \/ Schedule(s) \/ Link(s)
              PROVE  UnhashIsFix'
            BY <2>6, Sent, StillUnlinked DEF Base, Link, Hashed, UnhashIsFix
        <2>7. ASSUME NEW t \in Txs, Approve(t) \/ JobApproves(t) PROVE UnhashIsFix'
            BY <2>7 DEF Approve, JobApproves, Hashed, UnhashIsFix
        <2>8. ASSUME JobLists \/ UNCHANGED vars PROVE UnhashIsFix'
            BY <2>8 DEF JobLists, vars, Hashed, UnhashIsFix
        <2> QED BY <2>1, <2>2, <2>3, <2>4, <2>5, <2>6, <2>7, <2>8 DEF Next
    <1>11. (\A t \in Txs : Fixing(t) => txs[t].status = "needs_fix" \/ t \in overruled)'
        BY FixIsWritten
    <1> QED BY <1>9, <1>10, <1>11
            DEF Hashed, StoredReadable, OnlySender, LinkedToItsOwn, UnhashIsFix

-----------------------------------------------------------------------------
(* A photo has at most one transaction that may be credited.               *)

Live(r) == {t \in TxsOf(r) \ overruled : txs[t].status # "needs_fix"}

\* It is the one its hash is linked to, or the one its unlinked sender has made.
OneLive ==
    \A r \in Receipts \ Unreadable :
        /\ ~hashes[r].stored => Live(r) = {}
        /\ hashes[r].tx # 0 => Live(r) \subseteq {hashes[r].tx}
        /\ \A t, u \in Live(r) : t = u
        /\ \A s \in Senders : Unlinked(s) /\ sender[s].receipt = r =>
             Live(r) \subseteq IF sender[s].pc = "create" THEN {} ELSE {sender[s].tx}

LEMMA LiveShrinks ==
    ASSUME Base, [Next]_vars, \A s \in Senders : ~Create(s)
    PROVE  \A r \in Receipts : Live(r)' \subseteq Live(r)
    <1>1. CASE SameBooks
        BY <1>1 DEF SameBooks, Live, TxsOf
    <1>2. ASSUME NEW t \in Txs, ApprovedBySomebody(t)
          PROVE  \A r \in Receipts : Live(r)' \subseteq Live(r)
        <2>1. /\ txs[t].status = "pending" /\ txs'[t].receipt = txs[t].receipt
              /\ \A u \in Txs : u # t => txs'[u] = txs[u]
              /\ overruled' = overruled
            BY <1>2, WasApproved DEF ApprovedBySomebody, Base
        <2> QED BY <2>1 DEF Live, TxsOf
    <1>3. ASSUME NEW a \in Admins, Write(a)
          PROVE  \A r \in Receipts : Live(r)' \subseteq Live(r)
        <2> DEFINE t == admin[a].tx
        <2>1. /\ txs'[t].receipt = txs[t].receipt
              /\ \A u \in Txs : u # t => txs'[u] = txs[u]
            BY <1>3, Written
        <2>2. overruled \subseteq overruled' /\ (t \notin overruled' => txs[t].status = "pending")
            BY <1>3, Written
        <2> HIDE DEF t
        <2> QED BY <2>1, <2>2 DEF Live, TxsOf
    <1> QED BY <1>1, <1>2, <1>3, Steps

\* The new transaction is the only one of its photo that may be credited.
LEMMA LiveMade ==
    ASSUME Base, NEW s \in Senders, Create(s)
    PROVE  /\ \A r \in Receipts : Live(r)' \subseteq Live(r) \cup {made'}
           /\ \A r \in Receipts : r # sender[s].receipt => Live(r)' \subseteq Live(r)
    <1>1. /\ txs'[made'].receipt = sender[s].receipt
          /\ \A u \in Txs : u # made' => txs'[u] = txs[u]
          /\ overruled' = overruled
        BY Created
    <1> QED BY <1>1 DEF Live, TxsOf

LEMMA OneLiveStep ==
    ASSUME Base, Hashed, Hashed', OneLive, [Next]_vars
    PROVE  OneLive'
    <1> DEFINE Held(r) ==
                 /\ ~hashes[r].stored => Live(r) = {}
                 /\ hashes[r].tx # 0 => Live(r) \subseteq {hashes[r].tx}
                 /\ \A t, u \in Live(r) : t = u
                 /\ \A s \in Senders : Unlinked(s) /\ sender[s].receipt = r =>
                      Live(r) \subseteq IF sender[s].pc = "create" THEN {} ELSE {sender[s].tx}
    <1> SUFFICES ASSUME NEW r \in Receipts \ Unreadable PROVE Held(r)'
        BY DEF OneLive
    <1>1. Held(r)
        BY DEF OneLive
    <1>2. ASSUME NEW s \in Senders, Send(s) PROVE Held(r)'
        <2>1. PICK p \in Receipts :
                 /\ ~hashes[p].stored /\ sender[s].pc = "idle"
                 /\ sender'[s].pc = "create" /\ sender'[s].receipt = p
                 /\ \A x \in Senders : x # s => sender'[x] = sender[x]
                 /\ p \in Unreadable => UNCHANGED hashes
                 /\ p \notin Unreadable => hashes'[p].stored /\ hashes'[p].tx = hashes[p].tx
                 /\ \A x \in Receipts : x # p => hashes'[x] = hashes[x]
                 /\ UNCHANGED <<txs, overruled>>
            BY <1>2, Sent DEF Base
        <2>2. Live(r)' = Live(r)
            BY <2>1 DEF Live, TxsOf
        <2>3. \A x \in Senders : x # s => (Unlinked(x)' <=> Unlinked(x))
            BY <2>1 DEF Unlinked
        <2>4. CASE p = r
            <3>1. Live(r)' = {}
                BY <1>1, <2>1, <2>2, <2>4
            <3> QED BY <3>1
        <2>5. CASE p # r
            <3>1. hashes'[r] = hashes[r]
                BY <2>1, <2>5
            <3> QED BY <1>1, <2>1, <2>2, <2>3, <2>5, <3>1
        <2> QED BY <2>4, <2>5
    <1>3. ASSUME NEW s \in Senders, Create(s) PROVE Held(r)'
        <2>1. /\ sender[s].pc = "create" /\ sender'[s].pc # "create" /\ sender'[s].tx = made'
              /\ sender'[s].receipt = sender[s].receipt
              /\ \A x \in Senders : x # s => sender'[x] = sender[x]
              /\ hashes' = hashes
            BY <1>3, Created
        <2>2. \A x \in Senders : Unlinked(x)' => Unlinked(x) /\ sender'[x].receipt = sender[x].receipt
            BY <1>3, StillUnlinked
        <2>3. CASE sender[s].receipt = r
            <3>1. Unlinked(s)
                BY <2>1 DEF Unlinked
            <3>2. Live(r) = {} /\ hashes[r].stored /\ hashes[r].tx = 0
                BY <1>1, <2>1, <2>3, <3>1 DEF Hashed
            <3>3. Live(r)' \subseteq {made'}
                BY <1>3, <2>3, <3>2, LiveMade
            <3>4. \A x \in Senders : Unlinked(x) /\ sender[x].receipt = r => x = s
                BY <2>3, <3>1 DEF Hashed
            <3>5. \A x \in Senders : Unlinked(x)' /\ sender'[x].receipt = r =>
                    Live(r)' \subseteq IF sender'[x].pc = "create" THEN {} ELSE {sender'[x].tx}
                BY <2>1, <2>2, <3>3, <3>4 DEF Unlinked
            <3> QED BY <2>1, <3>2, <3>3, <3>5
        <2>4. CASE sender[s].receipt # r
            <3>1. Live(r)' \subseteq Live(r)
                BY <1>3, <2>4, LiveMade
            <3>2. \A x \in Senders : Unlinked(x)' /\ sender'[x].receipt = r =>
                    x # s /\ Unlinked(x) /\ sender'[x] = sender[x]
                BY <2>1, <2>2, <2>4 DEF Unlinked
            <3>3. \A x \in Senders : Unlinked(x)' /\ sender'[x].receipt = r =>
                    Live(r)' \subseteq IF sender'[x].pc = "create" THEN {} ELSE {sender'[x].tx}
                BY <1>1, <3>1, <3>2
            <3> QED BY <1>1, <2>1, <3>1, <3>3
        <2> QED BY <2>3, <2>4
    <1>4. ASSUME \A s \in Senders : ~Create(s) PROVE Live(r)' \subseteq Live(r)
        BY <1>4, LiveShrinks
    <1>5. ASSUME NEW s \in Senders, Schedule(s) PROVE Held(r)'
        <2>1. SameBooks /\ hashes' = hashes /\ overruled' = overruled
            BY <1>5, Scheduled DEF SameBooks
        <2>2. Live(r)' = Live(r)
            BY <2>1 DEF SameBooks, Live, TxsOf
        <2>3. \A x \in Senders : Unlinked(x)' => Unlinked(x) /\ sender'[x].receipt = sender[x].receipt
            BY <1>5, StillUnlinked
        <2>4. \A x \in Senders : Unlinked(x)' =>
                sender'[x] = sender[x]
                \/ (sender[x].pc = "schedule" /\ sender'[x].pc = "link" /\ sender'[x].tx = sender[x].tx)
            <3>1. CASE sender[s].bot
                BY <1>5, <3>1, Scheduled
            <3>2. CASE ~sender[s].bot
                <4>1. ~Unlinked(s)'
                    BY <1>5, <3>2, Scheduled DEF Unlinked, IdleSender
                <4> QED BY <1>5, <4>1, Scheduled
            <3> QED BY <3>1, <3>2
        <2>5. \A x \in Senders : Unlinked(x)' /\ sender'[x].receipt = r =>
                Live(r)' \subseteq IF sender'[x].pc = "create" THEN {} ELSE {sender'[x].tx}
            BY <1>1, <2>2, <2>3, <2>4 DEF Unlinked
        <2> QED BY <1>1, <2>1, <2>2, <2>5
    <1>6. ASSUME NEW s \in Senders, Link(s) PROVE Held(r)'
        <2> DEFINE p == sender[s].receipt
        <2>1. /\ p \in Receipts /\ sender[s].pc = "link"
              /\ \A x \in Receipts : x # p => hashes'[x] = hashes[x]
              /\ hashes'[p].stored = hashes[p].stored
              /\ hashes'[p].tx = IF hashes[p].stored THEN sender[s].tx ELSE hashes[p].tx
            BY <1>6, Linked
        <2>2. UNCHANGED <<txs, overruled>>
            BY <1>6 DEF Link
        <2>3. Live(r)' = Live(r)
            BY <2>2 DEF Live, TxsOf
        <2>4. /\ Unlinked(s) /\ ~Unlinked(s)'
              /\ \A x \in Senders : x # s => sender'[x] = sender[x] /\ (Unlinked(x)' <=> Unlinked(x))
            BY <1>6, NowLinked
        <2>5. \A x \in Senders : Unlinked(x)' /\ sender'[x].receipt = r =>
                Live(r)' \subseteq IF sender'[x].pc = "create" THEN {} ELSE {sender'[x].tx}
            BY <1>1, <2>3, <2>4
        <2>6. CASE p = r
            <3>1. hashes[r].stored
                BY <2>4, <2>6 DEF Hashed
            <3>2. Live(r) \subseteq {sender[s].tx}
                BY <1>1, <2>1, <2>4, <2>6
            <3> QED BY <1>1, <2>1, <2>3, <2>5, <2>6, <3>1, <3>2
        <2>7. CASE p # r
            <3>1. hashes'[r] = hashes[r]
                BY <2>1, <2>7
            <3> QED BY <1>1, <2>3, <2>5, <3>1
        <2> QED BY <2>6, <2>7
    <1>7. ASSUME NEW a \in Admins, Unhash(a) PROVE Held(r)'
        <2>1. /\ admin[a].pc = "unhash" /\ admin[a].tx \in Txs
              /\ hashes'[r] = IF hashes[r].stored /\ hashes[r].tx = admin[a].tx THEN Absent ELSE hashes[r]
              /\ UNCHANGED <<txs, overruled, sender>>
            BY <1>7, Unhashed
        <2>2. Live(r)' = Live(r)
            BY <2>1 DEF Live, TxsOf
        <2>3. \A x \in Senders : Unlinked(x)' <=> Unlinked(x)
            BY <2>1 DEF Unlinked
        <2>4. CASE hashes[r].stored /\ hashes[r].tx = admin[a].tx
            <3>1. admin[a].tx # 0
                BY <2>1 DEF Txs
            <3>2. Live(r) \subseteq {admin[a].tx}
                BY <1>1, <2>4, <3>1
            <3>3. Fixing(admin[a].tx)
                BY <2>1 DEF Fixing, Hashed
            <3>4. admin[a].tx \notin Live(r)
                BY <2>1, <3>3 DEF Hashed, Live
            <3>5. Live(r)' = {}
                BY <2>2, <3>2, <3>4
            <3> QED BY <3>5
        <2>5. CASE ~(hashes[r].stored /\ hashes[r].tx = admin[a].tx)
            <3>1. hashes'[r] = hashes[r]
                BY <2>1, <2>5
            <3> QED BY <1>1, <2>1, <2>2, <2>3, <3>1
        <2> QED BY <2>4, <2>5
    <1>8. ASSUME UNCHANGED <<hashes, sender>>, Live(r)' \subseteq Live(r) PROVE Held(r)'
        <2>1. \A x \in Senders : Unlinked(x)' <=> Unlinked(x)
            BY <1>8 DEF Unlinked
        <2>2. \A x \in Senders : Unlinked(x) /\ sender[x].receipt = r =>
                Live(r)' \subseteq IF sender[x].pc = "create" THEN {} ELSE {sender[x].tx}
            BY <1>1, <1>8
        <2> QED BY <1>1, <1>8, <2>1, <2>2
    <1>9. ASSUME Restart PROVE Held(r)'
        <2>1. \A x \in Senders : ~Unlinked(x)'
            BY <1>9, Restarted DEF Unlinked, IdleSender
        <2>2. Live(r)' = Live(r) /\ hashes' = hashes
            BY <1>9 DEF Restart, Live, TxsOf
        <2> QED BY <1>1, <2>1, <2>2
    <1>10. ASSUME NEW t \in Txs, Approve(t) \/ JobApproves(t) \/ \E a \in Admins : Review(a, t)
           PROVE  UNCHANGED <<hashes, sender>> /\ made' = made
        BY <1>10 DEF Approve, JobApproves, Review
    <1>11. ASSUME NEW a \in Admins, CancelSchedule(a) \/ Write(a)
           PROVE  UNCHANGED <<hashes, sender>> /\ made' = made
        BY <1>11 DEF CancelSchedule, Write
    <1>12. ASSUME JobLists \/ UNCHANGED vars PROVE UNCHANGED <<hashes, sender>> /\ made' = made
        BY <1>12 DEF JobLists, vars
    <1>13. ASSUME made' = made PROVE \A s \in Senders : ~Create(s)
        BY <1>13, Created DEF Base, TypeInv
    <1> HIDE DEF Held
    <1> QED BY <1>2, <1>3, <1>4, <1>5, <1>6, <1>7, <1>8, <1>9, <1>10, <1>11, <1>12, <1>13 DEF Next

-----------------------------------------------------------------------------
(* A photo that is refused is known.                                       *)

Standing(t) == txs[t].status # "needs_fix" \/ t \in overruled

\* A stored hash has an unlinked sender, or a transaction that stands, or one whose
\* review is about to delete the hash.
Known ==
    faults = 0 => \A r \in Receipts \ late :
        hashes[r].stored =>
            \/ \E s \in Senders : Unlinked(s) /\ sender[s].receipt = r
            \/ hashes[r].tx # 0 /\ (Standing(hashes[r].tx) \/ Fixing(hashes[r].tx))

\* A transaction that stands goes on to, until a fix of it is written, and the hash of
\* one to be fixed is deleted before the review ends.
LEMMA StillKnown ==
    ASSUME Base, Hashed, [Next]_vars, ~Restart, \A a \in Admins : ~Unhash(a),
           NEW t \in 1..made, Standing(t) \/ Fixing(t)
    PROVE  Standing(t)' \/ Fixing(t)'
    <1>0. t \in Txs /\ t <= made /\ made \in Nat /\ t \in Nat
        BY DEF Base, TypeInv, Txs, Sizes
    <1>1. ASSUME NEW s \in Senders, Create(s) PROVE Standing(t)' \/ Fixing(t)'
        <2>1. /\ made' = made + 1 /\ \A u \in Txs : u # made' => txs'[u] = txs[u]
              /\ UNCHANGED <<admin, overruled>>
            BY <1>1, Created
        <2>2. txs'[t] = txs[t]
            BY <1>0, <2>1
        <2> QED BY <2>1, <2>2 DEF Standing, Fixing
    <1>2. ASSUME NEW s \in Senders, Send(s) \/ Schedule(s) \/ Link(s)
          PROVE  Standing(t)' \/ Fixing(t)'
        <2>1. txs'[t].status = txs[t].status /\ UNCHANGED <<admin, overruled>>
            BY <1>0, <1>2, Sent, Scheduled DEF Link, Base
        <2> QED BY <2>1 DEF Standing, Fixing
    <1>3. ASSUME NEW u \in Txs, ApprovedBySomebody(u) PROVE Standing(t)' \/ Fixing(t)'
        <2>1. /\ txs[u].status = "pending" /\ txs'[u].status = "approved"
              /\ \A v \in Txs : v # u => txs'[v] = txs[v]
              /\ UNCHANGED <<admin, overruled>>
            BY <1>3, WasApproved DEF ApprovedBySomebody, Base
        <2> QED BY <1>0, <2>1 DEF Standing, Fixing
    <1>4. ASSUME NEW u \in Txs, Approve(u) \/ JobApproves(u) PROVE Standing(t)' \/ Fixing(t)'
        <2>1. \/ ApprovedBySomebody(u)
              \/ UNCHANGED <<txs, admin, overruled>>
            BY <1>4, JobApproved DEF Approve, ApprovedBySomebody, Base
        <2> QED BY <1>3, <2>1 DEF Standing, Fixing
    <1>5. ASSUME NEW a \in Admins, NEW u \in Txs, Review(a, u) PROVE Standing(t)' \/ Fixing(t)'
        <2>1. /\ admin[a].pc = "idle" /\ \A x \in Admins : x # a => admin'[x] = admin[x]
              /\ UNCHANGED <<txs, overruled>>
            BY <1>5, Reviewed
        <2> QED BY <2>1 DEF Standing, Fixing
    <1>6. ASSUME NEW a \in Admins, CancelSchedule(a) PROVE Standing(t)' \/ Fixing(t)'
        <2>1. txs'[t].status = txs[t].status /\ overruled' = overruled
            BY <1>0, <1>6, Cancelled
        <2>2. ASSUME NEW x \in Admins, admin[x].op = "fix", admin[x].tx = t,
                     admin[x].pc \in {"cancelled", "unhash"}
              PROVE  Fixing(t)'
            <3>1. CASE x = a
                <4>1. admin'[a].pc = "unhash" /\ admin'[a].op = "fix" /\ admin'[a].tx = t
                    BY <1>6, <2>2, <3>1, Cancelled
                <4> QED BY <4>1 DEF Fixing
            <3>2. CASE x # a
                <4>1. admin'[x] = admin[x]
                    BY <1>6, <3>2, Cancelled
                <4> QED BY <2>2, <4>1 DEF Fixing
            <3> QED BY <3>1, <3>2
        <2>3. Fixing(t) => Fixing(t)'
            BY <2>2 DEF Fixing
        <2>4. Standing(t) => Standing(t)'
            BY <2>1 DEF Standing
        <2> QED BY <2>3, <2>4
    <1>7. ASSUME NEW a \in Admins, Write(a) PROVE Standing(t)' \/ Fixing(t)'
        <2>1. /\ admin[a].pc = "write" /\ \A x \in Admins : x # a => admin'[x] = admin[x]
              /\ overruled \subseteq overruled'
            BY <1>7, Written
        <2>2. CASE admin[a].tx = t
            <3>1. CASE txs[t].status # "pending"
                <4>1. t \in overruled'
                    BY <1>7, <2>2, <3>1, Written
                <4> QED BY <4>1 DEF Standing
            <3>2. CASE admin[a].op = "fix"
                <4>1. admin'[a].pc = "cancelled" /\ admin'[a].op = "fix" /\ admin'[a].tx = t
                    BY <1>7, <2>2, <3>2, Written
                <4> QED BY <4>1 DEF Fixing
            <3>3. CASE admin[a].op # "fix"
                <4>1. txs'[t].status = "rejected"
                    BY <1>7, <2>2, <3>3, Written
                <4> QED BY <4>1 DEF Standing
            <3> QED BY <3>2, <3>3
        <2>3. CASE admin[a].tx # t
            <3>1. txs'[t] = txs[t]
                BY <1>0, <1>7, <2>3, Written
            <3>2. Standing(t) => Standing(t)'
                BY <2>1, <3>1 DEF Standing
            <3>3. Fixing(t) => Fixing(t)'
                BY <2>1 DEF Fixing
            <3> QED BY <3>2, <3>3
        <2> QED BY <2>2, <2>3
    <1>8. ASSUME JobLists \/ UNCHANGED vars PROVE Standing(t)' \/ Fixing(t)'
        BY <1>8 DEF JobLists, vars, Standing, Fixing
    <1> QED BY <1>1, <1>2, <1>4, <1>5, <1>6, <1>7, <1>8 DEF Next

LEMMA KnownStep ==
    ASSUME Base, Hashed, Known, [Next]_vars
    PROVE  Known'
    <1> DEFINE Has(r) ==
                 \/ \E s \in Senders : Unlinked(s) /\ sender[s].receipt = r
                 \/ hashes[r].tx # 0 /\ (Standing(hashes[r].tx) \/ Fixing(hashes[r].tx))
               KeepsSenders ==
                 \A x \in Senders : Unlinked(x) => Unlinked(x)' /\ sender'[x].receipt = sender[x].receipt
               KeepsHashes ==
                 \A r \in Receipts :
                   /\ hashes'[r].tx = hashes[r].tx
                   /\ hashes'[r].stored => \/ hashes[r].stored
                                          \/ \E x \in Senders : Unlinked(x)' /\ sender'[x].receipt = r
    <1>1. ASSUME Restart PROVE Known'
        <2>1. faults \in Nat /\ faults' = faults + 1
            BY <1>1 DEF Restart, Base, TypeInv
        <2>2. faults' # 0
            BY <2>1
        <2> QED BY <2>2 DEF Known
    <1>2. ASSUME NEW a \in Admins, Unhash(a) PROVE Known'
        <2>1. /\ admin[a].pc = "unhash" /\ admin'[a] = IdleAdmin
              /\ \A r \in Receipts :
                   hashes'[r] = IF hashes[r].stored /\ hashes[r].tx = admin[a].tx THEN Absent ELSE hashes[r]
              /\ \A x \in Admins : x # a => admin'[x] = admin[x]
              /\ UNCHANGED <<txs, sender, overruled, late, faults>>
            BY <1>2, Unhashed
        <2>2. SUFFICES ASSUME faults = 0, NEW r \in Receipts \ late, hashes'[r].stored PROVE Has(r)'
            BY <2>1 DEF Known
        <2>3. hashes'[r] = hashes[r] /\ hashes[r].tx # admin[a].tx
            BY <2>1, <2>2 DEF Absent
        <2>4. Has(r)
            BY <2>2, <2>3 DEF Known
        <2>5. ASSUME NEW s \in Senders, Unlinked(s), sender[s].receipt = r PROVE Has(r)'
            BY <2>1, <2>5 DEF Unlinked
        <2>6. ASSUME hashes[r].tx # 0, Standing(hashes[r].tx) \/ Fixing(hashes[r].tx) PROVE Has(r)'
            <3> DEFINE t == hashes[r].tx
            <3>1. Standing(t) => Standing(t)'
                BY <2>1, <2>3 DEF Standing
            <3>2. Fixing(t) => Fixing(t)'
                BY <2>1, <2>3 DEF Fixing
            <3>3. hashes'[r].tx = t
                BY <2>3
            <3> QED BY <2>6, <3>1, <3>2, <3>3
        <2> QED BY <2>4, <2>5, <2>6
    <1>3. ASSUME NEW s \in Senders, Link(s) PROVE Known'
        <2> DEFINE p == sender[s].receipt
        <2>1. /\ p \in Receipts /\ sender[s].tx \in 1..made
              /\ \A x \in Receipts : x # p => hashes'[x] = hashes[x]
              /\ hashes'[p].stored = hashes[p].stored
              /\ hashes'[p].tx = IF hashes[p].stored THEN sender[s].tx ELSE hashes[p].tx
              /\ late' = IF txs[sender[s].tx].status = "needs_fix" THEN late \cup {p} ELSE late
              /\ UNCHANGED <<txs, admin, overruled, faults>>
            BY <1>3, Linked
        <2>2. /\ Unlinked(s) /\ ~Unlinked(s)'
              /\ \A x \in Senders : x # s => sender'[x] = sender[x] /\ (Unlinked(x)' <=> Unlinked(x))
            BY <1>3, NowLinked
        <2>3. late \subseteq late'
            BY <2>1
        <2>4. SUFFICES ASSUME faults = 0, NEW r \in Receipts \ late', hashes'[r].stored PROVE Has(r)'
            BY <2>1 DEF Known
        <2>5. CASE r = p
            <3>1. hashes'[r].tx = sender[s].tx /\ sender[s].tx # 0
                BY <2>1, <2>4, <2>5
            <3>2. txs'[sender[s].tx].status # "needs_fix"
                BY <2>1, <2>4, <2>5
            <3> DEFINE t == hashes'[r].tx
            <3>3. t # 0 /\ txs'[t].status # "needs_fix"
                BY <3>1, <3>2
            <3> QED BY <3>3 DEF Standing
        <2>6. CASE r # p
            <3>1. hashes'[r] = hashes[r]
                BY <2>1, <2>6
            <3>2. Has(r)
                BY <2>3, <2>4, <3>1 DEF Known
            <3>3. ASSUME NEW x \in Senders, Unlinked(x), sender[x].receipt = r PROVE Has(r)'
                <4>1. x # s
                    BY <2>6, <3>3
                <4> QED BY <2>2, <3>3, <4>1
            <3>4. ASSUME hashes[r].tx # 0, Standing(hashes[r].tx) \/ Fixing(hashes[r].tx) PROVE Has(r)'
                BY <2>1, <3>1, <3>4 DEF Standing, Fixing
            <3> QED BY <3>2, <3>3, <3>4
        <2> QED BY <2>5, <2>6
    <1>4. ASSUME ~Restart, \A a \in Admins : ~Unhash(a), UNCHANGED late,
                 faults' = 0 => faults = 0, KeepsSenders, KeepsHashes
          PROVE  Known'
        <2>1. SUFFICES ASSUME faults' = 0, NEW r \in Receipts \ late, hashes'[r].stored PROVE Has(r)'
            BY <1>4 DEF Known
        <2>2. CASE \E x \in Senders : Unlinked(x)' /\ sender'[x].receipt = r
            BY <2>2
        <2>3. CASE hashes[r].stored
            <3>1. Has(r)
                BY <1>4, <2>1, <2>3 DEF Known
            <3>2. ASSUME NEW x \in Senders, Unlinked(x), sender[x].receipt = r PROVE Has(r)'
                BY <1>4, <3>2
            <3>3. ASSUME hashes[r].tx # 0, Standing(hashes[r].tx) \/ Fixing(hashes[r].tx) PROVE Has(r)'
                <4>1. hashes[r].tx \in 1..made
                    BY <3>3 DEF Hashed
                <4>2. \A t \in 1..made : Standing(t) \/ Fixing(t) => Standing(t)' \/ Fixing(t)'
                    BY <1>4, StillKnown
                <4>3. ASSUME NEW t \in 1..made, t = hashes[r].tx PROVE Has(r)'
                    <5>1. Standing(t)' \/ Fixing(t)'
                        BY <3>3, <4>2, <4>3
                    <5>2. hashes'[r].tx = t /\ t # 0
                        BY <1>4, <3>3, <4>3
                    <5> QED BY <5>1, <5>2 DEF Standing, Fixing
                <4> QED BY <4>1, <4>3
            <3> QED BY <3>1, <3>2, <3>3
        <2> QED BY <1>4, <2>1, <2>2, <2>3
    <1>5. ASSUME NEW s \in Senders, Send(s)
          PROVE  UNCHANGED <<late, faults>> /\ KeepsSenders /\ KeepsHashes
        <2>1. PICK r \in Receipts :
                 /\ sender[s].pc = "idle"
                 /\ sender'[s].pc = "create" /\ sender'[s].receipt = r
                 /\ \A x \in Senders : x # s => sender'[x] = sender[x]
                 /\ r \in Unreadable => UNCHANGED hashes
                 /\ r \notin Unreadable => hashes'[r].stored /\ hashes'[r].tx = hashes[r].tx
                 /\ \A x \in Receipts : x # r => hashes'[x] = hashes[x]
                 /\ UNCHANGED <<late, faults>>
            BY <1>5, Sent DEF Base
        <2>2. Unlinked(s)' /\ ~Unlinked(s)
            BY <2>1 DEF Unlinked
        <2>3. \A x \in Senders : Unlinked(x) => x # s
            BY <2>2
        <2>4. \A x \in Senders : Unlinked(x) => Unlinked(x)' /\ sender'[x].receipt = sender[x].receipt
            BY <2>1, <2>3 DEF Unlinked
        <2>5. \A x \in Receipts : hashes'[x].tx = hashes[x].tx /\ (x # r => hashes'[x] = hashes[x])
            BY <2>1
        <2> QED BY <2>1, <2>2, <2>4, <2>5
    <1> HIDE DEF KeepsSenders, KeepsHashes
    <1>6. ASSUME NEW s \in Senders, Send(s) \/ Create(s) \/ Schedule(s) PROVE Known'
        <2>1. admin' = admin /\ faults' = faults /\ ~Restart
            BY <1>6, Sent, StillUnlinked DEF Base, Restart, TypeInv
        <2>2. \A a \in Admins : ~Unhash(a)
            BY <2>1, Unhashed DEF IdleAdmin
        <2>3. CASE Send(s)
            <3>1. UNCHANGED <<late, faults>> /\ KeepsSenders /\ KeepsHashes
                BY <1>5, <2>3
            <3> QED BY <1>4, <2>1, <2>2, <3>1
        <2>4. CASE Create(s) \/ Schedule(s)
            <3>1. /\ \A x \in Senders : Unlinked(x) => Unlinked(x)' /\ sender'[x].receipt = sender[x].receipt
                  /\ UNCHANGED <<hashes, late, faults>>
                BY <2>4, StillUnlinked
            <3>2. KeepsSenders /\ KeepsHashes
                BY <3>1 DEF KeepsSenders, KeepsHashes
            <3> QED BY <1>4, <2>1, <2>2, <3>1, <3>2
        <2> QED BY <1>6, <2>3, <2>4
    <1>7. ASSUME ~Restart, \A a \in Admins : ~Unhash(a), UNCHANGED <<hashes, sender, late, faults>>
          PROVE  Known'
        BY <1>4, <1>7 DEF Unlinked, KeepsSenders, KeepsHashes
    <1>8. ASSUME NEW t \in Txs, Approve(t) \/ JobApproves(t) PROVE Known'
        <2>1. UNCHANGED <<hashes, sender, admin, late, faults>>
            BY <1>8 DEF Approve, JobApproves
        <2>2. ~Restart /\ \A a \in Admins : ~Unhash(a)
            BY <2>1, Unhashed DEF IdleAdmin, Restart, Base, TypeInv
        <2> QED BY <1>7, <2>1, <2>2
    <1>9. ASSUME NEW a \in Admins, (\E t \in Txs : Review(a, t)) \/ CancelSchedule(a) \/ Write(a)
          PROVE  Known'
        <2>1. UNCHANGED <<hashes, sender, late, faults>> /\ admin[a].pc # "unhash"
            BY <1>9 DEF Review, CancelSchedule, Write
        <2>2. \A x \in Admins : x # a => admin'[x] = admin[x]
            BY <1>9, Reviewed, Cancelled, Written
        <2>3. \A x \in Admins : ~Unhash(x)
            BY <2>1, <2>2, Unhashed DEF IdleAdmin
        <2>4. ~Restart
            BY <2>1 DEF Restart, Base, TypeInv
        <2> QED BY <1>7, <2>1, <2>3, <2>4
    <1>10. ASSUME JobLists \/ UNCHANGED vars PROVE Known'
        <2>1. UNCHANGED <<hashes, sender, admin, late, faults>>
            BY <1>10 DEF JobLists, vars
        <2>2. ~Restart /\ \A a \in Admins : ~Unhash(a)
            BY <2>1, Unhashed DEF IdleAdmin, Restart, Base, TypeInv
        <2> QED BY <1>7, <2>1, <2>2
    <1> QED BY <1>1, <1>2, <1>3, <1>6, <1>8, <1>9, <1>10 DEF Next

-----------------------------------------------------------------------------
(* The theorem.                                                            *)

ReceiptInv == TypeInv /\ MadeInTurn /\ Credited /\ Checked /\ Hashed /\ OneLive /\ Known

LEMMA ReceiptInit == ASSUME Sizes, Init PROVE ReceiptInv
    <1>1. TypeInv /\ MadeInTurn
        BY BaseInit
    <1>2. Credited /\ Checked
        BY DEF Init, Credited, Checked, NoTx
    <1>3. \A s \in Senders : ~Unlinked(s)
        BY DEF Init, Unlinked, IdleSender
    <1>4. \A t \in Txs : ~Fixing(t)
        BY DEF Init, Fixing, IdleAdmin
    <1>5. \A r \in Receipts : ~hashes[r].stored /\ hashes[r].tx = 0
        BY DEF Init, Absent
    <1>6. \A r \in Receipts : Live(r) = {}
        BY DEF Init, Live, TxsOf, NoTx, Sizes
    <1>7. UnhashIsFix
        BY DEF Init, UnhashIsFix, IdleAdmin
    <1>8. Hashed
        BY <1>3, <1>4, <1>5, <1>7 DEF Hashed, UnhashIsFix
    <1>9. OneLive
        BY <1>3, <1>5, <1>6 DEF OneLive
    <1>10. Known
        BY <1>5 DEF Known
    <1> QED BY <1>1, <1>2, <1>8, <1>9, <1>10 DEF ReceiptInv

LEMMA ReceiptStep == ASSUME Sizes, ReceiptInv, [Next]_vars PROVE ReceiptInv'
    <1>1. Base
        BY DEF Base, ReceiptInv
    <1>2. TypeInv' /\ MadeInTurn'
        BY <1>1, BaseStep
    <1>3. Credited' /\ Checked'
        BY <1>1, CreditedStep, CheckedStep DEF ReceiptInv
    <1>4. Hashed'
        BY <1>1, HashedStep DEF ReceiptInv
    <1>5. OneLive'
        BY <1>1, <1>4, OneLiveStep DEF ReceiptInv
    <1>6. Known'
        BY <1>1, KnownStep DEF ReceiptInv
    <1> QED BY <1>2, <1>3, <1>4, <1>5, <1>6 DEF ReceiptInv

LEMMA ReceiptImplies == ASSUME Sizes, ReceiptInv PROVE ReceiptsKeepFaith
    <1> USE DEF ReceiptInv
    <1>1. StatusTellsCredit
        BY DEF Credited, StatusTellsCredit
    <1>2. UncheckedNeedsAdmin
        BY DEF Checked, UncheckedNeedsAdmin
    <1>3. ReceiptCreditedOnce
        <2> SUFFICES ASSUME NEW r \in Receipts \ Unreadable, TxsOf(r) \cap overruled = {}
                     PROVE  Cardinality({t \in TxsOf(r) : credits[t] > 0}) <= 1
            BY DEF ReceiptCreditedOnce
        <2> DEFINE S == {t \in TxsOf(r) : credits[t] > 0}
        <2>1. \A t \in S : t \in Live(r)
            <3> SUFFICES ASSUME NEW t \in TxsOf(r), credits[t] > 0 PROVE t \in Live(r)
                OBVIOUS
            <3>1. t \in Txs /\ t \notin overruled
                BY DEF TxsOf
            <3>2. credits[t] \in Nat /\ credits[t] <= 1
                BY <3>1 DEF TypeInv, Credited
            <3>3. credits[t] = 1
                BY <3>2
            <3>4. txs[t].status = "approved"
                BY <3>1, <3>3 DEF Credited
            <3> QED BY <3>1, <3>4 DEF Live
        <2>2. \A t, u \in S : t = u
            BY <2>1 DEF OneLive
        <2>3. CASE S = {}
            BY <2>3, FS_EmptySet
        <2>4. ASSUME NEW t \in S PROVE Cardinality(S) <= 1
            <3>1. S = {t}
                BY <2>2, <2>4
            <3>2. Cardinality({t}) = 1
                BY FS_Singleton
            <3> QED BY <3>1, <3>2
        <2> HIDE DEF S
        <2>5. Cardinality(S) <= 1
            BY <2>3, <2>4, FS_EmptySet
        <2> QED BY <2>5 DEF S
    <1>4. RefusedIsKnown
        <2> SUFFICES ASSUME Quiet, faults = 0, NEW r \in Receipts \ late, hashes[r].stored
                     PROVE  \E t \in TxsOf(r) : txs[t].status # "needs_fix" \/ t \in overruled
            BY DEF RefusedIsKnown
        <2>1. (\A s \in Senders : ~Unlinked(s)) /\ \A t \in Txs : ~Fixing(t)
            BY DEF Quiet, Unlinked, Fixing
        <2>2. hashes[r].tx # 0 /\ (Standing(hashes[r].tx) \/ Fixing(hashes[r].tx))
            BY <2>1 DEF Known
        <2>3. hashes[r].tx \in 1..made /\ txs[hashes[r].tx].receipt = r
            BY <2>2 DEF Hashed
        <2>4. hashes[r].tx \in Txs
            BY <2>3 DEF TypeInv, Txs, Sizes
        <2>5. Standing(hashes[r].tx)
            BY <2>1, <2>2, <2>4
        <2>6. hashes[r].tx \in TxsOf(r)
            BY <2>3, <2>4 DEF TxsOf
        <2> QED BY <2>5, <2>6 DEF Standing
    <1> QED BY <1>1, <1>2, <1>3, <1>4 DEF ReceiptsKeepFaith

\* A receipt makes at most one charge however it is sent and reviewed, every
\* transaction is credited at most once and its status tells whether it was, what
\* could not be checked is left to an admin, and who is asked to send a photo again
\* can: for any number of photos, senders, reviews, restarts and transactions
\* (CardReceipts: receipt hash index, approve_manual, delete_by_transaction_id).
THEOREM ReceiptsKeepFaithAlways == ASSUME Sizes PROVE Spec => []ReceiptsKeepFaith
    <1>1. Init => ReceiptInv
        BY ReceiptInit
    <1>2. ReceiptInv /\ [Next]_vars => ReceiptInv'
        BY ReceiptStep
    <1>3. ReceiptInv => ReceiptsKeepFaith
        BY ReceiptImplies
    <1> QED BY <1>1, <1>2, <1>3, PTL DEF Spec
==============================================================================
