----------------------------- MODULE CardReceipts -----------------------------
(***************************************************************************)
(* Card-to-card payments: the user sends the photo of a receipt to the bot *)
(* (src/app/telegram/user/balance/messages.py) or in the web app           *)
(* (src/app/routers/webapp/balance.py), and the transaction it makes is    *)
(* approved by an admin or by the job, rejected, or sent back to be fixed  *)
(* (src/app/panel/mutations.py, src/app/telegram/admin/settings_payment/   *)
(* callbacks.py, src/app/jobs/payments/manual_card.py).                    *)
(*                                                                         *)
(* A hash of the photo with a unique index keeps a receipt from being      *)
(* used twice.  The hash is stored before the transaction, and is told its *)
(* transaction later: at once by the web app, after the log message with   *)
(* the admin's buttons by the bot.                                         *)
(***************************************************************************)
EXTENDS Naturals, FiniteSets

CONSTANTS
    Receipts,     \* photos
    Unreadable,   \* the photos of which no hash can be computed
    Senders,      \* messages with a receipt under way at once
    Admins,       \* reviews under way at once
    MAX_TXS,      \* bound on the transactions made
    MAX_FAULTS    \* bound on restarts

VARIABLES
    hashes,     \* hashes[r]: "absent", or the row's transaction_id (0: NULL)
    txs,        \* txs[t]: status, the receipt, and whether auto_approve_at is set
    made,
    credits,    \* credits[t]: how often t was added to the wallet
    sender, admin,
    job,        \* the due transactions the job has yet to look at
    auto,       \* history: the transactions the job approved
    overruled,  \* history: transactions whose review overwrote another one
    late,       \* history: photos whose hash was linked to a closed transaction
    faults

vars == <<hashes, txs, made, credits, sender, admin, job, auto, overruled, late, faults>>

Txs == 1..MAX_TXS
Absent == [linked |-> FALSE, tx |-> 0, stored |-> FALSE]
NoTx == [status |-> "none", receipt |-> "none", due |-> FALSE]
IdleSender == [pc |-> "idle", receipt |-> "none", bot |-> FALSE, tx |-> 0]
IdleAdmin == [pc |-> "idle", op |-> "reject", tx |-> 0]

Init ==
    /\ hashes = [r \in Receipts |-> Absent]
    /\ txs = [t \in Txs |-> NoTx] /\ made = 0
    /\ credits = [t \in Txs |-> 0]
    /\ sender = [s \in Senders |-> IdleSender]
    /\ admin = [a \in Admins |-> IdleAdmin]
    /\ job = {} /\ auto = {} /\ overruled = {} /\ late = {} /\ faults = 0

Pending(t) == txs[t].status = "pending"
Goes(s, pc) == sender' = [sender EXCEPT ![s].pc = pc]

-----------------------------------------------------------------------------
(* The receipt.                                                            *)

Sends(s, r) ==
    /\ \E bot \in BOOLEAN :
         sender' = [sender EXCEPT ![s] = [pc |-> "create", receipt |-> r, bot |-> bot, tx |-> 0]]
    /\ hashes' = IF r \in Unreadable THEN hashes ELSE [hashes EXCEPT ![r].stored = TRUE]
    /\ UNCHANGED <<txs, made, credits, admin, job, auto, overruled, late, faults>>

\* Mutant: the hash is stored whether or not it is there.
SendAgain(s) ==
    /\ sender[s].pc = "idle" /\ made < MAX_TXS
    /\ \E r \in Receipts : Sends(s, r)

\* ReceiptHashCRUD.try_insert: the index refuses a photo that is known.
Send(s) ==
    /\ sender[s].pc = "idle" /\ made < MAX_TXS
    /\ \E r \in Receipts : ~hashes[r].stored /\ Sends(s, r)

Create(s) ==
    /\ sender[s].pc = "create" /\ made < MAX_TXS
    /\ made' = made + 1
    /\ txs' = [txs EXCEPT ![made + 1] =
                 [status |-> "pending", receipt |-> sender[s].receipt, due |-> FALSE]]
    /\ sender' = [sender EXCEPT ![s].tx = made + 1,
                                ![s].pc = IF sender[s].bot THEN "schedule" ELSE "link"]
    /\ UNCHANGED <<hashes, credits, admin, job, auto, overruled, late, faults>>

\* Mutant: a rule may match a transaction without a hash.
ScheduleAny(s) ==
    /\ sender[s].pc = "schedule"
    /\ \E due \in BOOLEAN : txs' = [txs EXCEPT ![sender[s].tx].due = due]
    /\ IF sender[s].bot THEN Goes(s, "link") ELSE sender' = [sender EXCEPT ![s] = IdleSender]
    /\ UNCHANGED <<hashes, made, credits, admin, job, auto, overruled, late, faults>>

\* schedule_for_transaction: a rule matches or not; never without a hash.
Schedule(s) ==
    /\ sender[s].pc = "schedule"
    /\ \E due \in BOOLEAN :
         /\ due => sender[s].receipt \notin Unreadable
         /\ txs' = [txs EXCEPT ![sender[s].tx].due = @ \/ due]
    /\ IF sender[s].bot THEN Goes(s, "link") ELSE sender' = [sender EXCEPT ![s] = IdleSender]
    /\ UNCHANGED <<hashes, made, credits, admin, job, auto, overruled, late, faults>>

\* update_transaction_id: by the photo, whatever became of the transaction.
Link(s) ==
    /\ sender[s].pc = "link"
    /\ LET r == sender[s].receipt
       IN  /\ hashes' = IF hashes[r].stored THEN [hashes EXCEPT ![r].tx = sender[s].tx] ELSE hashes
           /\ late' = IF txs[sender[s].tx].status = "needs_fix" THEN late \cup {r} ELSE late
    /\ IF sender[s].bot THEN sender' = [sender EXCEPT ![s] = IdleSender] ELSE Goes(s, "schedule")
    /\ UNCHANGED <<txs, made, credits, admin, job, auto, overruled, faults>>

-----------------------------------------------------------------------------
(* The review.                                                             *)

\* Mutant: whatever the status.
ApprovedAgain(t) ==
    /\ txs[t].status # "none"
    /\ txs' = [txs EXCEPT ![t].status = "approved", ![t].due = FALSE]
    /\ credits' = [credits EXCEPT ![t] = @ + 1]

\* approve_manual looks at the status of the locked row.
Approved(t) ==
    /\ Pending(t)
    /\ txs' = [txs EXCEPT ![t].status = "approved", ![t].due = FALSE]
    /\ credits' = [credits EXCEPT ![t] = @ + 1]

Approve(t) ==
    /\ Approved(t)
    /\ UNCHANGED <<hashes, made, sender, admin, job, auto, overruled, late, faults>>

\* get_pending_manual_due_auto_approve.
JobLists ==
    /\ job = {}
    /\ job' = {t \in Txs : Pending(t) /\ txs[t].due}
    /\ job' # {}
    /\ UNCHANGED <<hashes, txs, made, credits, sender, admin, auto, overruled, late, faults>>

JobApproves(t) ==
    /\ t \in job
    /\ job' = job \ {t}
    /\ IF Pending(t) THEN Approved(t) /\ auto' = auto \cup {t} ELSE UNCHANGED <<txs, credits, auto>>
    /\ UNCHANGED <<hashes, made, sender, admin, overruled, late, faults>>

\* The bot and the panel reject, the panel asks for a fix: the row is read ...
Review(a, t) ==
    /\ admin[a].pc = "idle" /\ Pending(t)
    /\ \E op \in {"rejectInBot", "reject", "fix"} :
         admin' = [admin EXCEPT ![a] =
           [pc |-> IF op = "rejectInBot" THEN "cancel" ELSE "write", op |-> op, tx |-> t]]
    /\ UNCHANGED <<hashes, txs, made, credits, sender, job, auto, overruled, late, faults>>

\* cancel_schedule: by the bot before it rejects, by the panel afterwards.
CancelSchedule(a) ==
    /\ admin[a].pc \in {"cancel", "cancelled"}
    /\ txs' = [txs EXCEPT ![admin[a].tx].due = FALSE]
    /\ admin' = [admin EXCEPT ![a] =
         IF admin[a].pc = "cancel" THEN [@ EXCEPT !.pc = "write"]
         ELSE IF admin[a].op = "fix" THEN [@ EXCEPT !.pc = "unhash"] ELSE IdleAdmin]
    /\ UNCHANGED <<hashes, made, credits, sender, job, auto, overruled, late, faults>>

\* ... and written later, UPDATE ... WHERE id = t.
Write(a) ==
    /\ admin[a].pc = "write"
    /\ LET t == admin[a].tx
           fix == admin[a].op = "fix"
       IN  /\ txs' = [txs EXCEPT ![t].status = IF fix THEN "needs_fix" ELSE "rejected",
                                 ![t].due = @ /\ ~fix]
           /\ overruled' = IF Pending(t) THEN overruled ELSE overruled \cup {t}
           /\ admin' = [admin EXCEPT ![a] =
                IF admin[a].op = "rejectInBot" THEN IdleAdmin ELSE [@ EXCEPT !.pc = "cancelled"]]
    /\ UNCHANGED <<hashes, made, credits, sender, job, auto, late, faults>>

\* Mutant: the hash stays.
UnhashNothing(a) ==
    /\ admin[a].pc = "unhash"
    /\ admin' = [admin EXCEPT ![a] = IdleAdmin]
    /\ UNCHANGED <<hashes, txs, made, credits, sender, job, auto, overruled, late, faults>>

\* delete_by_transaction_id: the photo may be sent again.
Unhash(a) ==
    /\ admin[a].pc = "unhash"
    /\ hashes' = [r \in Receipts |->
         IF hashes[r].stored /\ hashes[r].tx = admin[a].tx THEN Absent ELSE hashes[r]]
    /\ admin' = [admin EXCEPT ![a] = IdleAdmin]
    /\ UNCHANGED <<txs, made, credits, sender, job, auto, overruled, late, faults>>

-----------------------------------------------------------------------------
Restart ==
    /\ faults < MAX_FAULTS /\ faults' = faults + 1
    /\ sender' = [s \in Senders |-> IdleSender]
    /\ admin' = [a \in Admins |-> IdleAdmin]
    /\ job' = {}
    /\ UNCHANGED <<hashes, txs, made, credits, auto, overruled, late>>

Next ==
    \/ \E s \in Senders : Send(s) \/ Create(s) \/ Schedule(s) \/ Link(s)
    \/ \E t \in Txs : Approve(t) \/ JobApproves(t) \/ \E a \in Admins : Review(a, t)
    \/ \E a \in Admins : CancelSchedule(a) \/ Write(a) \/ Unhash(a)
    \/ JobLists \/ Restart

Spec == Init /\ [][Next]_vars

-----------------------------------------------------------------------------
(* Properties.                                                             *)

TxsOf(r) == {t \in Txs : txs[t].receipt = r}

\* A transaction is added to the wallet at most once, whoever approves it, and
\* its status tells whether it was, unless a review read the row before another
\* review ended it (the writes of a rejection and of a fix are not locked).
StatusTellsCredit ==
    \A t \in Txs :
        /\ credits[t] <= 1
        /\ t \notin overruled => (credits[t] = 1 <=> txs[t].status = "approved")

\* A receipt that was sent before makes no second charge (user/balance.mdx),
\* although a receipt may be sent again once it is to be fixed: at most one of
\* its transactions is credited, unless a fix was asked of a credited one.
ReceiptCreditedOnce ==
    \A r \in Receipts \ Unreadable :
        TxsOf(r) \cap overruled = {} => Cardinality({t \in TxsOf(r) : credits[t] > 0}) <= 1

\* A photo whose duplicate check could not run is credited by an admin only
\* (schedule_for_transaction, manual_only).
UncheckedNeedsAdmin == \A t \in auto : txs[t].receipt \notin Unreadable

Quiet == (\A s \in Senders : sender[s].pc = "idle") /\ (\A a \in Admins : admin[a].pc = "idle")

\* A user who is told to send a receipt again can do so: with nobody at work the
\* photo of a transaction to be fixed is no duplicate, and a photo that is one
\* has a transaction, unless the process died, or the bot linked the photo to a
\* transaction that had been sent back before.
RefusedIsKnown ==
    Quiet /\ faults = 0 => \A r \in Receipts \ late :
        hashes[r].stored => \E t \in TxsOf(r) : txs[t].status # "needs_fix" \/ t \in overruled

\* The credits of a photo and of a transaction, who may give them, and who may send a
\* photo again.
ReceiptsKeepFaith ==
    ReceiptCreditedOnce /\ StatusTellsCredit /\ UncheckedNeedsAdmin /\ RefusedIsKnown

=============================================================================
