------------------------------- MODULE DirectPay -------------------------------
(***************************************************************************)
(* A purchase that waits for its payment: the user orders something the    *)
(* wallet does not cover, tops up the difference, and the purchase is made *)
(* when the payment is credited (src/app/services/billing/                 *)
(* direct_pay_store.py, direct_pay_fulfillment.py).  A user has one        *)
(* record, and a claim of limited life, both keys of Redis; every function *)
(* reads the record, awaits, and writes its copy back.                     *)
(***************************************************************************)
EXTENDS Naturals

CONSTANTS
    Cards, Coins,   \* card-to-card transactions and crypto invoices of the user
    MAX_PURCHASES, MAX_LAPSES, MAX_FAULTS   \* bounds

VARIABLES
    record,    \* direct_pay:user: the purchase, its status and its payments
    links,     \* payments that have a direct_pay:tx or direct_pay:crypto key
    claim,     \* direct_pay:claim is set
    saved,     \* purchases saved so far; their ids are 1..saved
    user,      \* what the user does
    settle,    \* settle[o]: what follows the credit or the rejection of payment o
    payment,   \* payment[o]: "none", "open", "credited", "rejected", or
               \* "approved": credited by an admin of the web panel
    created,   \* history: created[p]: how often purchase p was made
    crossed,   \* history: the record was written while a payment was settled
    lapses, faults   \* claims that timed out, and restarts

vars == <<record, links, claim, saved, user, settle, payment, created, crossed, lapses, faults>>

Orders == Cards \cup Coins
None == "none"
NoRecord == [id |-> 0, status |-> None, card |-> None, coin |-> None]
Active == {"pending", "linked"}
Idle == [pc |-> "idle", copy |-> NoRecord, order |-> None]
Done == [pc |-> "idle", copy |-> NoRecord, made |-> FALSE]

Init ==
    /\ record = NoRecord /\ links = {} /\ claim = FALSE /\ saved = 0
    /\ user = Idle
    /\ settle = [o \in Orders |-> Done]
    /\ payment = [o \in Orders |-> "none"]
    /\ created = [p \in 1..MAX_PURCHASES |-> 0]
    /\ crossed = FALSE /\ lapses = 0 /\ faults = 0

PaymentsOf(rec) == {rec.card, rec.coin} \ {None}
LinkedTo(rec, o) ==
    IF o \in Cards THEN [rec EXCEPT !.card = o, !.status = "linked"]
                   ELSE [rec EXCEPT !.coin = o, !.status = "linked"]

-----------------------------------------------------------------------------
(* cancel_pending_for_user, for the user or for a rejected payment.        *)

CancelWrite(copy) ==
    /\ links' = links \ PaymentsOf(copy)
    /\ record' = IF copy.status \in Active \cup {"fulfilling"}
                 THEN [copy EXCEPT !.status = "cancelled"] ELSE record

-----------------------------------------------------------------------------
(* The user orders, and opens payments for the order.                      *)

Save ==
    /\ user.pc = "idle" /\ saved < MAX_PURCHASES
    /\ user' = [user EXCEPT !.pc = IF record = NoRecord THEN "save" ELSE "cancel", !.copy = record]
    /\ UNCHANGED <<record, links, claim, saved, settle, payment, created, crossed, lapses, faults>>

Settling == \E o \in Orders : settle[o].pc # "idle"
MarkCrossing == crossed' = (crossed \/ Settling)

SaveCancels ==
    /\ user.pc = "cancel"
    /\ CancelWrite(user.copy)
    /\ user' = [user EXCEPT !.pc = "unclaim"]
    /\ MarkCrossing
    /\ UNCHANGED <<claim, saved, settle, payment, created, lapses, faults>>

SaveUnclaims ==
    /\ user.pc = "unclaim"
    /\ claim' = FALSE
    /\ user' = [user EXCEPT !.pc = "save"]
    /\ MarkCrossing
    /\ UNCHANGED <<record, links, saved, settle, payment, created, lapses, faults>>

SaveWrites ==
    /\ user.pc = "save"
    /\ saved' = saved + 1
    /\ record' = [NoRecord EXCEPT !.id = saved + 1, !.status = "pending"]
    /\ user' = Idle
    /\ MarkCrossing
    /\ UNCHANGED <<links, claim, settle, payment, created, lapses, faults>>

\* The payment is opened before it is linked, so it may be credited before.
Open(o) ==
    /\ user.pc = "idle" /\ payment[o] = "none"
    /\ record.status \in Active
    /\ payment' = [payment EXCEPT ![o] = "open"]
    /\ user' = [pc |-> "link", copy |-> NoRecord, order |-> o]
    /\ UNCHANGED <<record, links, claim, saved, settle, created, crossed, lapses, faults>>

\* link_transaction, link_crypto_order.
Link ==
    /\ user.pc = "link"
    /\ user' = IF record.status \in Active THEN [user EXCEPT !.pc = "write", !.copy = record] ELSE Idle
    /\ crossed' = (crossed \/ Settling \/ payment[user.order] # "open")
    /\ UNCHANGED <<record, links, claim, saved, settle, payment, created, lapses, faults>>

LinkWrites ==
    /\ user.pc = "write"
    /\ record' = LinkedTo(user.copy, user.order)
    /\ user' = [user EXCEPT !.pc = "key"]
    /\ crossed' = (crossed \/ Settling \/ record # user.copy \/ payment[user.order] # "open")
    /\ UNCHANGED <<links, claim, saved, settle, payment, created, lapses, faults>>

\* Mutant: the record names the payment, the payment's key is not set.
KeyForgotten ==
    /\ user.pc = "key"
    /\ user' = Idle
    /\ crossed' = (crossed \/ payment[user.order] # "open")
    /\ UNCHANGED <<record, links, claim, saved, settle, payment, created, lapses, faults>>

LinkKey ==
    /\ user.pc = "key"
    /\ links' = links \cup {user.order}
    /\ user' = Idle
    /\ crossed' = (crossed \/ payment[user.order] # "open")
    /\ UNCHANGED <<record, claim, saved, settle, payment, created, lapses, faults>>

-----------------------------------------------------------------------------
(* A credited payment: try_fulfill_after_manual_credit, _crypto_credit.    *)

Goes(o, pc) == settle' = [settle EXCEPT ![o].pc = pc]
Ends(o) == settle' = [settle EXCEPT ![o] = Done]
Finds(o) == o \in links /\ o \in PaymentsOf(record)

Credit(o) ==
    /\ payment[o] = "open"
    /\ payment' = [payment EXCEPT ![o] = "credited"]
    /\ Goes(o, "find")
    /\ UNCHANGED <<record, links, claim, saved, user, created, crossed, lapses, faults>>

Find(o) ==
    /\ settle[o].pc = "find"
    /\ IF Finds(o) THEN Goes(o, "claim") ELSE Ends(o)
    /\ UNCHANGED <<record, links, claim, saved, user, payment, created, crossed, lapses, faults>>

\* SET NX.
Claim(o) ==
    /\ settle[o].pc = "claim"
    /\ claim' = TRUE
    /\ IF claim THEN Ends(o) ELSE Goes(o, "read")
    /\ UNCHANGED <<record, links, saved, user, payment, created, crossed, lapses, faults>>

\* Mutant: the status of the record is not looked at.
ClaimReadsAny(o) ==
    /\ settle[o].pc = "read"
    /\ settle' = [settle EXCEPT ![o].pc = IF record # NoRecord THEN "begin" ELSE "unclaim",
                                ![o].copy = record]
    /\ UNCHANGED <<record, links, claim, saved, user, payment, created, crossed, lapses, faults>>

\* Whatever record the user has by now.
ClaimReads(o) ==
    /\ settle[o].pc = "read"
    /\ settle' = [settle EXCEPT ![o].pc = IF record.status \in Active THEN "begin" ELSE "unclaim",
                                ![o].copy = record]
    /\ UNCHANGED <<record, links, claim, saved, user, payment, created, crossed, lapses, faults>>

ClaimWrites(o) ==
    /\ settle[o].pc = "begin"
    /\ record' = [settle[o].copy EXCEPT !.status = "fulfilling"]
    /\ Goes(o, "make")
    /\ UNCHANGED <<links, claim, saved, user, payment, created, crossed, lapses, faults>>

\* The purchase is made, or the balance, the panel or the plan do not allow it.
Make(o) ==
    /\ settle[o].pc = "make"
    /\ \E made \in BOOLEAN :
         /\ settle' = [settle EXCEPT ![o].pc = "mark", ![o].made = made]
         /\ created' = [created EXCEPT ![settle[o].copy.id] = @ + IF made THEN 1 ELSE 0]
    /\ UNCHANGED <<record, links, claim, saved, user, payment, crossed, lapses, faults>>

\* mark_status, and after success clear_pending: on the record there is now.
MarkReads(o) ==
    /\ settle[o].pc = "mark"
    /\ IF record # NoRecord
       THEN settle' = [settle EXCEPT ![o].pc = "marked", ![o].copy = record]
       ELSE IF settle[o].made THEN Goes(o, "clear") ELSE Ends(o)
    /\ UNCHANGED <<record, links, claim, saved, user, payment, created, crossed, lapses, faults>>

MarkWrites(o) ==
    /\ settle[o].pc = "marked"
    /\ record' = [settle[o].copy EXCEPT !.status = IF settle[o].made THEN "fulfilled" ELSE "failed"]
    /\ Goes(o, IF settle[o].made THEN "unclaimAndClear" ELSE "unclaim")
    /\ UNCHANGED <<links, claim, saved, user, payment, created, crossed, lapses, faults>>

Clear(o) ==
    /\ settle[o].pc = "clear"
    /\ links' = links \ PaymentsOf(record)
    /\ record' = NoRecord
    /\ Goes(o, "unclaim")
    /\ UNCHANGED <<claim, saved, user, payment, created, crossed, lapses, faults>>

\* Mutant: the claim is given back after a success only.
UnclaimMade(o) ==
    /\ settle[o].pc \in {"unclaim", "unclaimAndClear"}
    /\ claim' = (claim /\ ~settle[o].made)
    /\ IF settle[o].pc = "unclaim" THEN Ends(o) ELSE Goes(o, "clear")
    /\ UNCHANGED <<record, links, saved, user, payment, created, crossed, lapses, faults>>

Unclaim(o) ==
    /\ settle[o].pc \in {"unclaim", "unclaimAndClear"}
    /\ claim' = FALSE
    /\ IF settle[o].pc = "unclaim" THEN Ends(o) ELSE Goes(o, "clear")
    /\ UNCHANGED <<record, links, saved, user, payment, created, crossed, lapses, faults>>

-----------------------------------------------------------------------------
(* A rejected or expired payment.                                          *)

Reject(o) ==
    /\ payment[o] = "open"
    /\ payment' = [payment EXCEPT ![o] = "rejected"]
    /\ Goes(o, "rejected")
    /\ UNCHANGED <<record, links, claim, saved, user, created, crossed, lapses, faults>>

\* cancel_after_manual_reject, cancel_after_crypto_expire.
RejectFinds(o) ==
    /\ settle[o].pc = "rejected"
    /\ IF Finds(o) THEN settle' = [settle EXCEPT ![o].pc = "cancel", ![o].copy = record] ELSE Ends(o)
    /\ UNCHANGED <<record, links, claim, saved, user, payment, created, crossed, lapses, faults>>

RejectCancels(o) ==
    /\ settle[o].pc = "cancel"
    /\ CancelWrite(settle[o].copy)
    /\ Goes(o, "unclaim")
    /\ UNCHANGED <<claim, saved, user, payment, created, crossed, lapses, faults>>

\* An admin of the web panel settles a card transaction; nobody looks at the
\* purchase that waits for it.
PanelSettles(o) ==
    /\ o \in Cards /\ payment[o] = "open"
    /\ \E outcome \in {"approved", "rejected"} : payment' = [payment EXCEPT ![o] = outcome]
    /\ UNCHANGED <<record, links, claim, saved, user, settle, created, crossed, lapses, faults>>

-----------------------------------------------------------------------------
\* Its life of at least a minute outlasts the commands of Redis between SET NX
\* and the write, but not what is made.
ClaimLapses ==
    /\ claim /\ lapses < MAX_LAPSES
    /\ \A o \in Orders : settle[o].pc \notin {"read", "begin"}
    /\ claim' = FALSE /\ lapses' = lapses + 1
    /\ UNCHANGED <<record, links, saved, user, settle, payment, created, crossed, faults>>

Restart ==
    /\ faults < MAX_FAULTS /\ faults' = faults + 1
    /\ user' = Idle
    /\ settle' = [o \in Orders |-> Done]
    /\ UNCHANGED <<record, links, claim, saved, payment, created, crossed, lapses>>

UserStep ==
    \/ Save \/ SaveCancels \/ SaveUnclaims \/ SaveWrites
    \/ (\E o \in Orders : Open(o)) \/ Link \/ LinkWrites \/ LinkKey

SettleStep(o) ==
    \/ Find(o) \/ Claim(o) \/ ClaimReads(o) \/ ClaimWrites(o) \/ Make(o)
    \/ MarkReads(o) \/ MarkWrites(o) \/ Clear(o) \/ Unclaim(o)
    \/ RejectFinds(o) \/ RejectCancels(o)

Next ==
    \/ UserStep
    \/ \E o \in Orders : Credit(o) \/ Reject(o) \/ PanelSettles(o) \/ SettleStep(o)
    \/ ClaimLapses \/ Restart

Spec == Init /\ [][Next]_vars

-----------------------------------------------------------------------------
(* Properties.                                                             *)

Rest == user.pc = "idle" /\ \A o \in Orders : settle[o].pc = "idle"

\* Two payments of one purchase, credited at the same time, make it once, even
\* if a claim times out or the process dies in between ("idempotency", claim_for_
\* fulfillment): as long as nobody writes the record while a payment is settled.
AtMostOnce == crossed \/ \A p \in 1..MAX_PURCHASES : created[p] <= 1

\* When all is at rest and the process did not die, no claim is left that would
\* stop the next payment, and no purchase hangs half-way.
RestIsOpen == Rest /\ faults = 0 => ~claim /\ record.status # "fulfilling"

\* A purchase that still waits at rest waits for its payments: none of them was
\* credited by the bot or a job without the purchase being tried.  (Approved in
\* the web panel it may be: PanelSettles.)
PaidIsMade ==
    Rest /\ ~crossed /\ faults = 0 /\ record.status = "linked" =>
        \A o \in PaymentsOf(record) : payment[o] # "credited"

=============================================================================
