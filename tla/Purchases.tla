----------------------------- MODULE Purchases -----------------------------
(***************************************************************************)
(* Purchases of one user that change four systems one after the other: a   *)
(* use of a discount code, the wallet, the panel and the service row.  The *)
(* flows of the code do it in different orders and undo different parts    *)
(* when a step fails:                                                      *)
(*   webapp    src/app/services/webapp_purchase.py                         *)
(*   shop      src/app/telegram/user/shop/helpers.py                       *)
(*   reseller  src/app/services/reseller/purchase.py                       *)
(*   renew     src/app/routers/webapp/renew.py, under a lock of the        *)
(*             service, with services/billing/renewal.py                   *)
(*   direct    src/app/services/billing/direct_pay_renew.py                *)
(*   chat      src/app/telegram/user/services/callbacks.py, with           *)
(*             services/billing/wallet_charge.py                           *)
(*   upgrade   src/app/routers/webapp/upgrade.py, with wallet_charge.py    *)
(* The last four raise the data limit of one panel user, which they read   *)
(* first; the others create a panel user or admin of their own.  What an   *)
(* order has yet to do is the sequence of its remaining steps.             *)
(***************************************************************************)
EXTENDS Integers, Sequences, FiniteSets

CONSTANTS
    Orders,       \* orders of the user; each costs 1, or is free
    Flows,        \* the flows considered
    LIMIT,        \* usage_limit of the discount code
    WALLET,       \* the wallet at the start
    MAX_FAULTS,   \* bound on lost answers and failed writes and cleanups
    MAX_RESTARTS  \* bound on restarts of the process

VARIABLES
    wallet,   \* users.amount
    uses,     \* times_used of the discount code
    limit,    \* what was added to the data limit of the panel user
    orders,   \* orders[o]: its flow, its steps to do and what it has done
    mishaps,  \* history: orders hit by a failure that the code does not undo
    raced,    \* history: a data limit was computed from one since replaced
    faults, restarts

vars == <<wallet, uses, limit, orders, mishaps, raced, faults, restarts>>

NoOrder == [flow |-> "none", code |-> FALSE, todo |-> <<>>, seen |-> 0,
            use |-> FALSE, paid |-> FALSE, made |-> FALSE, row |-> FALSE]

Init ==
    /\ wallet = WALLET /\ uses = 0 /\ limit = 0 /\ faults = 0 /\ restarts = 0 /\ raced = FALSE
    /\ orders = [o \in Orders |-> NoOrder]
    /\ mishaps = {}

-----------------------------------------------------------------------------
(* The flows.                                                              *)

Steps(flow) ==
    CASE flow = "webapp" -> <<"check", "make", "claim", "debit", "row">>
      [] flow = "shop" -> <<"claim", "debit", "make", "show", "row">>
      [] flow = "reseller" -> <<"claim", "debit", "make", "row">>
      [] flow = "renew" -> <<"check", "read", "claim", "debit", "make", "row">>
      [] flow = "direct" -> <<"claim", "read", "debit", "make", "row">>
      [] flow = "chat" -> <<"claim", "debit", "read", "make", "row">>
      [] flow = "upgrade" -> <<"debit", "read", "make", "row">>

\* Mutant: the web app keeps the use of the code when the debit fails.
UndoKeepsUse(flow, step) ==
    CASE flow = "webapp" /\ step = "claim" -> <<"remove">>
      [] flow = "webapp" /\ step = "debit" -> <<"remove">>
      [] flow = "webapp" /\ step = "row" -> <<"refund", "release", "remove">>
      [] flow = "reseller" /\ step = "row" -> <<"remove", "refund", "release">>
      [] flow # "webapp" /\ step = "debit" -> <<"release">>
      [] flow # "webapp" /\ step = "make" -> <<"refund", "release">>
      [] flow = "direct" /\ step = "read" -> <<"release">>
      [] flow \in {"chat", "upgrade"} /\ step = "read" -> <<"refund", "release">>
      [] OTHER -> <<>>

\* What is undone when a step fails, in the order of the code.
Undo(flow, step) ==
    CASE flow = "webapp" /\ step = "claim" -> <<"remove">>
      [] flow = "webapp" /\ step = "debit" -> <<"release", "remove">>
      [] flow = "webapp" /\ step = "row" -> <<"refund", "release", "remove">>
      [] flow = "reseller" /\ step = "row" -> <<"remove", "refund", "release">>
      [] flow # "webapp" /\ step = "debit" -> <<"release">>
      [] flow # "webapp" /\ step = "make" -> <<"refund", "release">>
      [] flow = "direct" /\ step = "read" -> <<"release">>
      [] flow \in {"chat", "upgrade"} /\ step = "read" -> <<"refund", "release">>
      [] OTHER -> <<>>

Reads(flow) == flow \in {"renew", "direct", "chat", "upgrade"}
Busy(o) == orders[o].todo # <<>>
At(o, step) == Busy(o) /\ Head(orders[o].todo) = step

\* The order with its first step done and the fields of change in place.
Done(o, change) ==
    [f \in DOMAIN orders[o] |->
        IF f \in DOMAIN change THEN change[f]
        ELSE IF f = "todo" THEN Tail(orders[o].todo) ELSE orders[o][f]]

Does(o, change) == orders' = [orders EXCEPT ![o] = Done(o, change)]
FailsAt(o, step) == orders' = [orders EXCEPT ![o].todo = Undo(orders[o].flow, step)]

-----------------------------------------------------------------------------
(* Steps.                                                                  *)

\* confirm_renew waits for renew_confirm_lock.
Start(o) ==
    /\ orders[o] = NoOrder
    /\ \E f \in Flows, c \in BOOLEAN :
         /\ f = "upgrade" => ~c
         /\ f = "renew" => \A x \in Orders : Busy(x) => orders[x].flow # "renew"
         /\ orders' = [orders EXCEPT ![o] = [NoOrder EXCEPT !.flow = f, !.code = c, !.todo = Steps(f)]]
    /\ UNCHANGED <<wallet, uses, limit, mishaps, raced, faults, restarts>>

\* The balance that is only looked at.
Check(o) ==
    /\ At(o, "check")
    /\ IF wallet >= 1 THEN Does(o, <<>>) ELSE FailsAt(o, "check")
    /\ UNCHANGED <<wallet, uses, limit, mishaps, raced, faults, restarts>>

\* Mutant: the limit is not checked when the use is taken.
ClaimUnchecked(o) ==
    /\ At(o, "claim")
    /\ uses' = uses + IF orders[o].code THEN 1 ELSE 0
    /\ Does(o, [use |-> orders[o].code])
    /\ UNCHANGED <<wallet, limit, mishaps, raced, faults, restarts>>

\* claim_discount_use: the limit is checked by the UPDATE that takes the use.
\* What was paid for directly is renewed without one.
Claim(o) ==
    /\ At(o, "claim")
    /\ IF ~orders[o].code THEN Does(o, <<>>) /\ UNCHANGED uses
       ELSE IF uses < LIMIT THEN uses' = uses + 1 /\ Does(o, [use |-> TRUE])
       ELSE /\ IF orders[o].flow = "direct" THEN Does(o, [code |-> FALSE]) ELSE FailsAt(o, "claim")
            /\ UNCHANGED uses
    /\ UNCHANGED <<wallet, limit, mishaps, raced, faults, restarts>>

\* debit_Money_if_sufficient: one transaction with the row locked.
Debit(o) ==
    /\ At(o, "debit")
    /\ IF wallet >= 1 THEN wallet' = wallet - 1 /\ Does(o, [paid |-> TRUE])
                      ELSE FailsAt(o, "debit") /\ UNCHANGED wallet
    /\ UNCHANGED <<uses, limit, mishaps, raced, faults, restarts>>

Read(o) ==
    /\ At(o, "read")
    /\ Does(o, [seen |-> limit])
    /\ UNCHANGED <<wallet, uses, limit, mishaps, raced, faults, restarts>>

\* Mutant: the limit read is written back.
AppliesNothing(o) ==
    /\ limit' = IF Reads(orders[o].flow) THEN orders[o].seen ELSE limit
    /\ raced' = (raced \/ (Reads(orders[o].flow) /\ limit # orders[o].seen))

\* The panel user is created, or its limit set to the limit read and one more.
Applied(o) ==
    /\ limit' = IF Reads(orders[o].flow) THEN orders[o].seen + 1 ELSE limit
    /\ raced' = (raced \/ (Reads(orders[o].flow) /\ limit # orders[o].seen))

Make(o) ==
    /\ At(o, "make")
    /\ Applied(o)
    /\ Does(o, [made |-> TRUE])
    /\ UNCHANGED <<wallet, uses, mishaps, faults, restarts>>

PanelFails(o) ==
    /\ \E s \in {"read", "make"} : At(o, s) /\ FailsAt(o, s)
    /\ UNCHANGED <<wallet, uses, limit, mishaps, raced, faults, restarts>>

\* The panel did it and the answer was lost.
AnswerLost(o) ==
    /\ At(o, "make") /\ faults < MAX_FAULTS
    /\ Applied(o)
    /\ orders' = [orders EXCEPT ![o].made = TRUE, ![o].todo = Undo(orders[o].flow, "make")]
    /\ mishaps' = mishaps \cup {o}
    /\ faults' = faults + 1
    /\ UNCHANGED <<wallet, uses, restarts>>

\* Shop: the message of the order is deleted, the texts are built.
Show(o) ==
    /\ At(o, "show")
    /\ Does(o, <<>>)
    /\ UNCHANGED <<wallet, uses, limit, mishaps, raced, faults, restarts>>

ShowFails(o) ==
    /\ At(o, "show") /\ faults < MAX_FAULTS
    /\ FailsAt(o, "show")
    /\ mishaps' = mishaps \cup {o} /\ faults' = faults + 1
    /\ UNCHANGED <<wallet, uses, limit, raced, restarts>>

StoreRow(o) ==
    /\ At(o, "row")
    /\ Does(o, [row |-> TRUE])
    /\ UNCHANGED <<wallet, uses, limit, mishaps, raced, faults, restarts>>

\* The database refuses the row: create_service and update_service return
\* False, which only the webapp and the reseller flow look at.
StoreRowFails(o) ==
    /\ At(o, "row") /\ faults < MAX_FAULTS
    /\ FailsAt(o, "row")
    /\ mishaps' = IF Undo(orders[o].flow, "row") = <<>> THEN mishaps \cup {o} ELSE mishaps
    /\ faults' = faults + 1
    /\ UNCHANGED <<wallet, uses, limit, raced, restarts>>

-----------------------------------------------------------------------------
(* Undoing.                                                                *)

Refund(o) ==
    /\ At(o, "refund")
    /\ wallet' = wallet + 1
    /\ Does(o, [paid |-> FALSE])
    /\ UNCHANGED <<uses, limit, mishaps, raced, faults, restarts>>

\* release_discount_use, called only when a code was used.
Release(o) ==
    /\ At(o, "release")
    /\ uses' = IF orders[o].code /\ uses > 0 THEN uses - 1 ELSE uses
    /\ Does(o, [use |-> FALSE])
    /\ UNCHANGED <<wallet, limit, mishaps, raced, faults, restarts>>

Remove(o) ==
    /\ At(o, "remove")
    /\ Does(o, [made |-> FALSE])
    /\ UNCHANGED <<wallet, uses, limit, mishaps, raced, faults, restarts>>

\* Errors of a cleanup or a release are logged, and the rest is undone.
UndoFails(o) ==
    /\ At(o, "remove") \/ (At(o, "release") /\ orders[o].code)
    /\ faults < MAX_FAULTS
    /\ Does(o, <<>>)
    /\ mishaps' = mishaps \cup {o} /\ faults' = faults + 1
    /\ UNCHANGED <<wallet, uses, limit, raced, restarts>>

\* The process dies: orders under way stop where they are.
Restart ==
    /\ restarts < MAX_RESTARTS /\ \E o \in Orders : Busy(o)
    /\ orders' = [o \in Orders |-> [orders[o] EXCEPT !.todo = <<>>]]
    /\ mishaps' = mishaps \cup {o \in Orders : Busy(o)}
    /\ restarts' = restarts + 1
    /\ UNCHANGED <<wallet, uses, limit, raced, faults>>

Next ==
    \/ \E o \in Orders :
         \/ Start(o) \/ Check(o) \/ Claim(o) \/ Debit(o) \/ Read(o) \/ Make(o)
         \/ PanelFails(o) \/ AnswerLost(o) \/ Show(o) \/ ShowFails(o)
         \/ StoreRow(o) \/ StoreRowFails(o)
         \/ Refund(o) \/ Release(o) \/ Remove(o) \/ UndoFails(o)
    \/ Restart

Spec == Init /\ [][Next]_vars

-----------------------------------------------------------------------------
(* Properties.                                                             *)

Ended(o) == orders[o] # NoOrder /\ ~Busy(o)

\* Whatever order a flow takes its steps in, an order that met no failure the
\* code leaves alone is whole: paid, on the panel and in the table, or none of
\* them, with the use of the code given back.
AllOrNothing ==
    \A o \in Orders : Ended(o) /\ o \notin mishaps =>
        LET r == orders[o]
        IN  \/ r.paid /\ r.made /\ r.row /\ r.use = r.code
            \/ ~r.paid /\ ~r.made /\ ~r.row /\ ~r.use

\* claim_discount_use and release_discount_use: however purchases interleave,
\* fail and are undone, no more orders hold the code than its limit, none of
\* their uses is given away, and the wallet is never overdrawn.
CodeWithinLimit ==
    /\ wallet >= 0
    /\ Cardinality({o \in Orders : orders[o].use}) <= uses
    /\ uses <= LIMIT

Raises == {o \in Orders : Ended(o) /\ orders[o].paid /\ Reads(orders[o].flow)}

\* A paid addition to the data limit is on the panel as long as no purchase
\* wrote a limit computed from one read before another purchase's write.
RaisedWhenAlone ==
    ~raced /\ mishaps = {} => Cardinality(Raises) <= limit

=============================================================================
