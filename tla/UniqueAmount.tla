---------------------------- MODULE UniqueAmount ----------------------------
(***************************************************************************)
(* add_order_with_unique_amount of src/app/db/crud/cryptopayments.py: many *)
(* coroutines (bot handlers and web app requests) create invoices of one   *)
(* network at the same time, each with an amount by which the payment jobs *)
(* must later recognise it.  Reading the pending amounts and inserting are *)
(* two transactions, so the row is inserted first and then re-checked.     *)
(*                                                                         *)
(* A creator is known by the number of the invoice it creates.  Between    *)
(* two of its database calls any other coroutine may run; the payment job  *)
(* is represented by what it may do to a row (JobSettles).                 *)
(***************************************************************************)
EXTENDS CryptoStore

CONSTANTS
    Attempts,       \* UNIQUE_AMOUNT_ATTEMPTS
    LowestFirst,    \* the picker is deterministic (as in the lockstep test)
    Prompt,         \* a pause outlasts the database calls of the others
    DbErrors        \* the database may fail and the process may be killed

ASSUME AttemptsAssumption == Attempts \in Nat
ASSUME SwitchesAssumption ==
    LowestFirst \in BOOLEAN /\ Prompt \in BOOLEAN /\ DbErrors \in BOOLEAN

VARIABLE creator    \* creator[o]: the coroutine that creates invoice o

uniqueVars == <<rows, credits, now, creator>>

Steps == {"idle", "insert", "check", "pause", "set", "discard",  \* running
          "done", "failed", "leaked", "dead"}                    \* over

Over == {"done", "failed", "leaked", "dead"}

Creator == [pc : Steps, amount : Int, createtime : Nat, tries : Nat, yielded : BOOLEAN]

CreatorTypeOK == creator \in [Orders -> Creator]

UniqueTypeOK == StoreTypeOK /\ CreatorTypeOK

CreatorInit ==
    creator = [o \in Orders |-> [pc |-> "idle", amount |-> 0, createtime |-> 0,
                                 tries |-> 0, yielded |-> FALSE]]

UniqueInit == StoreInit /\ CreatorInit

-----------------------------------------------------------------------------
(* crypto_amount_picker: some amount that is not reserved nor one step next *)
(* to a reserved one.  The code draws at random and then probes upwards; it *)
(* raises ValueError when it finds none, here when there is none.           *)
FreeAmounts(reserved) ==
    {a \in Amounts : \A r \in reserved : ~AmountsCollide(a, r)}

Picks(reserved) ==
    IF LowestFirst
    THEN {a \in FreeAmounts(reserved) : \A b \in FreeAmounts(reserved) : a <= b}
    ELSE FreeAmounts(reserved)

(* _clashing_order_ids: the pending invoices whose stored amount clashes    *)
(* with the amount this creator holds.                                      *)
Clashing(o) == {p \in PendingOrders \ {o} : AmountsCollide(creator[o].amount, rows[p].amount)}
ClashesLower(o) == \E p \in Clashing(o) : p < o
ClashesHigher(o) == \E p \in Clashing(o) : p > o

At(o, pc) == creator[o].pc = pc
Goto(o, pc) == creator' = [creator EXCEPT ![o].pc = pc]

(* The caller has an order id and calls with createtime = now; the pending  *)
(* amounts are read and a first amount is picked.                           *)
PickFirst(o) ==
    /\ At(o, "idle")
    /\ IF Picks(PendingAmountsBut(o)) = {}
       THEN Goto(o, "failed")
       ELSE \E a \in Picks(PendingAmountsBut(o)) :
              creator' = [creator EXCEPT ![o].pc = "insert", ![o].amount = a,
                                         ![o].createtime = now]
    /\ UNCHANGED <<rows, credits, now>>

(* The row is written before the other rows are looked at again. *)
Insert(o) ==
    /\ At(o, "insert")
    /\ AddOrder(o, creator[o].amount, creator[o].createtime)
    /\ Goto(o, "check")
    /\ UNCHANGED now

(* One turn of the for loop up to its next database call. *)
CheckAgain(o) == At(o, "check") /\ creator[o].tries < Attempts

(* Mutant: the row is not checked again after the insert. *)
AcceptUnchecked(o) ==
    /\ CheckAgain(o)
    /\ Goto(o, "done")
    /\ UNCHANGED <<rows, credits, now>>

Accept(o) ==
    /\ CheckAgain(o)
    /\ Clashing(o) = {}
    /\ Goto(o, "done")
    /\ UNCHANGED <<rows, credits, now>>

(* Mutant: it waits for as long as the clash lasts. *)
YieldForEver(o) ==
    /\ CheckAgain(o)
    /\ ClashesHigher(o) /\ ~ClashesLower(o)
    /\ Goto(o, "pause")
    /\ UNCHANGED <<rows, credits, now>>

(* Only higher order ids clash: wait once for them to move. *)
Yield(o) ==
    /\ CheckAgain(o)
    /\ ClashesHigher(o) /\ ~ClashesLower(o) /\ ~creator[o].yielded
    /\ creator' = [creator EXCEPT ![o].pc = "pause", ![o].yielded = TRUE, ![o].tries = @ + 1]
    /\ UNCHANGED <<rows, credits, now>>

(* asyncio.sleep(_CLASH_YIELD_SECONDS) ends.  With Prompt, a tenth of a     *)
(* second is enough for every running creator to reach a pause or its end.  *)
Resume(o) ==
    /\ At(o, "pause")
    /\ Prompt => \A p \in Orders : creator[p].pc \in Over \union {"idle", "pause"}
    /\ Goto(o, "check")
    /\ UNCHANGED <<rows, credits, now>>

(* Mutant: it moves whoever else clashes, without waiting. *)
RepickAtOnce(o) ==
    /\ CheckAgain(o)
    /\ Clashing(o) # {}
    /\ IF Picks(PendingAmountsBut(o)) = {}
       THEN Goto(o, "discard")
       ELSE \E a \in Picks(PendingAmountsBut(o)) :
              creator' = [creator EXCEPT ![o].pc = "set", ![o].amount = a]
    /\ UNCHANGED <<rows, credits, now>>

(* A lower order id clashes, or waiting did not help: pick another amount,  *)
(* away from all amounts just read.                                         *)
Repick(o) ==
    /\ CheckAgain(o)
    /\ ClashesLower(o) \/ (ClashesHigher(o) /\ creator[o].yielded)
    /\ IF Picks(PendingAmountsBut(o)) = {}
       THEN Goto(o, "discard")
       ELSE \E a \in Picks(PendingAmountsBut(o)) :
              creator' = [creator EXCEPT ![o].pc = "set", ![o].amount = a,
                                         ![o].yielded = FALSE]
    /\ UNCHANGED <<rows, credits, now>>

Store(o) ==
    /\ At(o, "set")
    /\ SetPendingAmount(o, creator[o].amount)
    /\ creator' = [creator EXCEPT ![o].pc = "check", ![o].tries = @ + 1]
    /\ UNCHANGED now

(* The loop is exhausted: the row is taken back. *)
GiveUp(o) ==
    /\ At(o, "check") /\ creator[o].tries = Attempts
    /\ Goto(o, "discard")
    /\ UNCHANGED <<rows, credits, now>>

(* Mutant: the failure is reported, the row stays. *)
DiscardForgets(o) == At(o, "discard") /\ Goto(o, "failed") /\ UNCHANGED <<rows, credits, now>>

Discard(o) ==
    /\ At(o, "discard")
    /\ DiscardPendingOrder(o)
    /\ Goto(o, "failed")
    /\ UNCHANGED now

-----------------------------------------------------------------------------
(* A failing database: the insert returns success = False, an error in the  *)
(* loop ends it, a failing discard is only logged and leaks the row.        *)
DbError(o) ==
    /\ DbErrors
    /\ \/ At(o, "idle") /\ Goto(o, "failed")
       \/ At(o, "insert") /\ Goto(o, "failed")
       \/ creator[o].pc \in {"check", "set"} /\ Goto(o, "discard")
       \/ At(o, "discard") /\ Goto(o, "leaked")
    /\ UNCHANGED <<rows, credits, now>>

(* The process is restarted: the running coroutines are gone, the rows stay. *)
Restart ==
    /\ DbErrors
    /\ \E o \in Orders : creator[o].pc \notin Over \union {"idle"}
    /\ creator' = [o \in Orders |->
                     IF creator[o].pc \in Over \union {"idle"} THEN creator[o]
                     ELSE [creator[o] EXCEPT !.pc = "dead"]]
    /\ UNCHANGED <<rows, credits, now>>

CreatorStep(o) ==
    \/ PickFirst(o) \/ Insert(o) \/ Accept(o) \/ Yield(o) \/ Resume(o)
    \/ Repick(o) \/ Store(o) \/ GiveUp(o) \/ Discard(o)

CreatorNext == (\E o \in Orders : CreatorStep(o) \/ DbError(o)) \/ Restart

(* What the payment job may do to a row meanwhile: expire or credit it. *)
JobSettles(o) ==
    /\ Pending(o)
    /\ ExpirePayment(o) \/ \E t \in Transfers : IndexAccepts(o, t) /\ ApproveAndCredit(o, t)
    /\ UNCHANGED <<creator, now>>

UniqueNext == CreatorNext \/ \E o \in Orders : JobSettles(o)

UniqueSpec == UniqueInit /\ [][UniqueNext]_uniqueVars

(* A coroutine that may go on does: the event loop is fair. *)
UniqueFairSpec == UniqueSpec /\ \A o \in Orders : WF_uniqueVars(CreatorStep(o))

-----------------------------------------------------------------------------
(* The user was told to pay this invoice. *)
Settled(o) == At(o, "done") /\ Pending(o)

(* Two invoices that users were told to pay have amounts further apart than *)
(* AMOUNT_MATCH_TOLERANCE, whatever the interleaving of their creation, and *)
(* however the job, database errors and restarts interfere.                 *)
SettledApart ==
    \A o, p \in Orders :
        o # p /\ Settled(o) /\ Settled(p) => ~AmountsCollide(rows[o].amount, rows[p].amount)

(* The amount the function returned, which the user is told to send, is the *)
(* amount stored in the row the job compares with.                          *)
ToldIsStored == \A o \in Orders : Settled(o) => creator[o].amount = rows[o].amount

(* A creation that reported a failure left no pending invoice behind, unless *)
(* the database refused even the discard ("leaked").                         *)
FailureLeavesNothing == \A o \in Orders : At(o, "failed") => ~Pending(o)

(* Waiting once for the higher ids makes clashing creators converge: with    *)
(* prompt database calls nobody runs out of attempts, even when all pick the *)
(* lowest free amount.                                                       *)
NobodyGivesUp == \A o \in Orders : creator[o].pc \notin {"discard", "failed"}

(* Every creation that was started reports success or failure. *)
NoneUnderWay == \A o \in Orders : creator[o].pc \in {"idle"} \union Over
CreationEnds == []<>NoneUnderWay
=============================================================================
