------------------------ MODULE CryptoPayments_proofs ------------------------
(***************************************************************************)
(* Proofs about crypto payments for every set of invoices, amounts and     *)
(* transfers, every number of attempts, every duration and both kinds of   *)
(* explorer: first about the table and the creators of invoices alone      *)
(* (UniqueAmount), then about the payment job alone (CryptoJob), at the    *)
(* end about the two together (CryptoPayments), which is why they are      *)
(* proved about in one module.                                             *)
(*                                                                         *)
(* The argument for SettledApart is the classic one of "write, then look": *)
(* a creator's row holds the amount the creator will return whenever it    *)
(* looks at the other rows (HoldsStored), so of two creators that both     *)
(* return, the one that looked last saw the row of the other.              *)
(***************************************************************************)
EXTENDS CryptoPayments, TLAPS

-----------------------------------------------------------------------------
(* Lemmas about the operations on the cryptopayments table, which the      *)
(* creations and the payment jobs share: each of them keeps the type of    *)
(* the table, keeps the two invariants of the credits, and is a step (or a *)
(* stutter) of Settlement.                                                 *)

(* amounts_collide does not depend on the order of its arguments. *)
LEMMA CollideSymmetric ==
    ASSUME NEW a \in Int, NEW b \in Int
    PROVE  AmountsCollide(a, b) <=> AmountsCollide(b, a)
BY DEF AmountsCollide

(* The operations of the payment job and of the creators on the table keep *)
(* its type.                                                               *)
LEMMA StoreOperationsTyped ==
    ASSUME StoreTypeOK, NEW o \in Orders, NEW amount \in Int, NEW createtime \in Int,
           \/ AddOrder(o, amount, createtime)
           \/ SetPendingAmount(o, amount)
           \/ DiscardPendingOrder(o)
           \/ ExpirePayment(o)
           \/ \E t \in Transfers : ApproveAndCredit(o, t)
    PROVE  rows' \in [Orders -> Row] /\ credits' \in [Orders -> Nat]
<1> USE DEF StoreTypeOK, Pending
<1>1. rows[o] \in Row
  OBVIOUS
<1>2. CASE AddOrder(o, amount, createtime)
  <2>1. [status |-> "Pending", amount |-> amount, createtime |-> createtime,
         tx_hash |-> NoTx] \in Row
    BY DEF Row, Statuses
  <2> QED
    BY <1>2, <2>1 DEF AddOrder
<1>3. CASE SetPendingAmount(o, amount)
  <2>1. [rows[o] EXCEPT !.amount = amount] \in Row
    BY <1>1 DEF Row
  <2> QED
    BY <1>3, <2>1 DEF SetPendingAmount
<1>4. CASE DiscardPendingOrder(o)
  <2>1. AbsentRow \in Row
    BY DEF AbsentRow, Row, Statuses
  <2> QED
    BY <1>4, <2>1 DEF DiscardPendingOrder
<1>5. CASE ExpirePayment(o)
  <2>1. [rows[o] EXCEPT !.status = "Expired"] \in Row
    BY <1>1 DEF Row, Statuses
  <2> QED
    BY <1>5, <2>1 DEF ExpirePayment
<1>6. ASSUME NEW t \in Transfers, ApproveAndCredit(o, t)
      PROVE  rows' \in [Orders -> Row] /\ credits' \in [Orders -> Nat]
  <2>1. [rows[o] EXCEPT !.status = "Paid", !.tx_hash = t] \in Row
    BY <1>1 DEF Row, Statuses
  <2>2. CASE Pending(o) /\ IndexAccepts(o, t)
    <3>1. rows' = [rows EXCEPT ![o] = [rows[o] EXCEPT !.status = "Paid", !.tx_hash = t]]
      BY <1>6, <2>2 DEF ApproveAndCredit
    <3>2. rows' \in [Orders -> Row]
      BY <2>1, <3>1
    <3>3. credits' \in [Orders -> Nat]
      BY <1>6, <2>2 DEF ApproveAndCredit
    <3> QED
      BY <3>2, <3>3
  <2> QED
    BY <1>6, <2>2 DEF ApproveAndCredit, storeVars
<1> QED
  BY <1>2, <1>3, <1>4, <1>5, <1>6

-----------------------------------------------------------------------------
TableInv == OneTransferOneInvoice /\ CreditedIffPaid

(* A transaction of the crud module on the invoice o. *)
Operation(o) ==
    \/ \E amount, createtime \in Int : AddOrder(o, amount, createtime)
    \/ \E amount \in Int : SetPendingAmount(o, amount)
    \/ DiscardPendingOrder(o)
    \/ ExpirePayment(o)
    \/ \E t \in Transfers : ApproveAndCredit(o, t)

(* Every operation either leaves the table alone or does one of the things *)
(* Settlement allows to one row.                                           *)
LEMMA OperationKinds ==
    ASSUME StoreTypeOK, NEW o \in Orders, Operation(o)
    PROVE  \/ UNCHANGED storeVars
           \/ /\ \A p \in Orders \ {o} : rows'[p] = rows[p] /\ credits'[p] = credits[p]
              /\ rows' \in [Orders -> Row] /\ credits' \in [Orders -> Nat]
              /\ \/ /\ rows[o].status = "absent" /\ rows'[o].status = "Pending"
                    /\ credits'[o] = credits[o] /\ rows'[o].tx_hash = NoTx
                 \/ /\ rows[o].status = "Pending" /\ rows'[o].status \in {"Pending", "Expired"}
                    /\ credits'[o] = credits[o] /\ rows'[o].tx_hash = rows[o].tx_hash
                 \/ /\ rows[o].status = "Pending" /\ rows'[o].status = "absent"
                    /\ credits'[o] = credits[o] /\ rows'[o].tx_hash = NoTx
                 \/ /\ rows[o].status = "Pending" /\ rows'[o].status = "Paid"
                    /\ credits'[o] = credits[o] + 1
                    /\ IndexAccepts(o, rows'[o].tx_hash)
<1> USE DEF StoreTypeOK, Pending
<1>1. rows[o] \in Row
  OBVIOUS
<1>2. ASSUME NEW amount \in Int, NEW createtime \in Int, AddOrder(o, amount, createtime)
      PROVE  /\ rows[o].status = "absent" /\ credits' = credits
             /\ \A p \in Orders \ {o} : rows'[p] = rows[p]
             /\ rows'[o].status = "Pending" /\ rows'[o].tx_hash = NoTx
  BY <1>2 DEF AddOrder
<1>3. ASSUME NEW amount \in Int, SetPendingAmount(o, amount), Pending(o)
      PROVE  /\ credits' = credits
             /\ \A p \in Orders \ {o} : rows'[p] = rows[p]
             /\ rows'[o].status = "Pending" /\ rows'[o].tx_hash = rows[o].tx_hash
  BY <1>1, <1>3 DEF SetPendingAmount, Row
<1>4. ASSUME DiscardPendingOrder(o), Pending(o)
      PROVE  /\ credits' = credits
             /\ \A p \in Orders \ {o} : rows'[p] = rows[p]
             /\ rows'[o].status = "absent" /\ rows'[o].tx_hash = NoTx
  BY <1>4 DEF DiscardPendingOrder, AbsentRow
<1>5. ASSUME ExpirePayment(o), Pending(o)
      PROVE  /\ credits' = credits
             /\ \A p \in Orders \ {o} : rows'[p] = rows[p]
             /\ rows'[o].status = "Expired" /\ rows'[o].tx_hash = rows[o].tx_hash
  BY <1>1, <1>5 DEF ExpirePayment, Row
<1>6. ASSUME NEW t \in Transfers, ApproveAndCredit(o, t), Pending(o), IndexAccepts(o, t)
      PROVE  /\ credits' = [credits EXCEPT ![o] = @ + 1]
             /\ \A p \in Orders \ {o} : rows'[p] = rows[p]
             /\ rows'[o].status = "Paid" /\ rows'[o].tx_hash = t
  BY <1>1, <1>6 DEF ApproveAndCredit, Row
<1>7. ASSUME NEW t \in Transfers, ApproveAndCredit(o, t), ~(Pending(o) /\ IndexAccepts(o, t))
      PROVE  UNCHANGED storeVars
  BY <1>7 DEF ApproveAndCredit
<1>8. ~Pending(o) =>
        /\ \A amount \in Int : SetPendingAmount(o, amount) => UNCHANGED storeVars
        /\ DiscardPendingOrder(o) => UNCHANGED storeVars
        /\ ExpirePayment(o) => UNCHANGED storeVars
  BY DEF SetPendingAmount, DiscardPendingOrder, ExpirePayment, storeVars
<1>9. rows' \in [Orders -> Row] /\ credits' \in [Orders -> Nat]
  <2>1. ASSUME NEW amount \in Int, NEW createtime \in Int, AddOrder(o, amount, createtime)
        PROVE  rows' \in [Orders -> Row] /\ credits' \in [Orders -> Nat]
    BY <2>1, StoreOperationsTyped
  <2>2. ASSUME NEW amount \in Int, SetPendingAmount(o, amount)
        PROVE  rows' \in [Orders -> Row] /\ credits' \in [Orders -> Nat]
    BY <2>2, StoreOperationsTyped
  <2>3. CASE DiscardPendingOrder(o) \/ ExpirePayment(o)
             \/ \E t \in Transfers : ApproveAndCredit(o, t)
    <3>1. 0 \in Int
      OBVIOUS
    <3> QED
      BY <2>3, <3>1, StoreOperationsTyped
  <2> QED
    BY <2>1, <2>2, <2>3 DEF Operation
<1>10. CASE ~Pending(o)
  <2>1. CASE \E amount, createtime \in Int : AddOrder(o, amount, createtime)
    BY <1>2, <1>9, <2>1
  <2> QED
    BY <1>7, <1>8, <1>10, <2>1 DEF Operation
<1>11. CASE Pending(o)
  <2>1. \A amount, createtime \in Int : ~AddOrder(o, amount, createtime)
    BY <1>11 DEF AddOrder
  <2>2. CASE (\E amount \in Int : SetPendingAmount(o, amount)) \/ DiscardPendingOrder(o)
             \/ ExpirePayment(o)
    BY <1>3, <1>4, <1>5, <1>9, <1>11, <2>2
  <2>3. ASSUME NEW t \in Transfers, ApproveAndCredit(o, t), IndexAccepts(o, t)
        PROVE  /\ \A p \in Orders \ {o} : rows'[p] = rows[p] /\ credits'[p] = credits[p]
               /\ rows'[o].status = "Paid" /\ credits'[o] = credits[o] + 1
               /\ IndexAccepts(o, rows'[o].tx_hash)
    BY <1>6, <1>11, <2>3
  <2> QED
    BY <1>7, <1>9, <1>11, <2>1, <2>2, <2>3 DEF Operation
<1> QED
  BY <1>10, <1>11

(* Crediting under the row lock and the unique index keep both invariants. *)
LEMMA OperationKeepsTableInv ==
    ASSUME StoreTypeOK, TableInv, NEW o \in Orders, Operation(o)
    PROVE  TableInv'
<1> USE DEF StoreTypeOK, TableInv
<1>1. CASE UNCHANGED storeVars
  BY <1>1 DEF storeVars, OneTransferOneInvoice, CreditedIffPaid
<1>2. CASE ~ UNCHANGED storeVars
  <2>1. CreditedIffPaid'
    BY <1>2, OperationKinds DEF CreditedIffPaid
  <2>2. OneTransferOneInvoice'
    <3>1. /\ \A p \in Orders \ {o} : rows'[p] = rows[p]
          /\ \/ rows'[o].tx_hash = NoTx
             \/ rows'[o].tx_hash = rows[o].tx_hash
             \/ IndexAccepts(o, rows'[o].tx_hash)
      BY <1>2, OperationKinds
    <3> QED
      BY <3>1 DEF OneTransferOneInvoice, IndexAccepts
  <2> QED
    BY <2>1, <2>2
<1> QED
  BY <1>1, <1>2

(* Every operation is a step of Settlement, or a stutter. *)
LEMMA OperationRefines ==
    ASSUME StoreTypeOK, NEW o \in Orders, Operation(o)
    PROVE  [Promise!Next]_Promise!vars
<1> DEFINE phase == [p \in Orders |-> Phase(rows[p].status)]
<1> USE DEF StoreTypeOK
<1>1. CASE UNCHANGED storeVars
  BY <1>1 DEF storeVars, Promise!vars
<1>2. CASE ~ UNCHANGED storeVars
  <2>1. /\ \A p \in Orders \ {o} : rows'[p] = rows[p] /\ credits'[p] = credits[p]
        /\ credits' \in [Orders -> Nat]
        /\ \/ /\ rows[o].status = "absent" /\ rows'[o].status = "Pending"
              /\ credits'[o] = credits[o]
           \/ /\ rows[o].status = "Pending" /\ rows'[o].status \in {"Pending", "Expired"}
              /\ credits'[o] = credits[o]
           \/ /\ rows[o].status = "Pending" /\ rows'[o].status = "absent"
              /\ credits'[o] = credits[o]
           \/ /\ rows[o].status = "Pending" /\ rows'[o].status = "Paid"
              /\ credits'[o] = credits[o] + 1
    BY <1>2, OperationKinds
  <2>2. phase' = [phase EXCEPT ![o] = Phase(rows'[o].status)]
    BY <2>1
  <2>3. credits' = [credits EXCEPT ![o] = credits'[o]]
    BY <2>1
  <2>4. CASE rows[o].status = "absent" /\ rows'[o].status = "Pending"
    BY <2>1, <2>2, <2>3, <2>4 DEF Promise!Next, Promise!Open, Phase
  <2>5. CASE rows[o].status = "Pending" /\ rows'[o].status = "Pending"
    <3>1. phase' = phase
      BY <2>1, <2>2, <2>5
    <3>2. credits' = credits
      BY <2>1, <2>3, <2>5
    <3> QED
      BY <3>1, <3>2 DEF Promise!vars
  <2>6. CASE rows[o].status = "Pending" /\ rows'[o].status = "Expired"
    BY <2>1, <2>2, <2>3, <2>6 DEF Promise!Next, Promise!Close, Phase
  <2>7. CASE rows[o].status = "Pending" /\ rows'[o].status = "absent"
    <3>1. phase[o] = "open" /\ phase' = [phase EXCEPT ![o] = "unborn"]
      BY <2>2, <2>7 DEF Phase
    <3>2. credits' = credits
      BY <2>1, <2>3, <2>7
    <3> QED
      BY <3>1, <3>2 DEF Promise!Next, Promise!Withdraw
  <2>8. CASE rows[o].status = "Pending" /\ rows'[o].status = "Paid"
    BY <2>1, <2>2, <2>3, <2>8 DEF Promise!Next, Promise!Credit, Phase
  <2> QED
    BY <2>1, <2>4, <2>5, <2>6, <2>7, <2>8
<1> QED
  BY <1>1, <1>2

LEMMA TableInit ==
    ASSUME StoreInit
    PROVE  StoreTypeOK /\ TableInv /\ Promise!Init
<1>1. AbsentRow \in Row
  BY DEF AbsentRow, Row, Statuses
<1>2. StoreTypeOK /\ TableInv
  BY <1>1 DEF StoreInit, StoreTypeOK, TableInv, OneTransferOneInvoice, CreditedIffPaid, AbsentRow
<1>3. Promise!Init
  BY DEF StoreInit, Promise!Init, AbsentRow, Phase
<1> QED
  BY <1>2, <1>3

-----------------------------------------------------------------------------
(* The creations.                                                          *)

(* While a creator looks at the other rows, and after it has returned, the *)
(* amount it holds is the amount of its row (if the row is still pending). *)
HoldsStored ==
    \A o \in Orders :
        creator[o].pc \in {"check", "pause", "done"} /\ Pending(o)
            => rows[o].amount = creator[o].amount

UniqueInv == UniqueTypeOK /\ HoldsStored /\ SettledApart

-----------------------------------------------------------------------------
(* What each step of a creator leaves behind, row by row. *)
LEMMA InitTyped == UniqueInit => UniqueTypeOK
<1>1. AbsentRow \in Row
  BY DEF AbsentRow, Row, Statuses
<1> QED
  BY <1>1 DEF UniqueInit, StoreInit, CreatorInit, UniqueTypeOK, StoreTypeOK, CreatorTypeOK,
              Creator, Steps

(* A creator whose step ends in some pc with some amount is typed again. *)
LEMMA CreatorStepTyped ==
    ASSUME CreatorTypeOK, NEW o \in Orders, NEW c \in Creator,
           creator' = [creator EXCEPT ![o] = c]
    PROVE  CreatorTypeOK'
BY DEF CreatorTypeOK

LEMMA PicksAreAmounts ==
    ASSUME NEW reserved PROVE Picks(reserved) \subseteq Int
BY AmountsAssumption DEF Picks, FreeAmounts

(* A step of one creator keeps the types. *)
LEMMA StepTyped ==
    ASSUME UniqueTypeOK, NEW o \in Orders, CreatorStep(o) \/ DbError(o)
    PROVE  UniqueTypeOK'
<1> DEFINE c == creator[o]
<1> USE DEF UniqueTypeOK, CreatorTypeOK, At
<1>1. /\ c \in Creator /\ c.pc \in Steps /\ c.amount \in Int /\ c.createtime \in Nat
      /\ c.tries \in Nat /\ c.yielded \in BOOLEAN
  BY DEF Creator
<1>2. ASSUME NEW pc \in Steps, Goto(o, pc)
      PROVE  CreatorTypeOK'
  <2>1. [c EXCEPT !.pc = pc] \in Creator
    BY <1>1 DEF Creator
  <2> QED
    BY <1>2, <2>1, CreatorStepTyped DEF Goto
<1>3. ASSUME UNCHANGED <<rows, credits, now>>
      PROVE  StoreTypeOK'
  BY <1>3 DEF StoreTypeOK
<1>4. CASE PickFirst(o)
  <2>1. CASE Picks(PendingAmountsBut(o)) = {}
    BY <1>2, <1>3, <1>4, <2>1 DEF PickFirst, Steps
  <2>2. CASE Picks(PendingAmountsBut(o)) # {}
    <3>1. PICK a \in Picks(PendingAmountsBut(o)) :
            creator' = [creator EXCEPT ![o].pc = "insert", ![o].amount = a,
                                       ![o].createtime = now]
      BY <1>4, <2>2 DEF PickFirst
    <3>2. [c EXCEPT !.pc = "insert", !.amount = a, !.createtime = now] \in Creator
      BY <1>1, PicksAreAmounts DEF Creator, Steps, StoreTypeOK
    <3> QED
      BY <1>3, <1>4, <3>1, <3>2, CreatorStepTyped DEF PickFirst
  <2> QED
    BY <2>1, <2>2
<1>5. CASE Insert(o)
  <2>1. StoreTypeOK'
    BY <1>1, <1>5, StoreOperationsTyped DEF Insert, StoreTypeOK
  <2> QED
    BY <1>2, <1>5, <2>1 DEF Insert, Steps
<1>6. CASE Accept(o)
  BY <1>2, <1>3, <1>6 DEF Accept, Steps
<1>7. CASE Yield(o)
  <2>1. [c EXCEPT !.pc = "pause", !.yielded = TRUE, !.tries = @ + 1] \in Creator
    <3>1. c.tries + 1 \in Nat
      BY <1>1
    <3> QED
      BY <1>1, <3>1 DEF Creator, Steps
  <2> QED
    BY <1>3, <1>7, <2>1, CreatorStepTyped DEF Yield
<1>8. CASE Resume(o)
  BY <1>2, <1>3, <1>8 DEF Resume, Steps
<1>9. CASE Repick(o)
  <2>1. CASE Picks(PendingAmountsBut(o)) = {}
    BY <1>2, <1>3, <1>9, <2>1 DEF Repick, Steps
  <2>2. CASE Picks(PendingAmountsBut(o)) # {}
    <3>1. PICK a \in Picks(PendingAmountsBut(o)) :
            creator' = [creator EXCEPT ![o].pc = "set", ![o].amount = a,
                                       ![o].yielded = FALSE]
      BY <1>9, <2>2 DEF Repick
    <3>2. [c EXCEPT !.pc = "set", !.amount = a, !.yielded = FALSE] \in Creator
      BY <1>1, PicksAreAmounts DEF Creator, Steps
    <3> QED
      BY <1>3, <1>9, <3>1, <3>2, CreatorStepTyped DEF Repick
  <2> QED
    BY <2>1, <2>2
<1>10. CASE Store(o)
  <2>1. StoreTypeOK'
    BY <1>1, <1>10, StoreOperationsTyped DEF Store, StoreTypeOK
  <2>2. [c EXCEPT !.pc = "check", !.tries = @ + 1] \in Creator
    <3>1. c.tries + 1 \in Nat
      BY <1>1
    <3> QED
      BY <1>1, <3>1 DEF Creator, Steps
  <2> QED
    BY <1>10, <2>1, <2>2, CreatorStepTyped DEF Store
<1>11. CASE GiveUp(o)
  BY <1>2, <1>3, <1>11 DEF GiveUp, Steps
<1>12. CASE Discard(o)
  <2>1. StoreTypeOK'
    BY <1>1, <1>12, StoreOperationsTyped DEF Discard, StoreTypeOK
  <2> QED
    BY <1>2, <1>12, <2>1 DEF Discard, Steps
<1>13. CASE DbError(o)
  <2>1. /\ UNCHANGED <<rows, credits, now>>
        /\ Goto(o, "failed") \/ Goto(o, "discard") \/ Goto(o, "leaked")
    BY <1>13 DEF DbError
  <2> QED
    BY <1>2, <1>3, <2>1 DEF Steps
<1> QED
  BY <1>4, <1>5, <1>6, <1>7, <1>8, <1>9, <1>10, <1>11, <1>12, <1>13 DEF CreatorStep

LEMMA NextTyped == UniqueTypeOK /\ [UniqueNext]_uniqueVars => UniqueTypeOK'
<1> SUFFICES ASSUME UniqueTypeOK, [UniqueNext]_uniqueVars
             PROVE  UniqueTypeOK'
  OBVIOUS
<1>1. ASSUME NEW o \in Orders, CreatorStep(o) \/ DbError(o)
      PROVE  UniqueTypeOK'
  BY <1>1, StepTyped
<1>2. CASE Restart
  <2>1. \A o \in Orders : [creator[o] EXCEPT !.pc = "dead"] \in Creator
    BY DEF UniqueTypeOK, CreatorTypeOK, Creator, Steps
  <2>2. CreatorTypeOK'
    BY <1>2, <2>1 DEF Restart, UniqueTypeOK, CreatorTypeOK
  <2> QED
    BY <1>2, <2>2 DEF Restart, UniqueTypeOK, StoreTypeOK
<1>3. ASSUME NEW o \in Orders, JobSettles(o)
      PROVE  UniqueTypeOK'
  <2>1. ExpirePayment(o) \/ \E t \in Transfers : ApproveAndCredit(o, t)
    BY <1>3 DEF JobSettles
  <2>2. StoreTypeOK'
    BY <1>3, <2>1, StoreOperationsTyped DEF JobSettles, UniqueTypeOK, StoreTypeOK
  <2> QED
    BY <1>3, <2>2 DEF JobSettles, UniqueTypeOK, CreatorTypeOK
<1>4. CASE UNCHANGED uniqueVars
  BY <1>4 DEF uniqueVars, UniqueTypeOK, StoreTypeOK, CreatorTypeOK
<1> QED
  BY <1>1, <1>2, <1>3, <1>4 DEF UniqueNext, CreatorNext

(* The rows, the wallets' credits and the creators keep their types in every *)
(* behaviour of the creation protocol.                                       *)
THEOREM UniqueTypeCorrect == UniqueSpec => []UniqueTypeOK
BY InitTyped, NextTyped, PTL DEF UniqueSpec

-----------------------------------------------------------------------------
(* The inductive step of HoldsStored and SettledApart: what is not the row *)
(* or the creator of the acting o is as before, so each action is looked at *)
(* for what it does to o.                                                   *)
LEMMA NextInv == UniqueInv /\ [UniqueNext]_uniqueVars => UniqueInv'
<1> SUFFICES ASSUME UniqueInv, [UniqueNext]_uniqueVars
             PROVE  HoldsStored' /\ SettledApart'
  BY NextTyped DEF UniqueInv
<1> USE DEF UniqueInv, At, Pending
<1>0. UniqueTypeOK'
  BY NextTyped
<1>1. /\ rows \in [Orders -> Row] /\ creator \in [Orders -> Creator]
      /\ rows' \in [Orders -> Row] /\ creator' \in [Orders -> Creator]
  BY <1>0 DEF UniqueTypeOK, StoreTypeOK, CreatorTypeOK
<1>2. \A o \in Orders : rows[o].amount \in Int /\ rows'[o].amount \in Int
  BY <1>1 DEF Row
(* A step that settles no further creator and changes no settled row. *)
<1>3. ASSUME NEW o \in Orders,
             \A p \in Orders \ {o} : rows'[p] = rows[p] /\ creator'[p] = creator[p],
             creator'[o].pc \in {"check", "pause", "done"} /\ rows'[o].status = "Pending"
               => rows'[o].amount = creator'[o].amount,
             creator'[o].pc = "done" /\ rows'[o].status = "Pending"
               => \A p \in Orders \ {o} :
                    creator[p].pc = "done" /\ rows[p].status = "Pending"
                      => ~AmountsCollide(rows'[o].amount, rows[p].amount)
      PROVE  HoldsStored' /\ SettledApart'
  <2>1. HoldsStored'
    BY <1>3 DEF HoldsStored
  <2>2. SettledApart'
    <3> SUFFICES ASSUME NEW p \in Orders, NEW q \in Orders, p # q,
                        Settled(p)', Settled(q)'
                 PROVE  ~AmountsCollide(rows'[p].amount, rows'[q].amount)
      BY DEF SettledApart
    <3>1. CASE p # o /\ q # o
      BY <1>3, <3>1 DEF SettledApart, Settled
    <3>2. CASE p = o
      BY <1>3, <3>2 DEF Settled
    <3>3. CASE q = o
      <4>1. ~AmountsCollide(rows'[o].amount, rows'[p].amount)
        BY <1>3, <3>3 DEF Settled
      <4> QED
        BY <1>2, <3>3, <4>1, CollideSymmetric
    <3> QED
      BY <3>1, <3>2, <3>3
  <2> QED
    BY <2>1, <2>2
<1>4. ASSUME NEW o \in Orders, CreatorStep(o) \/ DbError(o)
      PROVE  HoldsStored' /\ SettledApart'
  <2>1. CASE PickFirst(o)
    <3>1. /\ \A p \in Orders \ {o} : creator'[p] = creator[p]
          /\ creator'[o].pc \in {"failed", "insert"}
      <4>1. CASE Picks(PendingAmountsBut(o)) = {}
        BY <1>1, <2>1, <4>1 DEF PickFirst, Goto, Creator
      <4>2. CASE Picks(PendingAmountsBut(o)) # {}
        <5>1. PICK a \in Picks(PendingAmountsBut(o)) :
                creator' = [creator EXCEPT ![o].pc = "insert", ![o].amount = a,
                                             ![o].createtime = now]
          BY <2>1, <4>2 DEF PickFirst
        <5> QED
          BY <1>1, <5>1 DEF Creator
      <4> QED
        BY <4>1, <4>2
    <3> QED
      BY <1>3, <2>1, <3>1 DEF PickFirst
  <2>2. CASE Insert(o)
    BY <1>1, <1>3, <2>2 DEF Insert, AddOrder, Goto, Creator
  <2>3. CASE Accept(o)
    <3>1. /\ creator[o].pc = "check" /\ Clashing(o) = {}
          /\ rows' = rows /\ creator' = [creator EXCEPT ![o].pc = "done"]
      BY <2>3 DEF Accept, CheckAgain, Goto
    <3>2. rows[o].status = "Pending" => rows[o].amount = creator[o].amount
      BY <3>1 DEF HoldsStored
    <3>3. \A p \in Orders \ {o} : rows[p].status = "Pending"
            => ~AmountsCollide(creator[o].amount, rows[p].amount)
      BY <3>1 DEF Clashing, PendingOrders
    <3>4. creator'[o].amount = creator[o].amount
      BY <1>1, <3>1 DEF Creator
    <3> QED
      BY <1>1, <1>3, <3>1, <3>2, <3>3, <3>4
  <2>4. CASE Yield(o)
    BY <1>1, <1>3, <2>4 DEF Yield, CheckAgain, HoldsStored, Creator
  <2>5. CASE Resume(o)
    BY <1>1, <1>3, <2>5 DEF Resume, Goto, HoldsStored, Creator
  <2>6. CASE Repick(o)
    <3>1. /\ \A p \in Orders \ {o} : creator'[p] = creator[p]
          /\ creator'[o].pc \in {"discard", "set"}
      <4>1. CASE Picks(PendingAmountsBut(o)) = {}
        BY <1>1, <2>6, <4>1 DEF Repick, Goto, Creator
      <4>2. CASE Picks(PendingAmountsBut(o)) # {}
        <5>1. PICK a \in Picks(PendingAmountsBut(o)) :
                creator' = [creator EXCEPT ![o].pc = "set", ![o].amount = a,
                                             ![o].yielded = FALSE]
          BY <2>6, <4>2 DEF Repick
        <5> QED
          BY <1>1, <5>1 DEF Creator
      <4> QED
        BY <4>1, <4>2
    <3> QED
      BY <1>3, <2>6, <3>1 DEF Repick
  <2>7. CASE Store(o)
    BY <1>1, <1>3, <2>7 DEF Store, SetPendingAmount, Creator, Row
  <2>8. CASE GiveUp(o)
    BY <1>1, <1>3, <2>8 DEF GiveUp, Goto, Creator
  <2>9. CASE Discard(o)
    BY <1>1, <1>3, <2>9 DEF Discard, DiscardPendingOrder, Goto, Creator
  <2>10. CASE DbError(o)
    BY <1>1, <1>3, <2>10 DEF DbError, Goto, Creator
  <2> QED
    BY <1>4, <2>1, <2>2, <2>3, <2>4, <2>5, <2>6, <2>7, <2>8, <2>9, <2>10 DEF CreatorStep
<1>5. CASE Restart
  <2>1. \A p \in Orders : creator'[p].pc \in {"check", "pause", "done"}
                            => creator[p].pc = "done" /\ creator'[p] = creator[p]
    BY <1>1, <1>5 DEF Restart, Over, Creator
  <2> QED
    BY <1>5, <2>1 DEF Restart, HoldsStored, SettledApart, Settled
<1>6. ASSUME NEW o \in Orders, JobSettles(o)
      PROVE  HoldsStored' /\ SettledApart'
  <2>1. /\ creator' = creator
        /\ \A p \in Orders \ {o} : rows'[p] = rows[p]
        /\ rows'[o].status # "Pending"
    <3>1. CASE ExpirePayment(o)
      BY <1>1, <1>6, <3>1 DEF JobSettles, ExpirePayment, Row
    <3>2. ASSUME NEW t \in Transfers, IndexAccepts(o, t), ApproveAndCredit(o, t)
          PROVE  /\ \A p \in Orders \ {o} : rows'[p] = rows[p]
                 /\ rows'[o].status # "Pending"
      BY <1>1, <1>6, <3>2 DEF JobSettles, ApproveAndCredit, Row
    <3> QED
      BY <1>6, <3>1, <3>2 DEF JobSettles
  <2> QED
    BY <1>3, <2>1
<1>7. CASE UNCHANGED uniqueVars
  BY <1>7 DEF uniqueVars, HoldsStored, SettledApart, Settled
<1> QED
  BY <1>4, <1>5, <1>6, <1>7 DEF UniqueNext, CreatorNext

LEMMA InitInv == UniqueInit => UniqueInv
BY InitTyped DEF UniqueInit, StoreInit, CreatorInit, AbsentRow, UniqueInv, HoldsStored,
                 SettledApart, Settled, At, Pending

(* Two invoices whose users were told to pay never have amounts that one   *)
(* transfer could be taken for both of, for any number of concurrent       *)
(* creations, attempts, failures and restarts.                             *)
THEOREM SettledApartAlways == UniqueSpec => []SettledApart
<1>1. UniqueInv => SettledApart
  BY DEF UniqueInv
<1> QED
  BY InitInv, NextInv, <1>1, PTL DEF UniqueSpec

(* The amount the user is told to send is the amount the job compares with. *)
THEOREM ToldIsStoredAlways == UniqueSpec => []ToldIsStored
<1>1. UniqueInv => ToldIsStored
  BY DEF UniqueInv, HoldsStored, ToldIsStored, Settled, At
<1> QED
  BY InitInv, NextInv, <1>1, PTL DEF UniqueSpec

-----------------------------------------------------------------------------
(* A creator that has not inserted its row yet, or that reported a failure, *)
(* has no pending row.  Only creator o inserts o and only the discard of o  *)
(* precedes its failure, so the two are shown together.                     *)
NoRowUnlessCreating ==
    \A o \in Orders : creator[o].pc \in {"idle", "insert", "failed"} => ~Pending(o)

FailureInv == UniqueTypeOK /\ NoRowUnlessCreating

(* Failures are looked at creator by creator: a step of o touches the row   *)
(* and the record of o only, and leaves o where it may have no pending row  *)
(* only if it has none.                                                     *)
LEMMA FailureStep ==
    ASSUME FailureInv, UniqueTypeOK', NEW o \in Orders, CreatorStep(o) \/ DbError(o)
    PROVE  NoRowUnlessCreating'
<1> USE DEF FailureInv, At, Pending
<1>1. /\ rows \in [Orders -> Row] /\ creator \in [Orders -> Creator]
      /\ rows' \in [Orders -> Row] /\ creator' \in [Orders -> Creator]
  BY DEF UniqueTypeOK, StoreTypeOK, CreatorTypeOK
<1>2. ASSUME \A p \in Orders \ {o} : rows'[p] = rows[p] /\ creator'[p] = creator[p],
             creator'[o].pc \in {"idle", "insert", "failed"} => rows'[o].status # "Pending"
      PROVE  NoRowUnlessCreating'
  BY <1>2 DEF NoRowUnlessCreating
<1>3. ASSUME NEW pc, Goto(o, pc)
      PROVE  /\ \A p \in Orders \ {o} : creator'[p] = creator[p]
             /\ creator'[o].pc = pc
  BY <1>1, <1>3 DEF Goto, Creator
<1>4. CASE PickFirst(o)
  <2>1. creator[o].pc = "idle" /\ rows' = rows
    BY <1>4 DEF PickFirst
  <2>2. \A p \in Orders \ {o} : creator'[p] = creator[p]
    <3>1. CASE Picks(PendingAmountsBut(o)) = {}
      BY <1>3, <1>4, <3>1 DEF PickFirst
    <3>2. CASE Picks(PendingAmountsBut(o)) # {}
      BY <1>1, <1>4, <3>2 DEF PickFirst
    <3> QED
      BY <3>1, <3>2
  <2> QED
    BY <1>2, <2>1, <2>2 DEF NoRowUnlessCreating
<1>5. CASE Insert(o)
  BY <1>1, <1>2, <1>3, <1>5 DEF Insert, AddOrder
<1>6. CASE Accept(o) \/ Resume(o) \/ GiveUp(o)
  <2>1. /\ rows' = rows
        /\ Goto(o, "done") \/ Goto(o, "check") \/ Goto(o, "discard")
    BY <1>6 DEF Accept, Resume, GiveUp
  <2> QED
    BY <1>2, <1>3, <2>1
<1>7. CASE Yield(o)
  BY <1>1, <1>2, <1>7 DEF Yield, Creator
<1>8. CASE Repick(o)
  <2>1. /\ \A p \in Orders \ {o} : creator'[p] = creator[p]
        /\ creator'[o].pc \in {"discard", "set"}
    <3>1. CASE Picks(PendingAmountsBut(o)) = {}
      BY <1>3, <1>8, <3>1 DEF Repick
    <3>2. CASE Picks(PendingAmountsBut(o)) # {}
      <4>1. PICK a \in Picks(PendingAmountsBut(o)) :
              creator' = [creator EXCEPT ![o].pc = "set", ![o].amount = a, ![o].yielded = FALSE]
        BY <1>8, <3>2 DEF Repick
      <4> QED
        BY <1>1, <4>1 DEF Creator
    <3> QED
      BY <3>1, <3>2
  <2> QED
    BY <1>2, <1>8, <2>1 DEF Repick
<1>9. CASE Store(o)
  BY <1>1, <1>2, <1>9 DEF Store, SetPendingAmount, Creator
<1>10. CASE Discard(o)
  BY <1>1, <1>2, <1>3, <1>10 DEF Discard, DiscardPendingOrder, AbsentRow
<1>11. CASE DbError(o)
  <2>1. /\ rows' = rows
        /\ \/ creator[o].pc \in {"idle", "insert"} /\ Goto(o, "failed")
           \/ Goto(o, "discard") \/ Goto(o, "leaked")
    BY <1>11 DEF DbError
  <2> QED
    BY <1>2, <1>3, <2>1 DEF NoRowUnlessCreating
<1> QED
  BY <1>4, <1>5, <1>6, <1>7, <1>8, <1>9, <1>10, <1>11 DEF CreatorStep

LEMMA FailureNext == FailureInv /\ [UniqueNext]_uniqueVars => FailureInv'
<1> SUFFICES ASSUME FailureInv, [UniqueNext]_uniqueVars
             PROVE  NoRowUnlessCreating'
  BY NextTyped DEF FailureInv
<1>1. UniqueTypeOK'
  BY NextTyped DEF FailureInv
<1>2. CASE Restart
  <2>1. \A p \in Orders : creator'[p].pc \in {"idle", "insert", "failed"}
                            => creator'[p] = creator[p]
    BY <1>2 DEF Restart, Over, FailureInv, UniqueTypeOK, CreatorTypeOK, Creator
  <2> QED
    BY <1>2, <2>1 DEF Restart, FailureInv, NoRowUnlessCreating, Pending
<1>3. ASSUME NEW o \in Orders, JobSettles(o)
      PROVE  NoRowUnlessCreating'
  <2>1. /\ creator' = creator /\ Pending(o)
        /\ \A p \in Orders \ {o} : rows'[p] = rows[p]
    <3>1. rows \in [Orders -> Row]
      BY DEF FailureInv, UniqueTypeOK, StoreTypeOK
    <3> QED
      BY <1>3, <3>1 DEF JobSettles, ExpirePayment, ApproveAndCredit
  <2> QED
    BY <2>1 DEF FailureInv, NoRowUnlessCreating, Pending
<1>4. CASE UNCHANGED uniqueVars
  BY <1>4 DEF uniqueVars, FailureInv, NoRowUnlessCreating, Pending
<1> QED
  BY <1>1, <1>2, <1>3, <1>4, FailureStep DEF UniqueNext, CreatorNext

(* A creation that reported a failure left no pending invoice, whatever the *)
(* job, the other creators and the database did meanwhile.                  *)
THEOREM FailureLeavesNothingAlways == UniqueSpec => []FailureLeavesNothing
<1>1. UniqueInit => FailureInv
  BY InitTyped DEF UniqueInit, StoreInit, AbsentRow, FailureInv, NoRowUnlessCreating, Pending
<1>2. FailureInv => FailureLeavesNothing
  BY DEF FailureInv, NoRowUnlessCreating, FailureLeavesNothing, At
<1> QED
  BY <1>1, <1>2, FailureNext, PTL DEF UniqueSpec

-----------------------------------------------------------------------------
(* The payment job alone.                                                  *)


(* The pair that is being confirmed is a listed invoice and a real transfer. *)
PairTyped == Doing("confirm") => job.chosen \in Transfers

CreditInv == JobTypeOK /\ PairTyped /\ TableInv

-----------------------------------------------------------------------------
(* A step either leaves the table alone or is one of its operations. *)
LEMMA StepIsOperation ==
    ASSUME JobTypeOK, PairTyped, [CryptoNext]_jobVars
    PROVE  UNCHANGED storeVars \/ \E o \in Orders : Operation(o)
<1> USE DEF storeVars, Operation
<1>1. CASE JobStep
  <2>1. ASSUME NEW o \in Orders, Confirm(o)
        PROVE  Operation(o)
    BY <2>1 DEF Confirm, PairTyped
  <2>2. ASSUME NEW o \in Orders, ExpireOne(o)
        PROVE  Operation(o)
    BY <2>2 DEF ExpireOne
  <2>3. ASSUME NEW o \in Orders, Reserve(o) \/ PassOver(o)
        PROVE  UNCHANGED storeVars
    BY <2>3 DEF Reserve, PassOver
  <2>4. CASE ReadPending \/ Fetch \/ ReadUsed \/ BeginExpire \/ EndRun
    BY <2>4 DEF ReadPending, Fetch, ReadUsed, BeginMatch, BeginExpire, EndRun
  <2> QED
    BY <1>1, <2>1, <2>2, <2>3, <2>4 DEF JobStep
<1>2. CASE Abort \/ ReadUsedFails \/ \E o \in Orders : ConfirmRefused(o) \/ ConfirmRaises(o)
  BY <1>2 DEF Abort, ReadUsedFails, BeginMatch, ConfirmRefused, ConfirmRaises
<1>3. CASE World
  BY <1>3 DEF World, Tick, Send
<1>4. ASSUME NEW o \in Orders, NewInvoice(o)
      PROVE  Operation(o)
  <2>1. now \in Int
    BY DEF JobTypeOK, StoreTypeOK
  <2>2. PICK a \in Amounts : AddOrder(o, a, now)
    BY <1>4 DEF NewInvoice
  <2>3. a \in Int
    BY AmountsAssumption
  <2> QED
    BY <2>1, <2>2, <2>3
<1>5. CASE UNCHANGED jobVars
  BY <1>5 DEF jobVars
<1> QED
  BY <1>1, <1>2, <1>3, <1>4, <1>5 DEF CryptoNext, JobNext

(* The types of the table, the clock and the chain. *)
LEMMA WorldTyped ==
    ASSUME JobTypeOK, PairTyped, [CryptoNext]_jobVars
    PROVE  StoreTypeOK' /\ chain' \in ChainType
<1>1. rows' \in [Orders -> Row] /\ credits' \in [Orders -> Nat]
  <2>1. CASE UNCHANGED storeVars
    BY <2>1 DEF storeVars, JobTypeOK, StoreTypeOK
  <2>2. ASSUME NEW o \in Orders, Operation(o)
        PROVE  rows' \in [Orders -> Row] /\ credits' \in [Orders -> Nat]
    BY <2>2, OperationKinds DEF JobTypeOK, StoreTypeOK, storeVars
  <2> QED
    BY <2>1, <2>2, StepIsOperation
<1>2. now' \in Nat /\ chain' \in ChainType
  <2>1. CASE Tick
    BY <2>1 DEF Tick, JobTypeOK, StoreTypeOK
  <2>2. ASSUME NEW t \in Transfers, Send(t)
        PROVE  now' \in Nat /\ chain' \in ChainType
    <3>1. PICK a \in Amounts, ts \in {now, 0} :
            chain' = [chain EXCEPT ![t] = [sent |-> TRUE, amount |-> a, ts |-> ts]]
      BY <2>2 DEF Send
    <3>2. [sent |-> TRUE, amount |-> a, ts |-> ts] \in [sent : BOOLEAN, amount : Int, ts : Nat]
      BY AmountsAssumption DEF JobTypeOK, StoreTypeOK
    <3> QED
      BY <2>2, <3>1, <3>2 DEF Send, JobTypeOK, StoreTypeOK, ChainType
  <2>3. CASE UNCHANGED <<now, chain>>
    BY <2>3 DEF JobTypeOK, StoreTypeOK
  <2>4. [CryptoNext]_jobVars => Tick \/ (\E t \in Transfers : Send(t)) \/ UNCHANGED <<now, chain>>
    BY DEF CryptoNext, JobNext, JobStep, World, jobVars, ReadPending, Fetch, ReadUsed, BeginMatch,
           BeginExpire, EndRun, Reserve, PassOver, Confirm, ExpireOne, Abort, ReadUsedFails,
           ConfirmRefused, ConfirmRaises, NewInvoice
  <2> QED
    BY <2>1, <2>2, <2>3, <2>4
<1> QED
  BY <1>1, <1>2 DEF StoreTypeOK

(* The copies, sets and position of the job. *)
LEMMA JobRecordTyped ==
    ASSUME JobTypeOK, PairTyped, [CryptoNext]_jobVars
    PROVE  job' \in JobType /\ PairTyped'
<1> USE DEF JobTypeOK, PairTyped, Doing
<1>1. /\ job \in JobType /\ job.pc \in JobSteps /\ job.snap \in [Orders -> Row]
      /\ job.fetched \in Nat /\ job.seen \in SUBSET Transfers /\ job.consumed \in SUBSET Transfers
      /\ job.matched \in SUBSET Orders /\ job.todo \in SUBSET Orders
      /\ job.chosen \in Transfers \union {NoTx} /\ job.for \in SUBSET Orders
  BY DEF JobType
<1>2. IdleJob \in JobType /\ IdleJob.pc = "idle"
  <2>1. AbsentRow \in Row
    BY DEF AbsentRow, Row, Statuses
  <2> QED
    BY <2>1 DEF IdleJob, JobType, JobSteps
<1>3. ASSUME ReadPending
      PROVE  job' \in JobType /\ job'.pc = "fetch"
  <2> DEFINE copies == [o \in Orders |-> IF Pending(o) THEN rows[o] ELSE AbsentRow]
  <2>1. copies \in [Orders -> Row]
    BY DEF StoreTypeOK, AbsentRow, Row, Statuses
  <2> HIDE DEF copies
  <2>2. job' = [IdleJob EXCEPT !.pc = "fetch", !.snap = copies]
    BY <1>3 DEF ReadPending, copies
  <2> QED
    BY <1>2, <2>1, <2>2 DEF JobType, JobSteps
<1>4. ASSUME Fetch
      PROVE  job' \in JobType /\ job'.pc = "used"
  <2>1. PICK answer \in SUBSET Transfers :
          job' = [job EXCEPT !.pc = "used", !.seen = answer, !.fetched = now]
    BY <1>4 DEF Fetch
  <2> QED
    BY <1>1, <2>1 DEF JobType, JobSteps, StoreTypeOK
<1>5. ASSUME ReadUsed \/ ReadUsedFails
      PROVE  job' \in JobType /\ job'.pc = "match"
  <2>1. PICK used \in SUBSET Transfers :
          job' = [job EXCEPT !.pc = "match", !.consumed = used, !.todo = Listed]
    BY <1>1, <1>5 DEF ReadUsed, ReadUsedFails, BeginMatch, UsedHashes
  <2>2. Listed \in SUBSET Orders
    BY DEF Listed
  <2> QED
    BY <1>1, <2>1, <2>2 DEF JobType, JobSteps
<1>6. ASSUME NEW o \in Orders, Reserve(o)
      PROVE  job' \in JobType /\ job'.pc = "confirm" /\ job'.chosen \in Transfers
  <2>1. PICK t \in Transfers :
          job' = [job EXCEPT !.pc = "confirm", !.consumed = @ \union {t},
                             !.matched = @ \union {o}, !.chosen = t, !.for = {o}]
    BY <1>1, <1>6 DEF Reserve, Candidates
  <2>2. job.consumed \union {t} \in SUBSET Transfers /\ job.matched \union {o} \in SUBSET Orders
    BY <1>1
  <2> QED
    BY <1>1, <2>1, <2>2 DEF JobType, JobSteps
<1>7. ASSUME NEW o \in Orders, PassOver(o)
      PROVE  job' \in JobType /\ job'.pc = "match"
  <2>1. job' = [job EXCEPT !.todo = @ \ {o}] /\ job.pc = "match"
    BY <1>7 DEF PassOver
  <2> QED
    BY <1>1, <2>1 DEF JobType
<1>8. ASSUME NEW o \in Orders, NEW again \in BOOLEAN, Proceed(o, again)
      PROVE  job' \in JobType /\ job'.pc = "match"
  <2> DEFINE left == IF again THEN job.todo ELSE job.todo \ {o}
  <2>1. left \in SUBSET Orders
    BY <1>1
  <2> HIDE DEF left
  <2>2. job' = [job EXCEPT !.pc = "match", !.chosen = NoTx, !.for = {}, !.todo = left]
    BY <1>8 DEF Proceed, left
  <2> QED
    BY <1>1, <2>1, <2>2 DEF JobType, JobSteps
<1>9. ASSUME NEW o \in Orders, Confirm(o) \/ ConfirmRefused(o) \/ ConfirmRaises(o)
      PROVE  job' \in JobType /\ job'.pc = "match"
  BY <1>8, <1>9, JobSwitchesAssumption DEF Confirm, ConfirmRefused, ConfirmRaises
<1>10. ASSUME BeginExpire
       PROVE  job' \in JobType /\ job'.pc = "expire"
  <2> DEFINE overdue == {o \in Listed \ job.matched : PastGrace(job.snap[o])}
  <2>1. overdue \in SUBSET Orders
    BY DEF Listed
  <2> HIDE DEF overdue
  <2>2. job' = [job EXCEPT !.pc = "expire", !.todo = overdue]
    BY <1>10 DEF BeginExpire, overdue
  <2> QED
    BY <1>1, <2>1, <2>2 DEF JobType, JobSteps
<1>11. ASSUME NEW o \in Orders, ExpireOne(o)
       PROVE  job' \in JobType /\ job'.pc = "expire"
  <2>1. job' = [job EXCEPT !.todo = @ \ {o}] /\ job.pc = "expire"
    BY <1>11 DEF ExpireOne
  <2> QED
    BY <1>1, <2>1 DEF JobType
<1>12. ASSUME EndRun \/ Abort
       PROVE  job' \in JobType /\ job'.pc = "idle"
  BY <1>2, <1>12 DEF EndRun, Abort
<1>13. ASSUME World \/ (\E o \in Orders : NewInvoice(o)) \/ UNCHANGED jobVars
       PROVE  job' = job
  BY <1>13 DEF World, Tick, Send, NewInvoice, jobVars
<1> QED
  BY <1>3, <1>4, <1>5, <1>6, <1>7, <1>9, <1>10, <1>11, <1>12, <1>13
     DEF CryptoNext, JobNext, JobStep

LEMMA CreditInvInit == JobInit => CreditInv
<1> SUFFICES ASSUME JobInit PROVE CreditInv
  OBVIOUS
<1>1. StoreTypeOK /\ TableInv
  BY TableInit DEF JobInit
<1>2. AbsentRow \in Row
  BY DEF AbsentRow, Row, Statuses
<1> QED
  BY <1>1, <1>2 DEF JobInit, CreditInv, JobTypeOK, PairTyped, Doing, IdleJob, JobType, JobSteps,
                    ChainType, NotSent

LEMMA CreditInvStep == CreditInv /\ [CryptoNext]_jobVars => CreditInv'
<1> SUFFICES ASSUME CreditInv, [CryptoNext]_jobVars PROVE CreditInv'
  OBVIOUS
<1>1. JobTypeOK' /\ PairTyped'
  BY WorldTyped, JobRecordTyped DEF CreditInv, JobTypeOK
<1>2. TableInv'
  <2>1. CASE UNCHANGED storeVars
    BY <2>1 DEF storeVars, CreditInv, TableInv, OneTransferOneInvoice, CreditedIffPaid
  <2> QED
    BY <2>1, StepIsOperation, OperationKeepsTableInv DEF CreditInv, JobTypeOK
<1> QED
  BY <1>1, <1>2 DEF CreditInv

(* The job's copies and sets, the table and the chain keep their types. *)
THEOREM JobTypeCorrect == CryptoSpec => []JobTypeOK
<1>1. CreditInv => JobTypeOK
  BY DEF CreditInv
<1> QED
  BY CreditInvInit, CreditInvStep, <1>1, PTL DEF CryptoSpec

(* However runs of the job fail, are cut short or work on old copies, one  *)
(* transfer is never booked on two invoices.                               *)
THEOREM OneTransferOneInvoiceAlways == CryptoSpec => []OneTransferOneInvoice
<1>1. CreditInv => OneTransferOneInvoice
  BY DEF CreditInv, TableInv
<1> QED
  BY CreditInvInit, CreditInvStep, <1>1, PTL DEF CryptoSpec

(* ... and an invoice was added to the wallet once if it is Paid and never *)
(* if it is not.                                                           *)
THEOREM CreditedIffPaidAlways == CryptoSpec => []CreditedIffPaid
<1>1. CreditInv => CreditedIffPaid
  BY DEF CreditInv, TableInv
<1> QED
  BY CreditInvInit, CreditInvStep, <1>1, PTL DEF CryptoSpec

(* The job with its users implements the promise of every payment channel. *)
THEOREM JobImplementsSettlement == CryptoSpec => ImplementsSettlement
<1>1. JobInit => Promise!Init
  BY TableInit DEF JobInit
<1>2. CreditInv /\ [CryptoNext]_jobVars => [Promise!Next]_Promise!vars
  <2> SUFFICES ASSUME CreditInv, [CryptoNext]_jobVars PROVE [Promise!Next]_Promise!vars
    OBVIOUS
  <2>1. CASE UNCHANGED storeVars
    BY <2>1 DEF storeVars, Promise!vars
  <2> QED
    BY <2>1, StepIsOperation, OperationRefines DEF CreditInv, JobTypeOK
<1> QED
  BY CreditInvInit, CreditInvStep, <1>1, <1>2, PTL DEF CryptoSpec, ImplementsSettlement, Promise!Spec

-----------------------------------------------------------------------------
(***************************************************************************)
(* An invoice that was paid in time is not expired.  The invariant says,   *)
(* in this order: copies agree with their rows in what a row never         *)
(* changes; pending invoices, and those the run listed, are apart; the run *)
(* is not older than MaxRun; what the run may have missed was sent after   *)
(* its fetch; a consumed transfer is booked or was taken by a matched      *)
(* invoice; an invoice that was passed over fitted no transfer that was    *)
(* free; and an expired invoice is past its window.                        *)
(***************************************************************************)
Running == job.pc \in {"match", "confirm", "expire"}

CopiesAgree ==
    \A o \in Orders : job.snap[o].status = "Pending" =>
        /\ rows[o].status # "absent"
        /\ rows[o].amount = job.snap[o].amount
        /\ rows[o].createtime = job.snap[o].createtime

BookedIsPaid == \A o \in Orders : rows[o].tx_hash # NoTx => rows[o].status = "Paid"

PendingApart ==
    \A o, p \in Orders :
        o # p /\ Pending(o) /\ Pending(p) => ~AmountsCollide(rows[o].amount, rows[p].amount)

ListedApart ==
    \A o, p \in Listed :
        o # p => ~AmountsCollide(job.snap[o].amount, job.snap[p].amount)

RunIsShort ==
    /\ job.fetched <= now
    /\ job.pc \in {"used", "match", "confirm"} => now <= job.fetched + MaxRun

MissedIsLate ==
    job.pc \in {"used", "match", "confirm", "expire"} =>
        \A t \in Transfers : Sent(t) /\ chain[t].ts # 0 /\ chain[t].ts < job.fetched
                                => t \in job.seen

SetsAreListed ==
    /\ job.matched \subseteq Listed /\ job.for \subseteq job.matched
    /\ \A t \in job.seen : Sent(t)
    /\ Running => job.todo \subseteq Listed /\ job.consumed \subseteq job.seen

ConsumedForAReason ==
    Running => \A t \in job.consumed :
        \/ ~Unspent(t)
        \/ \E p \in job.matched : AmountsCollide(job.snap[p].amount, chain[t].amount)

FitsTimed(row, t) ==
    /\ chain[t].ts # 0
    /\ row.createtime <= chain[t].ts /\ chain[t].ts <= row.createtime + TTL + TxTolerance
    /\ AmountMatches(row.amount, chain[t].amount)

PassedFitsNothing ==
    Running => \A o \in Listed : \A t \in job.seen :
        FitsTimed(job.snap[o], t) =>
            \/ t \in job.consumed \/ o \in job.matched
            \/ job.pc \in {"match", "confirm"} /\ o \in job.todo

OverdueOnly ==
    job.pc = "expire" => \A o \in job.todo :
        /\ o \notin job.matched
        /\ job.snap[o].createtime + TTL + Grace < job.fetched + MaxRun

ExpiredIsLate ==
    \A o \in Orders : rows[o].status = "Expired" => rows[o].createtime + TTL + TxTolerance < now

ExpiryInv ==
    /\ CreditInv
    /\ CopiesAgree /\ BookedIsPaid /\ PendingApart /\ ListedApart /\ RunIsShort /\ MissedIsLate
    /\ SetsAreListed /\ ConsumedForAReason /\ PassedFitsNothing /\ OverdueOnly
    /\ ExpiredIsLate /\ PaidInTimeNeverExpired

LEMMA FitsTimedIsFits ==
    ASSUME NEW row, NEW t, chain[t].ts # 0
    PROVE  Fits(row, t) <=> FitsTimed(row, t)
BY DEF Fits, FitsTimed, InWindow

(* An amount a job accepts is one the creation of invoices keeps apart.    *)
LEMMA MatchesCollide ==
    ASSUME NEW a \in Int, NEW b \in Int, AmountMatches(a, b)
    PROVE  AmountsCollide(a, b)
BY MatchDistanceAssumption DEF AmountMatches, AmountsCollide, AMOUNT_MATCH_TOLERANCE

(* What the types say of the numbers that are compared. *)
LEMMA Numbers ==
    ASSUME JobTypeOK
    PROVE  /\ job.snap \in [Orders -> Row] /\ rows \in [Orders -> Row]
           /\ \A o \in Orders : /\ job.snap[o].amount \in Int /\ job.snap[o].createtime \in Int
                                /\ rows[o].amount \in Int /\ rows[o].createtime \in Int
           /\ \A t \in Transfers : chain[t].amount \in Int /\ chain[t].ts \in Nat
                                   /\ chain[t].sent \in BOOLEAN
           /\ job.fetched \in Nat /\ now \in Nat
           /\ Listed \subseteq Orders /\ job.seen \subseteq Transfers
           /\ job.consumed \subseteq Transfers /\ job.todo \subseteq Orders
BY DEF JobTypeOK, StoreTypeOK, JobType, Row, ChainType, Listed

LEMMA ExpiryInvInit == JobInit => ExpiryInv
<1> SUFFICES ASSUME JobInit PROVE ExpiryInv
  OBVIOUS
<1>1. CreditInv
  BY CreditInvInit
<1>2. /\ \A o \in Orders : rows[o] = AbsentRow
      /\ job = IdleJob /\ now = 1
  BY DEF JobInit, StoreInit
<1>3. \A o \in Orders : job.snap[o] = AbsentRow
  BY <1>2 DEF IdleJob
<1>4. /\ job.pc = "idle" /\ job.fetched = 0 /\ job.seen = {} /\ job.matched = {}
      /\ job.for = {}
  BY <1>2 DEF IdleJob
<1> QED
  BY <1>1, <1>2, <1>3, <1>4
     DEF ExpiryInv, CopiesAgree, BookedIsPaid, PendingApart, ListedApart, RunIsShort, MissedIsLate,
         SetsAreListed, ConsumedForAReason, PassedFitsNothing, OverdueOnly, ExpiredIsLate,
         PaidInTimeNeverExpired, Running, Listed, Pending, AbsentRow

(* Steps of the job that only change the job's own record: the parts of    *)
(* the invariant about the table and the chain stay.                       *)
LEMMA JobOnlyStep ==
    ASSUME ExpiryInv, CreditInv', UNCHANGED <<rows, credits, now, chain>>,
           (CopiesAgree /\ ListedApart /\ RunIsShort /\ MissedIsLate /\ SetsAreListed
            /\ ConsumedForAReason /\ PassedFitsNothing /\ OverdueOnly)'
    PROVE  ExpiryInv'
BY DEF ExpiryInv, BookedIsPaid, PendingApart, ExpiredIsLate, PaidInTimeNeverExpired, PaysExactly,
       Unspent, Sent, InWindow, Pending

LEMMA ExpiryReadPending ==
    ASSUME ExpiryInv, CreditInv', ReadPending
    PROVE  ExpiryInv'
<1> DEFINE copies == [o \in Orders |-> IF Pending(o) THEN rows[o] ELSE AbsentRow]
<1>1. /\ job'.pc = "fetch" /\ job'.snap = copies /\ job'.fetched = 0
      /\ job'.seen = {} /\ job'.matched = {} /\ job'.for = {}
      /\ UNCHANGED <<rows, credits, now, chain>>
  BY DEF ReadPending, IdleJob
<1>2. CopiesAgree' /\ ListedApart'
  BY <1>1 DEF CopiesAgree, ListedApart, Listed, ExpiryInv, PendingApart, Pending, AbsentRow
<1>3. (RunIsShort /\ MissedIsLate /\ SetsAreListed /\ ConsumedForAReason /\ PassedFitsNothing
       /\ OverdueOnly)'
  BY <1>1, Numbers DEF ExpiryInv, CreditInv, RunIsShort, MissedIsLate, SetsAreListed,
     ConsumedForAReason, PassedFitsNothing, OverdueOnly, Running
<1> QED
  BY <1>1, <1>2, <1>3, JobOnlyStep

LEMMA ExpiryFetch ==
    ASSUME ExpiryInv, CreditInv', Fetch, ReliableExplorer
    PROVE  ExpiryInv'
<1>1. /\ job'.pc = "used" /\ job'.snap = job.snap /\ job'.fetched = now
      /\ job'.seen = {t \in Transfers : Sent(t)}
      /\ job'.matched = job.matched /\ job'.for = job.for
      /\ UNCHANGED <<rows, credits, now, chain>>
  BY DEF Fetch, ExpiryInv, CreditInv, JobTypeOK, JobType
<1>2. now \in Nat /\ MaxRun \in Nat
  BY TimesAssumption DEF ExpiryInv, CreditInv, JobTypeOK, StoreTypeOK
<1> QED
  BY <1>1, <1>2, JobOnlyStep
     DEF ExpiryInv, CopiesAgree, ListedApart, Listed, RunIsShort, MissedIsLate, SetsAreListed,
         ConsumedForAReason, PassedFitsNothing, OverdueOnly, Running, Sent

LEMMA ExpiryReadUsed ==
    ASSUME ExpiryInv, CreditInv', ReadUsed \/ ReadUsedFails
    PROVE  ExpiryInv'
<1>1. PICK used \in {UsedHashes(job.seen), {}} :
         job' = [job EXCEPT !.pc = "match", !.consumed = used, !.todo = Listed]
  BY DEF ReadUsed, ReadUsedFails, BeginMatch
<1>2. /\ job.pc = "used" /\ UNCHANGED <<rows, credits, now, chain>>
  BY DEF ReadUsed, ReadUsedFails, BeginMatch, Doing
<1>3. \A t \in used : t \in job.seen /\ ~Unspent(t)
  BY DEF UsedHashes, Unspent
<1>4. /\ job'.pc = "match" /\ job'.snap = job.snap /\ job'.fetched = job.fetched
      /\ job'.seen = job.seen /\ job'.consumed = used /\ job'.todo = Listed
      /\ job'.matched = job.matched /\ job'.for = job.for
  BY <1>1 DEF ExpiryInv, CreditInv, JobTypeOK, JobType
<1> QED
  BY <1>2, <1>3, <1>4, JobOnlyStep
     DEF ExpiryInv, CopiesAgree, ListedApart, Listed, RunIsShort, MissedIsLate, SetsAreListed,
         ConsumedForAReason, PassedFitsNothing, OverdueOnly, Running, Sent, Unspent

LEMMA ExpiryReserve ==
    ASSUME ExpiryInv, CreditInv', NEW o \in Orders, Reserve(o)
    PROVE  ExpiryInv'
<1>1. PICK t \in Candidates(o) :
         job' = [job EXCEPT !.pc = "confirm", !.consumed = @ \union {t},
                            !.matched = @ \union {o}, !.chosen = t, !.for = {o}]
  BY DEF Reserve
<1>2. /\ job.pc = "match" /\ o \in job.todo /\ UNCHANGED <<rows, credits, now, chain>>
  BY DEF Reserve, Doing
<1>3. /\ t \in job.seen /\ AmountsCollide(job.snap[o].amount, chain[t].amount)
      /\ o \in Listed
  <2>1. /\ t \in job.seen /\ AmountMatches(job.snap[o].amount, chain[t].amount)
        /\ o \in Listed
    BY <1>1, <1>2 DEF Candidates, Fits, ExpiryInv, SetsAreListed, Running
  <2> QED
    BY <2>1, Numbers, MatchesCollide DEF ExpiryInv, CreditInv
<1>4. /\ job'.pc = "confirm" /\ job'.snap = job.snap /\ job'.fetched = job.fetched
      /\ job'.seen = job.seen /\ job'.consumed = job.consumed \union {t} /\ job'.todo = job.todo
      /\ job'.matched = job.matched \union {o} /\ job'.for = {o}
  BY <1>1 DEF ExpiryInv, CreditInv, JobTypeOK, JobType
<1>5. (CopiesAgree /\ ListedApart /\ RunIsShort /\ MissedIsLate /\ SetsAreListed)'
  BY <1>2, <1>3, <1>4
     DEF ExpiryInv, CopiesAgree, ListedApart, Listed, RunIsShort, MissedIsLate, SetsAreListed,
         Running, Sent
<1>6. ConsumedForAReason'
  BY <1>2, <1>3, <1>4 DEF ExpiryInv, ConsumedForAReason, Running, Unspent, AmountsCollide
<1>7. (PassedFitsNothing /\ OverdueOnly)'
  BY <1>2, <1>3, <1>4
     DEF ExpiryInv, PassedFitsNothing, OverdueOnly, Running, Listed, FitsTimed, AmountsCollide
<1> QED
  BY <1>2, <1>5, <1>6, <1>7, JobOnlyStep

LEMMA ExpiryPassOver ==
    ASSUME ExpiryInv, CreditInv', NEW o \in Orders, PassOver(o)
    PROVE  ExpiryInv'
<1>1. /\ job.pc = "match" /\ UNCHANGED <<rows, credits, now, chain>> /\ Candidates(o) = {}
      /\ job' = [job EXCEPT !.todo = @ \ {o}]
  BY DEF PassOver, Doing
<1>2. /\ job'.pc = "match" /\ job'.snap = job.snap /\ job'.fetched = job.fetched
      /\ job'.seen = job.seen /\ job'.consumed = job.consumed /\ job'.todo = job.todo \ {o}
      /\ job'.matched = job.matched /\ job'.for = job.for
  BY <1>1 DEF ExpiryInv, CreditInv, JobTypeOK, JobType
<1>3. \A t \in job.seen : FitsTimed(job.snap[o], t) => t \in job.consumed
  BY <1>1, FitsTimedIsFits DEF Candidates, FitsTimed
<1>4. (CopiesAgree /\ ListedApart /\ RunIsShort /\ MissedIsLate /\ SetsAreListed
       /\ ConsumedForAReason /\ OverdueOnly)'
  BY <1>1, <1>2
     DEF ExpiryInv, CopiesAgree, ListedApart, Listed, RunIsShort, MissedIsLate, SetsAreListed,
         ConsumedForAReason, OverdueOnly, Running, Sent, Unspent
<1>5. PassedFitsNothing'
  BY <1>1, <1>2, <1>3 DEF ExpiryInv, PassedFitsNothing, Running, Listed, FitsTimed
<1> QED
  BY <1>1, <1>4, <1>5, JobOnlyStep

LEMMA ExpiryBeginExpire ==
    ASSUME ExpiryInv, CreditInv', BeginExpire
    PROVE  ExpiryInv'
<1>1. /\ job.pc = "match" /\ job.todo = {} /\ UNCHANGED <<rows, credits, now, chain>>
      /\ job' = [job EXCEPT !.pc = "expire",
                            !.todo = {o \in Listed \ job.matched : PastGrace(job.snap[o])}]
  BY DEF BeginExpire, Doing
<1>2. /\ job'.pc = "expire" /\ job'.snap = job.snap /\ job'.fetched = job.fetched
      /\ job'.seen = job.seen /\ job'.consumed = job.consumed
      /\ job'.todo = {o \in Listed \ job.matched : PastGrace(job.snap[o])}
      /\ job'.matched = job.matched /\ job'.for = job.for
  BY <1>1 DEF ExpiryInv, CreditInv, JobTypeOK, JobType
<1>3. (CopiesAgree /\ ListedApart /\ RunIsShort /\ MissedIsLate /\ SetsAreListed
       /\ ConsumedForAReason /\ PassedFitsNothing)'
  BY <1>1, <1>2
     DEF ExpiryInv, CopiesAgree, ListedApart, Listed, RunIsShort, MissedIsLate, SetsAreListed,
         ConsumedForAReason, PassedFitsNothing, FitsTimed, Running, Sent, Unspent
<1>4. OverdueOnly'
  <2>1. now <= job.fetched + MaxRun
    BY <1>1 DEF ExpiryInv, RunIsShort
  <2>2. \A o \in Listed : PastGrace(job.snap[o])
                            => job.snap[o].createtime + TTL + Grace < job.fetched + MaxRun
    BY <2>1, Numbers, TimesAssumption DEF PastGrace, ExpiryInv, CreditInv
  <2> QED
    BY <1>1, <1>2, <2>2 DEF OverdueOnly
<1> QED
  BY <1>1, <1>3, <1>4, JobOnlyStep

LEMMA ExpiryIdle ==
    ASSUME ExpiryInv, CreditInv', UNCHANGED <<rows, credits, now, chain>>, job' = IdleJob
    PROVE  ExpiryInv'
<1>1. /\ job'.pc = "idle" /\ job'.fetched = 0 /\ job'.seen = {} /\ job'.matched = {}
      /\ job'.for = {} /\ \A o \in Orders : job'.snap[o].status = "absent"
  BY DEF IdleJob, AbsentRow
<1> QED
  BY <1>1, JobOnlyStep, Numbers
     DEF ExpiryInv, CreditInv, CopiesAgree, ListedApart, Listed, RunIsShort, MissedIsLate,
         SetsAreListed, ConsumedForAReason, PassedFitsNothing, OverdueOnly, Running

(* After a pair, whatever happened to its credit. *)
LEMMA ExpiryProceed ==
    ASSUME ExpiryInv, NEW o \in Orders, NEW again \in BOOLEAN,
           Doing("confirm"), o \in job.for, Proceed(o, again), UNCHANGED chain, UNCHANGED now,
           CopiesAgree', \A t \in Transfers : ~Unspent(t) => ~Unspent(t)'
    PROVE  (ListedApart /\ RunIsShort /\ MissedIsLate /\ SetsAreListed
            /\ ConsumedForAReason /\ PassedFitsNothing /\ OverdueOnly)'
<1> DEFINE left == IF again THEN job.todo ELSE job.todo \ {o}
<1>1. /\ job.pc = "confirm" /\ o \in job.matched /\ left \subseteq job.todo
      /\ job.todo \ {o} \subseteq left
  BY DEF Doing, ExpiryInv, SetsAreListed
<1> HIDE DEF left
<1>2. /\ job'.pc = "match" /\ job'.snap = job.snap /\ job'.fetched = job.fetched
      /\ job'.seen = job.seen /\ job'.consumed = job.consumed /\ job'.todo = left
      /\ job'.matched = job.matched /\ job'.for = {}
  BY DEF Proceed, left, ExpiryInv, CreditInv, JobTypeOK, JobType
<1>3. (ListedApart /\ RunIsShort /\ MissedIsLate /\ SetsAreListed /\ OverdueOnly)'
  BY <1>1, <1>2
     DEF ExpiryInv, ListedApart, Listed, RunIsShort, MissedIsLate, SetsAreListed,
         OverdueOnly, Running, Sent
<1>4. ConsumedForAReason'
  BY <1>1, <1>2, Numbers DEF ExpiryInv, CreditInv, ConsumedForAReason, Running, AmountsCollide
<1>5. PassedFitsNothing'
  BY <1>1, <1>2 DEF ExpiryInv, PassedFitsNothing, Running, Listed, FitsTimed
<1> QED
  BY <1>3, <1>4, <1>5

(* A transaction of the job on the row o: what a settled row keeps. *)
RowSettles(o) ==
    \/ UNCHANGED rows
    \/ /\ rows[o].status = "Pending"
       /\ \A p \in Orders \ {o} : rows'[p] = rows[p]
       /\ rows'[o].amount = rows[o].amount /\ rows'[o].createtime = rows[o].createtime
       /\ \/ rows'[o].status = "Paid"
          \/ rows'[o].status = "Expired" /\ rows'[o].tx_hash = rows[o].tx_hash

LEMMA SettledRow ==
    ASSUME CopiesAgree, BookedIsPaid, PendingApart,
           NEW o \in Orders, RowSettles(o), job'.snap = job.snap
    PROVE  /\ (CopiesAgree /\ BookedIsPaid /\ PendingApart)'
           /\ \A t \in Transfers : ~Unspent(t) => ~Unspent(t)'
<1>1. CASE UNCHANGED rows
  BY <1>1 DEF CopiesAgree, BookedIsPaid, PendingApart, Pending, Unspent
<1>2. CASE ~ UNCHANGED rows
  <2>1. (CopiesAgree /\ BookedIsPaid /\ PendingApart)'
    BY <1>2 DEF RowSettles, CopiesAgree, BookedIsPaid, PendingApart, Pending
  <2>2. rows[o].tx_hash = NoTx
    BY <1>2 DEF RowSettles, BookedIsPaid
  <2>3. \A t \in Transfers : ~Unspent(t) => ~Unspent(t)'
    BY <1>2, <2>2, NoTxAssumption DEF RowSettles, Unspent
  <2> QED
    BY <2>1, <2>3
<1> QED
  BY <1>1, <1>2

LEMMA ExpiryConfirm ==
    ASSUME ExpiryInv, CreditInv', NEW o \in Orders,
           Confirm(o) \/ ConfirmRefused(o) \/ ConfirmRaises(o)
    PROVE  ExpiryInv'
<1>1. /\ Doing("confirm") /\ o \in job.for /\ UNCHANGED now /\ UNCHANGED chain
      /\ Proceed(o, FALSE) \/ Proceed(o, RetryAfterError)
      /\ ApproveAndCredit(o, job.chosen) \/ UNCHANGED rows
  BY DEF Confirm, ConfirmRefused, ConfirmRaises
<1>2. PICK again \in BOOLEAN : Proceed(o, again)
  BY <1>1, JobSwitchesAssumption
<1>3. job'.snap = job.snap
  BY <1>2 DEF Proceed, ExpiryInv, CreditInv, JobTypeOK, JobType
<1>4. RowSettles(o) /\ (rows' = rows \/ rows'[o].status = "Paid")
  <2>1. rows \in [Orders -> Row]
    BY Numbers DEF ExpiryInv, CreditInv
  <2>2. CASE Pending(o) /\ IndexAccepts(o, job.chosen) /\ ApproveAndCredit(o, job.chosen)
    BY <2>1, <2>2 DEF ApproveAndCredit, RowSettles, Pending, Row
  <2>3. CASE UNCHANGED rows
    BY <2>3 DEF RowSettles
  <2> QED
    BY <1>1, <2>2, <2>3 DEF ApproveAndCredit, storeVars
<1>5. (CopiesAgree /\ BookedIsPaid /\ PendingApart)'
      /\ \A t \in Transfers : ~Unspent(t) => ~Unspent(t)'
  BY <1>3, <1>4, SettledRow DEF ExpiryInv
<1>6. (ListedApart /\ RunIsShort /\ MissedIsLate /\ SetsAreListed
       /\ ConsumedForAReason /\ PassedFitsNothing /\ OverdueOnly)'
  BY <1>1, <1>2, <1>5, ExpiryProceed
<1>7. \A p \in Orders : rows'[p].status = "Expired" => rows'[p] = rows[p]
  BY <1>4 DEF RowSettles
<1>8. (ExpiredIsLate /\ PaidInTimeNeverExpired)'
  <2>1. ExpiredIsLate'
    BY <1>1, <1>7 DEF ExpiryInv, ExpiredIsLate
  <2>2. PaidInTimeNeverExpired'
    BY <1>1, <1>5, <1>7
       DEF ExpiryInv, PaidInTimeNeverExpired, PaysExactly, Sent, InWindow
  <2> QED
    BY <2>1, <2>2
<1> QED
  BY <1>5, <1>6, <1>8 DEF ExpiryInv

(* The invoice that is expired was overdue by more than the run can have   *)
(* lasted, so the fetch came after its window: a transfer that pays it was *)
(* seen, fitted it, and was therefore consumed.                            *)
LEMMA OverdueWasNotPaid ==
    ASSUME ExpiryInv, MaxRun + TxTolerance <= Grace,
           NEW o \in Orders, Doing("expire"), o \in job.todo
    PROVE  /\ rows[o].createtime + TTL + TxTolerance < now
           /\ \A t \in Transfers : Unspent(t) => ~PaysExactly(o, t)
<1>1. /\ job.pc = "expire" /\ o \in Listed /\ o \notin job.matched
      /\ job.snap[o].createtime + TTL + Grace < job.fetched + MaxRun
      /\ rows[o].amount = job.snap[o].amount /\ rows[o].createtime = job.snap[o].createtime
  BY DEF Doing, ExpiryInv, SetsAreListed, Running, OverdueOnly, CopiesAgree, Listed
<1>2. rows[o].createtime + TTL + TxTolerance < job.fetched /\ job.fetched <= now
  BY <1>1, Numbers, TimesAssumption DEF ExpiryInv, CreditInv, RunIsShort
<1>3. ASSUME NEW t \in Transfers, Unspent(t), PaysExactly(o, t)
      PROVE  FALSE
  <2>1. /\ Sent(t) /\ chain[t].ts # 0 /\ rows[o].createtime <= chain[t].ts
        /\ chain[t].ts <= rows[o].createtime + TTL + TxTolerance
        /\ rows[o].amount = chain[t].amount
    BY <1>3 DEF PaysExactly, InWindow
  <2>2. t \in job.seen
    <3>1. chain[t].ts < job.fetched
      BY <1>2, <2>1, Numbers, TimesAssumption DEF ExpiryInv, CreditInv
    <3> QED
      BY <1>1, <2>1, <3>1 DEF ExpiryInv, MissedIsLate
  <2>3. FitsTimed(job.snap[o], t)
    BY <1>1, <2>1, Numbers, MatchDistanceAssumption
       DEF FitsTimed, AmountMatches, AMOUNT_MATCH_TOLERANCE, ExpiryInv, CreditInv
  <2>4. t \in job.consumed
    BY <1>1, <2>2, <2>3 DEF ExpiryInv, PassedFitsNothing, Running
  <2>5. PICK p \in job.matched : AmountsCollide(job.snap[p].amount, chain[t].amount)
    BY <1>1, <1>3, <2>4 DEF ExpiryInv, ConsumedForAReason, Running
  <2>6. p \in Listed /\ p # o /\ AmountsCollide(job.snap[p].amount, job.snap[o].amount)
    BY <1>1, <2>1, <2>5 DEF ExpiryInv, SetsAreListed
  <2> QED
    BY <1>1, <2>6 DEF ExpiryInv, ListedApart
<1>4. rows[o].createtime + TTL + TxTolerance < now
  BY <1>2, Numbers, TimesAssumption DEF ExpiryInv, CreditInv
<1> QED
  BY <1>3, <1>4

LEMMA ExpiryExpireOne ==
    ASSUME ExpiryInv, CreditInv', MaxRun + TxTolerance <= Grace, NEW o \in Orders, ExpireOne(o)
    PROVE  ExpiryInv'
<1>1. /\ Doing("expire") /\ job.pc = "expire" /\ o \in job.todo /\ UNCHANGED <<now, chain>>
      /\ ExpirePayment(o) /\ job' = [job EXCEPT !.todo = @ \ {o}]
  BY DEF ExpireOne, Doing
<1>2. /\ job'.pc = "expire" /\ job'.snap = job.snap /\ job'.fetched = job.fetched
      /\ job'.seen = job.seen /\ job'.consumed = job.consumed /\ job'.todo = job.todo \ {o}
      /\ job'.matched = job.matched /\ job'.for = job.for
  BY <1>1 DEF ExpiryInv, CreditInv, JobTypeOK, JobType
<1>3. RowSettles(o) /\ (rows' = rows \/ rows'[o].tx_hash = rows[o].tx_hash)
  <2>1. rows \in [Orders -> Row]
    BY Numbers DEF ExpiryInv, CreditInv
  <2> QED
    BY <1>1, <2>1 DEF ExpirePayment, RowSettles, Pending, Row
<1>4. (CopiesAgree /\ BookedIsPaid /\ PendingApart)'
      /\ \A t \in Transfers : ~Unspent(t) => ~Unspent(t)'
  BY <1>2, <1>3, SettledRow DEF ExpiryInv
<1>5. (ListedApart /\ RunIsShort /\ MissedIsLate /\ SetsAreListed /\ ConsumedForAReason
       /\ PassedFitsNothing /\ OverdueOnly)'
  <2>1. (ListedApart /\ RunIsShort /\ MissedIsLate /\ SetsAreListed /\ OverdueOnly)'
    BY <1>1, <1>2
       DEF ExpiryInv, ListedApart, Listed, RunIsShort, MissedIsLate, SetsAreListed, OverdueOnly,
           Running, Sent
  <2>2. ConsumedForAReason'
    BY <1>1, <1>2, <1>4, Numbers
       DEF ExpiryInv, CreditInv, ConsumedForAReason, Running, AmountsCollide
  <2>3. PassedFitsNothing'
    BY <1>1, <1>2 DEF ExpiryInv, PassedFitsNothing, Running, Listed, FitsTimed
  <2> QED
    BY <2>1, <2>2, <2>3
<1>6. \A p \in Orders : /\ p # o => rows'[p] = rows[p]
                        /\ rows'[p].createtime = rows[p].createtime
                        /\ rows'[p].amount = rows[p].amount
  BY <1>3 DEF RowSettles
<1>7. ExpiredIsLate'
  BY <1>1, <1>6, OverdueWasNotPaid DEF ExpiryInv, ExpiredIsLate
<1>8. PaidInTimeNeverExpired'
  <2> SUFFICES ASSUME NEW p \in Orders, NEW t \in Transfers,
                      rows'[p].status = "Expired", Unspent(t)'
               PROVE  ~PaysExactly(p, t)'
    BY DEF PaidInTimeNeverExpired
  <2>1. Unspent(t)
    BY <1>4
  <2>2. PaysExactly(p, t)' => PaysExactly(p, t)
    BY <1>1, <1>6 DEF PaysExactly, Sent, InWindow
  <2>3. CASE p = o
    BY <1>1, <2>1, <2>2, <2>3, OverdueWasNotPaid
  <2>4. CASE p # o
    BY <1>6, <2>1, <2>2, <2>4 DEF ExpiryInv, PaidInTimeNeverExpired
  <2> QED
    BY <2>3, <2>4
<1> QED
  BY <1>4, <1>5, <1>7, <1>8 DEF ExpiryInv

LEMMA ExpiryTick ==
    ASSUME ExpiryInv, CreditInv', Tick
    PROVE  ExpiryInv'
<1>1. /\ now' = now + 1 /\ UNCHANGED <<rows, credits, chain, job>>
      /\ job.pc \in {"used", "match", "confirm"} => now < job.fetched + MaxRun
  BY DEF Tick
<1>2. now \in Nat /\ job.fetched \in Nat /\ MaxRun \in Nat
  BY Numbers, TimesAssumption DEF ExpiryInv, CreditInv
<1>3. RunIsShort'
  BY <1>1, <1>2 DEF ExpiryInv, RunIsShort
<1>4. ExpiredIsLate'
  <2>1. \A o \in Orders : rows[o].createtime + TTL + TxTolerance \in Int
    BY Numbers, TimesAssumption DEF ExpiryInv, CreditInv
  <2> QED
    BY <1>1, <1>2, <2>1 DEF ExpiryInv, ExpiredIsLate
<1>5. (CopiesAgree /\ BookedIsPaid /\ PendingApart /\ ListedApart /\ MissedIsLate /\ SetsAreListed
       /\ ConsumedForAReason /\ PassedFitsNothing /\ OverdueOnly)'
  BY <1>1
     DEF ExpiryInv, CopiesAgree, BookedIsPaid, PendingApart, Pending, ListedApart, Listed,
         MissedIsLate, SetsAreListed, ConsumedForAReason, PassedFitsNothing, OverdueOnly,
         Running, Sent, Unspent, FitsTimed
<1>6. PaidInTimeNeverExpired'
  BY <1>1 DEF ExpiryInv, PaidInTimeNeverExpired, PaysExactly, Sent, InWindow, Unspent
<1> QED
  BY <1>3, <1>4, <1>5, <1>6 DEF ExpiryInv

LEMMA ExpirySend ==
    ASSUME ExpiryInv, CreditInv', NEW t \in Transfers, Send(t)
    PROVE  ExpiryInv'
<1>1. PICK a \in Amounts, ts \in {now, 0} :
         chain' = [chain EXCEPT ![t] = [sent |-> TRUE, amount |-> a, ts |-> ts]]
  BY DEF Send
<1>2. ~Sent(t) /\ UNCHANGED <<rows, credits, now, job>>
  BY DEF Send
<1>3. /\ \A u \in Transfers \ {t} : chain'[u] = chain[u]
      /\ chain'[t] = [sent |-> TRUE, amount |-> a, ts |-> ts]
  BY <1>1 DEF ExpiryInv, CreditInv, JobTypeOK, ChainType
<1>4. t \notin job.seen /\ job.seen \subseteq Transfers
  BY <1>2, Numbers DEF ExpiryInv, CreditInv, SetsAreListed
<1>5. (CopiesAgree /\ BookedIsPaid /\ PendingApart /\ ListedApart /\ RunIsShort /\ OverdueOnly
       /\ ExpiredIsLate)'
  BY <1>2
     DEF ExpiryInv, CopiesAgree, BookedIsPaid, PendingApart, Pending, ListedApart, Listed,
         RunIsShort, OverdueOnly, ExpiredIsLate
<1>6. (SetsAreListed /\ ConsumedForAReason /\ PassedFitsNothing)'
  BY <1>2, <1>3, <1>4
     DEF ExpiryInv, SetsAreListed, ConsumedForAReason, PassedFitsNothing, Running, Listed, Sent,
         Unspent, FitsTimed
<1>7. MissedIsLate'
  <2>1. ~(ts # 0 /\ ts < job.fetched)
    BY Numbers DEF ExpiryInv, CreditInv, RunIsShort
  <2> QED
    BY <1>2, <1>3, <2>1 DEF ExpiryInv, MissedIsLate, Sent
<1>8. PaidInTimeNeverExpired'
  <2> SUFFICES ASSUME NEW o \in Orders, NEW u \in Transfers,
                      rows[o].status = "Expired", Unspent(u), PaysExactly(o, u)'
               PROVE  FALSE
    BY <1>2 DEF PaidInTimeNeverExpired, Unspent
  <2>1. CASE u # t
    BY <1>2, <1>3, <2>1 DEF ExpiryInv, PaidInTimeNeverExpired, PaysExactly, Sent, InWindow
  <2>2. CASE u = t
    <3>1. ts # 0 /\ ts <= rows[o].createtime + TTL + TxTolerance
      BY <1>2, <1>3, <2>2 DEF PaysExactly, InWindow
    <3>2. rows[o].createtime + TTL + TxTolerance < now
      BY DEF ExpiryInv, ExpiredIsLate
    <3> QED
      BY <3>1, <3>2, Numbers, TimesAssumption DEF ExpiryInv, CreditInv
  <2> QED
    BY <2>1, <2>2
<1> QED
  BY <1>5, <1>6, <1>7, <1>8 DEF ExpiryInv

LEMMA ExpiryNewInvoice ==
    ASSUME ExpiryInv, CreditInv', NEW o \in Orders, NewInvoice(o)
    PROVE  ExpiryInv'
<1>1. PICK a \in Amounts : /\ \A p \in PendingOrders : ~AmountsCollide(a, rows[p].amount)
                           /\ AddOrder(o, a, now)
  BY DEF NewInvoice
<1>2. UNCHANGED <<now, chain, job>>
  BY DEF NewInvoice
<1>3. /\ rows[o].status = "absent" /\ \A p \in Orders \ {o} : rows'[p] = rows[p]
      /\ rows'[o] = [status |-> "Pending", amount |-> a, createtime |-> now, tx_hash |-> NoTx]
  BY <1>1, Numbers DEF AddOrder, ExpiryInv, CreditInv
<1>4. rows[o].tx_hash = NoTx
  BY <1>3 DEF ExpiryInv, BookedIsPaid
<1>5. \A t \in Transfers : Unspent(t)' <=> Unspent(t)
  BY <1>3, <1>4 DEF Unspent
<1>6. (CopiesAgree /\ BookedIsPaid)'
  BY <1>2, <1>3 DEF ExpiryInv, CopiesAgree, BookedIsPaid
<1>7. PendingApart'
  <2>1. \A p \in Orders \ {o} : Pending(p)' =>
          ~AmountsCollide(a, rows[p].amount) /\ ~AmountsCollide(rows[p].amount, a)
    BY <1>1, <1>3, AmountsAssumption, Numbers, CollideSymmetric
       DEF Pending, PendingOrders, ExpiryInv, CreditInv
  <2> QED
    BY <1>3, <2>1 DEF ExpiryInv, PendingApart, Pending
<1>8. (ListedApart /\ RunIsShort /\ MissedIsLate /\ SetsAreListed /\ PassedFitsNothing
       /\ OverdueOnly)'
  BY <1>2
     DEF ExpiryInv, ListedApart, Listed, RunIsShort, MissedIsLate, SetsAreListed,
         PassedFitsNothing, OverdueOnly, Running, Sent, FitsTimed
<1>9. ConsumedForAReason'
  BY <1>2, <1>5, Numbers DEF ExpiryInv, CreditInv, ConsumedForAReason, Running
<1>10. ExpiredIsLate'
  BY <1>2, <1>3 DEF ExpiryInv, ExpiredIsLate
<1>11. PaidInTimeNeverExpired'
  BY <1>2, <1>3, <1>5
     DEF ExpiryInv, PaidInTimeNeverExpired, PaysExactly, Sent, InWindow
<1> QED
  BY <1>6, <1>7, <1>8, <1>9, <1>10, <1>11 DEF ExpiryInv

LEMMA ExpiryInvStep ==
    ASSUME ReliableExplorer, MaxRun + TxTolerance <= Grace
    PROVE  ExpiryInv /\ [CryptoNext]_jobVars => ExpiryInv'
<1> SUFFICES ASSUME ExpiryInv, [CryptoNext]_jobVars PROVE ExpiryInv'
  OBVIOUS
<1>1. CreditInv'
  BY CreditInvStep DEF ExpiryInv
<1>2. ASSUME EndRun \/ Abort PROVE ExpiryInv'
  BY <1>1, <1>2, ExpiryIdle DEF EndRun, Abort
<1>3. CASE UNCHANGED jobVars
  BY <1>1, <1>3
     DEF ExpiryInv, jobVars, CopiesAgree, BookedIsPaid, PendingApart, Pending, ListedApart, Listed,
         RunIsShort, MissedIsLate, SetsAreListed, ConsumedForAReason, PassedFitsNothing,
         OverdueOnly, ExpiredIsLate, PaidInTimeNeverExpired, PaysExactly, Running, Sent, Unspent,
         FitsTimed, InWindow
<1> QED
  BY <1>1, <1>2, <1>3, ExpiryReadPending, ExpiryFetch, ExpiryReadUsed, ExpiryReserve,
     ExpiryPassOver, ExpiryConfirm, ExpiryBeginExpire, ExpiryExpireOne, ExpiryTick, ExpirySend,
     ExpiryNewInvoice
     DEF CryptoNext, JobNext, JobStep, World

(* If the explorer lists every transfer and a run does not last longer than *)
(* the grace period less the time tolerance, no invoice that was paid       *)
(* exactly and in time is ever expired, however many invoices and transfers *)
(* there are and however its credit failed.                                 *)
THEOREM PaidInTimeNeverExpiredAlways ==
    ASSUME ReliableExplorer, MaxRun + TxTolerance <= Grace
    PROVE  CryptoSpec => []PaidInTimeNeverExpired
<1>1. ExpiryInv => PaidInTimeNeverExpired
  BY DEF ExpiryInv
<1> QED
  BY ExpiryInvInit, ExpiryInvStep, <1>1, PTL DEF CryptoSpec
-----------------------------------------------------------------------------
(***************************************************************************)
(* What a paid invoice was paid by, whatever the explorer answers or       *)
(* leaves out and however runs end.  Beside the copies and the apartness   *)
(* of the amounts, the invariant says what the run has found out about the *)
(* pair it is about to confirm; the clock goes on until it does, so of the *)
(* window only the bounds that do not depend on the clock are kept.        *)
(***************************************************************************)
Pays(row, t) ==
    /\ Sent(t) /\ AmountMatches(row.amount, chain[t].amount)
    /\ chain[t].ts # 0 => /\ row.createtime <= chain[t].ts
                          /\ chain[t].ts <= row.createtime + TTL + TxTolerance

PairMatches ==
    Doing("confirm") => \A o \in job.for : Pays(job.snap[o], job.chosen)

MatchInv ==
    /\ CreditInv
    /\ CopiesAgree /\ BookedIsPaid /\ PendingApart /\ SetsAreListed
    /\ PairMatches /\ PaidByMatchingTransfer

LEMMA MatchInvInit == JobInit => MatchInv
<1> SUFFICES ASSUME JobInit PROVE MatchInv
  OBVIOUS
<1>1. CreditInv /\ CopiesAgree /\ BookedIsPaid /\ PendingApart /\ SetsAreListed
  BY ExpiryInvInit DEF ExpiryInv
<1>2. /\ job.pc = "idle" /\ \A o \in Orders : rows[o].status = "absent"
  BY DEF JobInit, StoreInit, IdleJob, AbsentRow
<1> QED
  BY <1>1, <1>2 DEF MatchInv, PairMatches, Doing, PaidByMatchingTransfer

(* A step of the run that writes no row: what it knows of its pair is all  *)
(* there is to show.                                                       *)
LEMMA MatchJobOnly ==
    ASSUME MatchInv, CreditInv', UNCHANGED <<rows, chain>>,
           (CopiesAgree /\ SetsAreListed /\ PairMatches)'
    PROVE  MatchInv'
BY DEF MatchInv, BookedIsPaid, PendingApart, Pending, PaidByMatchingTransfer, Sent

LEMMA MatchBegin ==
    ASSUME MatchInv, CreditInv', ReadPending \/ EndRun \/ Abort
    PROVE  MatchInv'
<1>1. /\ job'.pc \in {"idle", "fetch"}
      /\ job'.seen = {} /\ job'.matched = {} /\ job'.for = {}
      /\ UNCHANGED <<rows, chain>>
      /\ \A o \in Orders : job'.snap[o].status = "Pending" => Pending(o) /\ job'.snap[o] = rows[o]
  <2>1. CASE ReadPending
    <3> DEFINE copies == [o \in Orders |-> IF Pending(o) THEN rows[o] ELSE AbsentRow]
    <3>1. /\ job'.pc = "fetch" /\ job'.snap = copies /\ job'.seen = {} /\ job'.matched = {}
          /\ job'.for = {} /\ UNCHANGED <<rows, chain>>
      BY <2>1 DEF ReadPending, IdleJob
    <3> QED
      BY <3>1 DEF AbsentRow
  <2>2. CASE EndRun \/ Abort
    BY <2>2 DEF EndRun, Abort, IdleJob, AbsentRow
  <2> QED
    BY <2>1, <2>2
<1>2. CopiesAgree'
  BY <1>1 DEF CopiesAgree, Pending
<1>3. SetsAreListed' /\ PairMatches'
  BY <1>1 DEF SetsAreListed, PairMatches, Doing, Running
<1> QED
  BY <1>1, <1>2, <1>3, MatchJobOnly

LEMMA MatchLook ==
    ASSUME MatchInv, CreditInv', Fetch \/ ReadUsed \/ ReadUsedFails \/ BeginExpire
    PROVE  MatchInv'
<1>1. /\ job'.pc \in {"used", "match", "expire"} /\ job'.snap = job.snap
      /\ job'.matched = job.matched /\ job'.for = job.for
      /\ \A t \in job'.seen : Sent(t)
      /\ UNCHANGED <<rows, chain>>
  BY DEF Fetch, ReadUsed, ReadUsedFails, BeginMatch, BeginExpire, MatchInv, SetsAreListed,
         CreditInv, JobTypeOK, JobType
<1>2. job'.pc # "used" => job'.todo \subseteq Listed /\ job'.consumed \subseteq job'.seen
  <2>1. CASE Fetch
    BY <2>1 DEF Fetch, MatchInv, CreditInv, JobTypeOK, JobType
  <2>2. CASE ReadUsed \/ ReadUsedFails
    <3>1. PICK used \in {UsedHashes(job.seen), {}} :
            job' = [job EXCEPT !.pc = "match", !.consumed = used, !.todo = Listed]
      BY <2>2 DEF ReadUsed, ReadUsedFails, BeginMatch
    <3>2. used \subseteq job.seen
      BY DEF UsedHashes
    <3>3. job'.consumed = used /\ job'.todo = Listed /\ job'.seen = job.seen
      BY <3>1 DEF MatchInv, CreditInv, JobTypeOK, JobType
    <3> QED
      BY <3>2, <3>3
  <2>3. CASE BeginExpire
    BY <2>3 DEF BeginExpire, Doing, MatchInv, SetsAreListed, Running, CreditInv, JobTypeOK, JobType
  <2> QED
    BY <2>1, <2>2, <2>3
<1>3. CopiesAgree' /\ SetsAreListed'
  BY <1>1, <1>2 DEF MatchInv, CopiesAgree, SetsAreListed, Listed, Running, Sent
<1>4. PairMatches'
  BY <1>1 DEF PairMatches, Doing
<1> QED
  BY <1>1, <1>3, <1>4, MatchJobOnly

(* The pair that is reserved is a listed invoice and a transfer that fits. *)
LEMMA MatchReserve ==
    ASSUME MatchInv, CreditInv', NEW o \in Orders, Reserve(o) \/ PassOver(o)
    PROVE  MatchInv'
<1>1. /\ job.pc = "match" /\ o \in job.todo /\ UNCHANGED <<rows, chain>>
  BY DEF Reserve, PassOver, Doing
<1>2. CASE Reserve(o)
  <2>1. PICK t \in Candidates(o) :
           job' = [job EXCEPT !.pc = "confirm", !.consumed = @ \union {t},
                              !.matched = @ \union {o}, !.chosen = t, !.for = {o}]
    BY <1>2 DEF Reserve
  <2>2. /\ job'.pc = "confirm" /\ job'.snap = job.snap /\ job'.seen = job.seen
        /\ job'.consumed = job.consumed \union {t} /\ job'.todo = job.todo
        /\ job'.matched = job.matched \union {o} /\ job'.for = {o} /\ job'.chosen = t
    BY <2>1 DEF MatchInv, CreditInv, JobTypeOK, JobType
  <2>3. t \in job.seen /\ Pays(job.snap[o], t)
    BY DEF Candidates, Fits, InWindow, Pays, MatchInv, SetsAreListed
  <2>4. CopiesAgree' /\ SetsAreListed'
    BY <1>1, <2>2, <2>3 DEF MatchInv, CopiesAgree, SetsAreListed, Listed, Running, Sent
  <2>5. PairMatches'
    BY <1>1, <2>2, <2>3 DEF PairMatches, Pays, Sent, AmountMatches
  <2> QED
    BY <1>1, <2>4, <2>5, MatchJobOnly
<1>3. CASE PassOver(o)
  <2>1. /\ job'.pc = "match" /\ job'.snap = job.snap /\ job'.seen = job.seen
        /\ job'.consumed = job.consumed /\ job'.todo = job.todo \ {o}
        /\ job'.matched = job.matched /\ job'.for = job.for
    BY <1>1, <1>3 DEF PassOver, MatchInv, CreditInv, JobTypeOK, JobType
  <2>2. CopiesAgree' /\ SetsAreListed' /\ PairMatches'
    BY <1>1, <2>1
       DEF MatchInv, CopiesAgree, SetsAreListed, Listed, Running, Sent, PairMatches, Doing
  <2> QED
    BY <1>1, <2>2, MatchJobOnly
<1> QED
  BY <1>2, <1>3

(* The transfer fitted the copy, and the row still has the copy's amount   *)
(* and time, so it fits the row that is marked as paid by it.              *)
LEMMA MatchConfirm ==
    ASSUME MatchInv, CreditInv', NEW o \in Orders,
           Confirm(o) \/ ConfirmRefused(o) \/ ConfirmRaises(o)
    PROVE  MatchInv'
<1>1. /\ Doing("confirm") /\ o \in job.for /\ UNCHANGED chain
      /\ ApproveAndCredit(o, job.chosen) \/ UNCHANGED rows
  BY DEF Confirm, ConfirmRefused, ConfirmRaises
<1>2. PICK again \in BOOLEAN : Proceed(o, again)
  BY JobSwitchesAssumption DEF Confirm, ConfirmRefused, ConfirmRaises
<1>3. /\ job'.pc = "match" /\ job'.snap = job.snap /\ job'.seen = job.seen
      /\ job'.consumed = job.consumed /\ job'.todo \subseteq job.todo
      /\ job'.matched = job.matched /\ job'.for = {}
  BY <1>2 DEF Proceed, MatchInv, CreditInv, JobTypeOK, JobType
<1>4. /\ job.chosen \in Transfers /\ Pays(job.snap[o], job.chosen)
      /\ rows[o].amount = job.snap[o].amount /\ rows[o].createtime = job.snap[o].createtime
  BY <1>1 DEF MatchInv, CreditInv, PairTyped, PairMatches, SetsAreListed, Listed, CopiesAgree
<1>5. \/ UNCHANGED rows
      \/ /\ RowSettles(o) /\ rows'[o].status = "Paid" /\ rows'[o].tx_hash = job.chosen
         /\ rows'[o].amount = rows[o].amount /\ rows'[o].createtime = rows[o].createtime
         /\ \A p \in Orders \ {o} : rows'[p] = rows[p]
  <2>1. rows \in [Orders -> Row]
    BY DEF MatchInv, CreditInv, JobTypeOK, StoreTypeOK
  <2> QED
    BY <1>1, <2>1 DEF ApproveAndCredit, RowSettles, Pending, Row, storeVars
<1>6. (CopiesAgree /\ BookedIsPaid /\ PendingApart)'
  BY <1>3, <1>5, SettledRow DEF MatchInv, RowSettles
<1>7. SetsAreListed' /\ PairMatches'
  BY <1>1, <1>3 DEF MatchInv, SetsAreListed, Listed, Running, Sent, PairMatches, Doing
<1>8. PaidByMatchingTransfer'
  <2> SUFFICES ASSUME NEW p \in Orders, rows'[p].status = "Paid"
               PROVE  rows'[p].tx_hash \in Transfers /\ Pays(rows'[p], rows'[p].tx_hash)
    BY <1>1 DEF PaidByMatchingTransfer, Pays, Sent, AmountMatches
  <2>1. CASE rows'[p] = rows[p]
    BY <2>1 DEF MatchInv, PaidByMatchingTransfer, Pays
  <2>2. CASE rows'[p] # rows[p]
    BY <1>4, <1>5, <2>2 DEF Pays
  <2> QED
    BY <2>1, <2>2
<1> QED
  BY <1>6, <1>7, <1>8 DEF MatchInv

LEMMA MatchExpireOne ==
    ASSUME MatchInv, CreditInv', NEW o \in Orders, ExpireOne(o)
    PROVE  MatchInv'
<1>1. /\ job'.pc = "expire" /\ job.pc = "expire" /\ job'.snap = job.snap /\ job'.seen = job.seen
      /\ job'.consumed = job.consumed /\ job'.todo \subseteq job.todo
      /\ job'.matched = job.matched /\ job'.for = job.for /\ UNCHANGED chain
  BY DEF ExpireOne, Doing, MatchInv, CreditInv, JobTypeOK, JobType
<1>2. /\ RowSettles(o)
      /\ \A p \in Orders : rows'[p] = rows[p] \/ rows'[p].status = "Expired"
  <2>1. rows \in [Orders -> Row]
    BY DEF MatchInv, CreditInv, JobTypeOK, StoreTypeOK
  <2> QED
    BY <2>1 DEF ExpireOne, ExpirePayment, RowSettles, Pending, Row
<1>3. (CopiesAgree /\ BookedIsPaid /\ PendingApart)'
  BY <1>1, <1>2, SettledRow DEF MatchInv
<1>4. SetsAreListed' /\ PairMatches'
  BY <1>1 DEF MatchInv, SetsAreListed, Listed, Running, Sent, PairMatches, Doing
<1>5. PaidByMatchingTransfer'
  BY <1>1, <1>2 DEF MatchInv, PaidByMatchingTransfer, Sent
<1> QED
  BY <1>3, <1>4, <1>5 DEF MatchInv

(* A transfer that was sent is not sent again.                             *)
LEMMA MatchSend ==
    ASSUME MatchInv, CreditInv', NEW t \in Transfers, Send(t)
    PROVE  MatchInv'
<1>1. ~Sent(t) /\ UNCHANGED <<rows, job>>
  BY DEF Send
<1>2. /\ \A u \in Transfers \ {t} : chain'[u] = chain[u]
      /\ \A u \in Transfers : Sent(u) => Sent(u)' /\ chain'[u] = chain[u]
  BY <1>1 DEF Send, Sent, MatchInv, CreditInv, JobTypeOK, ChainType
<1>3. (CopiesAgree /\ BookedIsPaid /\ PendingApart)'
  BY <1>1 DEF MatchInv, CopiesAgree, BookedIsPaid, PendingApart, Pending
<1>4. SetsAreListed'
  BY <1>1, <1>2, Numbers DEF MatchInv, CreditInv, SetsAreListed, Listed, Running
<1>5. \A u \in Transfers : Sent(u) => \A row : Pays(row, u) => Pays(row, u)'
  BY <1>2 DEF Pays, Sent, AmountMatches
<1>6. PairMatches'
  BY <1>1, <1>2 DEF MatchInv, CreditInv, PairTyped, PairMatches, Pays, Doing, Sent, AmountMatches
<1>7. PaidByMatchingTransfer'
  BY <1>1, <1>2 DEF MatchInv, PaidByMatchingTransfer
<1> QED
  BY <1>3, <1>4, <1>6, <1>7 DEF MatchInv

LEMMA MatchNewInvoice ==
    ASSUME MatchInv, CreditInv', NEW o \in Orders, NewInvoice(o)
    PROVE  MatchInv'
<1>1. PICK a \in Amounts : /\ \A p \in PendingOrders : ~AmountsCollide(a, rows[p].amount)
                           /\ AddOrder(o, a, now)
  BY DEF NewInvoice
<1>2. UNCHANGED <<chain, job>>
  BY DEF NewInvoice
<1>3. /\ rows[o].status = "absent" /\ \A p \in Orders \ {o} : rows'[p] = rows[p]
      /\ rows'[o] = [status |-> "Pending", amount |-> a, createtime |-> now, tx_hash |-> NoTx]
  BY <1>1, Numbers DEF AddOrder, MatchInv, CreditInv
<1>4. (CopiesAgree /\ BookedIsPaid)'
  BY <1>2, <1>3 DEF MatchInv, CopiesAgree, BookedIsPaid
<1>5. PendingApart'
  <2>1. \A p \in Orders \ {o} : Pending(p)' =>
          ~AmountsCollide(a, rows[p].amount) /\ ~AmountsCollide(rows[p].amount, a)
    BY <1>1, <1>3, AmountsAssumption, Numbers, CollideSymmetric
       DEF Pending, PendingOrders, MatchInv, CreditInv
  <2> QED
    BY <1>3, <2>1 DEF MatchInv, PendingApart, Pending
<1>6. (SetsAreListed /\ PairMatches)'
  BY <1>2
     DEF MatchInv, SetsAreListed, Listed, Running, Sent, PairMatches, Doing, Pays, AmountMatches
<1>7. PaidByMatchingTransfer'
  <2> SUFFICES ASSUME NEW p \in Orders, rows'[p].status = "Paid"
               PROVE  rows'[p].tx_hash \in Transfers /\ Pays(rows'[p], rows'[p].tx_hash)
    BY <1>2 DEF PaidByMatchingTransfer, Pays, Sent, AmountMatches
  <2>1. rows'[p] = rows[p]
    BY <1>3
  <2> QED
    BY <2>1 DEF MatchInv, PaidByMatchingTransfer, Pays
<1> QED
  BY <1>4, <1>5, <1>6, <1>7 DEF MatchInv

LEMMA MatchInvStep == MatchInv /\ [CryptoNext]_jobVars => MatchInv'
<1> SUFFICES ASSUME MatchInv, [CryptoNext]_jobVars PROVE MatchInv'
  OBVIOUS
<1>1. CreditInv'
  BY CreditInvStep DEF MatchInv
<1>2. CASE Tick \/ UNCHANGED jobVars
  <2>1. UNCHANGED <<rows, chain, job>>
    BY <1>2 DEF Tick, jobVars
  <2>2. (CopiesAgree /\ SetsAreListed /\ PairMatches)'
    BY <2>1 DEF MatchInv, CopiesAgree, SetsAreListed, Listed, Running, Sent, PairMatches, Doing,
                Pays, AmountMatches
  <2> QED
    BY <1>1, <2>1, <2>2, MatchJobOnly
<1> QED
  BY <1>1, <1>2, MatchBegin, MatchLook, MatchReserve, MatchConfirm, MatchExpireOne, MatchSend,
     MatchNewInvoice
     DEF CryptoNext, JobNext, JobStep, World

(* Whatever the explorer answers, an invoice is Paid only by a transfer to *)
(* the shop of its amount, made in its time if the explorer told the time. *)
THEOREM PaidByMatchingTransferAlways == CryptoSpec => []PaidByMatchingTransfer
<1>1. MatchInv => PaidByMatchingTransfer
  BY DEF MatchInv
<1> QED
  BY MatchInvInit, MatchInvStep, <1>1, PTL DEF CryptoSpec

(* A transfer of exactly the amount of a pending invoice is not credited   *)
(* to another one: the other's amount would be too close to be pending too. *)
THEOREM ExactPaymentNotStolenAlways == CryptoSpec => ExactPaymentNotStolen
<1> DEFINE Stolen(o, p, t) ==
             /\ o # p /\ Pending(o) /\ rows[p].tx_hash # t /\ rows'[p].tx_hash = t
             /\ InWindow(rows[o], t) /\ rows[o].amount = chain[t].amount
<1>1. ASSUME MatchInv, [CryptoNext]_jobVars,
             NEW o \in Orders, NEW p \in Orders, NEW t \in Transfers, Stolen(o, p, t)
      PROVE  FALSE
  <2>1. Confirm(p) /\ t = job.chosen /\ Pending(p)
    <3>1. ASSUME NEW q \in Orders, Confirm(q)
          PROVE  q = p /\ t = job.chosen /\ Pending(p)
      <4>1. rows'[p] # rows[p] /\ rows \in [Orders -> Row]
        BY <1>1, Numbers DEF MatchInv, CreditInv
      <4>2. /\ Pending(q) /\ rows' = [rows EXCEPT ![q].status = "Paid", ![q].tx_hash = job.chosen]
        BY <3>1, <4>1 DEF Confirm, ApproveAndCredit, storeVars
      <4> QED
        BY <1>1, <4>1, <4>2 DEF Row
    <3>2. ASSUME NEW q \in Orders, ExpireOne(q)
          PROVE  FALSE
      BY <1>1, <3>2, Numbers DEF ExpireOne, ExpirePayment, MatchInv, CreditInv, Row
    <3>3. ASSUME NEW q \in Orders, NewInvoice(q)
          PROVE  FALSE
      BY <1>1, <3>3, Numbers, NoTxAssumption DEF NewInvoice, AddOrder, MatchInv, CreditInv
    <3>4. rows' # rows
      BY <1>1
    <3> QED
      BY <1>1, <3>1, <3>2, <3>3, <3>4
         DEF CryptoNext, JobNext, JobStep, World, jobVars, ReadPending, Fetch, ReadUsed,
             ReadUsedFails, BeginMatch, BeginExpire, EndRun, Reserve, PassOver, Abort,
             ConfirmRefused, ConfirmRaises, Tick, Send
  <2>2. AmountMatches(rows[p].amount, chain[t].amount)
    BY <1>1, <2>1
       DEF Confirm, MatchInv, PairMatches, Pays, SetsAreListed, Listed, CopiesAgree
  <2>3. AmountsCollide(rows[p].amount, rows[o].amount)
    BY <1>1, <2>2, MatchesCollide, Numbers DEF MatchInv, CreditInv
  <2> QED
    BY <1>1, <2>1, <2>3 DEF MatchInv, PendingApart
<1>2. MatchInv /\ [CryptoNext]_jobVars =>
        [\A o, p \in Orders : \A t \in Transfers :
           /\ o # p /\ Pending(o) /\ rows[p].tx_hash # t /\ rows'[p].tx_hash = t
           => ~(InWindow(rows[o], t) /\ rows[o].amount = chain[t].amount)]_jobVars
  BY <1>1
<1> QED
  BY MatchInvInit, MatchInvStep, <1>2, PTL DEF CryptoSpec, ExactPaymentNotStolen

-----------------------------------------------------------------------------
(***************************************************************************)
(* The job and the creators interleaved.  Neither knows the other: each    *)
(* was proved about under an assumption on what the rest of the program    *)
(* does to the table, JobSettles there and NewInvoice here.  The first of  *)
(* the two is discharged: whatever the job does to a row, JobSettles does. *)
(***************************************************************************)
SystemInv == UniqueInv /\ FailureInv /\ JobTypeOK /\ PairTyped /\ TableInv

(* What the job does is JobSettles to one row, or nothing to the table.    *)
LEMMA JobStepSettles ==
    ASSUME JobTypeOK, PairTyped, JobNext, UNCHANGED creator
    PROVE  UNCHANGED <<rows, credits, creator>> \/ \E o \in Orders : JobSettles(o)
<1>1. ASSUME NEW o \in Orders, Confirm(o)
      PROVE  UNCHANGED <<rows, credits, creator>> \/ JobSettles(o)
  BY <1>1 DEF Confirm, PairTyped, ApproveAndCredit, JobSettles, storeVars
<1>2. ASSUME NEW o \in Orders, ExpireOne(o)
      PROVE  UNCHANGED <<rows, credits, creator>> \/ JobSettles(o)
  BY <1>2 DEF ExpireOne, ExpirePayment, JobSettles
<1>3. CASE ReadPending \/ Fetch \/ ReadUsed \/ BeginExpire \/ EndRun \/ Abort \/ ReadUsedFails
  BY <1>3 DEF ReadPending, Fetch, ReadUsed, BeginMatch, BeginExpire, EndRun, Abort, ReadUsedFails
<1>4. ASSUME NEW o \in Orders, Reserve(o) \/ PassOver(o) \/ ConfirmRefused(o) \/ ConfirmRaises(o)
      PROVE  UNCHANGED <<rows, credits, creator>>
  BY <1>4 DEF Reserve, PassOver, ConfirmRefused, ConfirmRaises
<1> QED
  BY <1>1, <1>2, <1>3, <1>4 DEF JobNext, JobStep

(* Seen from the creators, a step of the system is one of theirs, of the   *)
(* job as they know it, or none.                                           *)
LEMMA SystemStepIsTheirs ==
    ASSUME SystemInv, [SystemNext]_systemVars
    PROVE  UniqueNext \/ UNCHANGED <<rows, credits, creator>>
<1>1. CASE Creating
  BY <1>1 DEF Creating, UniqueNext, CreatorNext
<1>2. CASE Settling
  BY <1>2, JobStepSettles DEF Settling, SystemInv, UniqueNext
<1>3. CASE Outside
  BY <1>3 DEF Outside, World, Tick, Send
<1>4. CASE ProcessRestart
  BY <1>4 DEF ProcessRestart, UniqueNext, CreatorNext
<1> QED
  BY <1>1, <1>2, <1>3, <1>4 DEF SystemNext, systemVars

(* The creators' invariants say nothing of the clock but that it is one.   *)
LEMMA CreatorsKeepInv ==
    ASSUME SystemInv, now' \in Nat, UniqueNext \/ UNCHANGED <<rows, credits, creator>>
    PROVE  UniqueInv' /\ FailureInv'
<1>1. CASE UniqueNext
  BY <1>1, NextInv, FailureNext DEF SystemInv
<1>2. CASE UNCHANGED <<rows, credits, creator>>
  BY <1>2 DEF SystemInv, UniqueInv, FailureInv, UniqueTypeOK, StoreTypeOK, CreatorTypeOK,
              HoldsStored, SettledApart, Settled, NoRowUnlessCreating, At, Pending
<1> QED
  BY <1>1, <1>2

(* A creator does one operation to the table, or none.                     *)
LEMMA CreatorIsOperation ==
    ASSUME UniqueTypeOK, NEW o \in Orders, CreatorStep(o) \/ DbError(o)
    PROVE  UNCHANGED storeVars \/ Operation(o)
<1>1. creator[o].amount \in Int /\ creator[o].createtime \in Int
  BY DEF UniqueTypeOK, CreatorTypeOK, Creator
<1>2. CASE Insert(o)
  BY <1>1, <1>2 DEF Insert, Operation
<1>3. CASE Store(o)
  BY <1>1, <1>3 DEF Store, Operation
<1>4. CASE Discard(o)
  BY <1>4 DEF Discard, Operation
<1> QED
  BY <1>2, <1>3, <1>4
     DEF CreatorStep, PickFirst, Accept, Yield, Resume, Repick, GiveUp, DbError, storeVars

(* The steps of the job and of the world are those of CryptoJob.           *)
LEMMA SystemIsOperation ==
    ASSUME SystemInv, [SystemNext]_systemVars
    PROVE  UNCHANGED storeVars \/ \E o \in Orders : Operation(o)
<1>1. CASE Creating
  BY <1>1, CreatorIsOperation DEF Creating, SystemInv, UniqueInv
<1>2. CASE Settling \/ Outside
  BY <1>2, StepIsOperation DEF Settling, Outside, CryptoNext, SystemInv
<1>3. CASE ProcessRestart \/ UNCHANGED systemVars
  BY <1>3 DEF ProcessRestart, Restart, systemVars, storeVars
<1> QED
  BY <1>1, <1>2, <1>3 DEF SystemNext

LEMMA SystemJobTyped ==
    ASSUME SystemInv, [SystemNext]_systemVars
    PROVE  JobTypeOK' /\ PairTyped'
<1>1. CASE Creating
  <2>1. UniqueTypeOK'
    BY <1>1, NextTyped DEF Creating, UniqueNext, CreatorNext, SystemInv, UniqueInv
  <2> QED
    BY <1>1, <2>1 DEF Creating, SystemInv, UniqueTypeOK, JobTypeOK, PairTyped, Doing
<1>2. CASE Settling \/ Outside
  BY <1>2, WorldTyped, JobRecordTyped DEF Settling, Outside, CryptoNext, SystemInv, JobTypeOK
<1>3. CASE ProcessRestart
  <2>1. AbsentRow \in Row
    BY DEF AbsentRow, Row, Statuses
  <2>2. IdleJob \in JobType /\ IdleJob.pc = "idle"
    BY <2>1 DEF IdleJob, JobType, JobSteps
  <2> QED
    BY <1>3, <2>2 DEF ProcessRestart, Restart, SystemInv, JobTypeOK, StoreTypeOK, PairTyped, Doing
<1>4. CASE UNCHANGED systemVars
  BY <1>4 DEF systemVars, SystemInv, JobTypeOK, StoreTypeOK, PairTyped, Doing
<1> QED
  BY <1>1, <1>2, <1>3, <1>4 DEF SystemNext

LEMMA SystemInvInit == SystemInit => SystemInv
<1> SUFFICES ASSUME SystemInit PROVE SystemInv
  OBVIOUS
<1>1. UniqueInv
  BY InitInv DEF SystemInit
<1>2. FailureInv
  BY <1>1 DEF SystemInit, UniqueInit, StoreInit, AbsentRow, UniqueInv, FailureInv,
              NoRowUnlessCreating, Pending
<1> QED
  BY <1>1, <1>2, CreditInvInit DEF SystemInit, SystemInv, CreditInv

LEMMA SystemInvStep == SystemInv /\ [SystemNext]_systemVars => SystemInv'
<1> SUFFICES ASSUME SystemInv, [SystemNext]_systemVars PROVE SystemInv'
  OBVIOUS
<1>1. JobTypeOK' /\ PairTyped'
  BY SystemJobTyped
<1>2. UniqueInv' /\ FailureInv'
  BY <1>1, SystemStepIsTheirs, CreatorsKeepInv DEF JobTypeOK, StoreTypeOK
<1>3. TableInv'
  <2>1. CASE UNCHANGED storeVars
    BY <2>1 DEF storeVars, SystemInv, TableInv, OneTransferOneInvoice, CreditedIffPaid
  <2> QED
    BY <2>1, SystemIsOperation, OperationKeepsTableInv DEF SystemInv, JobTypeOK
<1> QED
  BY <1>1, <1>2, <1>3 DEF SystemInv

(* Whatever the job does while invoices are created is what the creators    *)
(* were proved correct under, so their theorems hold for the program as it  *)
(* runs.                                                                    *)
THEOREM JobKeepsToItsPartAlways == SystemSpec => JobKeepsToItsPart
<1>1. SystemInit => UniqueInit
  BY DEF SystemInit
<1>2. SystemInv /\ [SystemNext]_systemVars => [UniqueNext]_<<rows, credits, creator>>
  BY SystemStepIsTheirs
<1> QED
  BY SystemInvInit, SystemInvStep, <1>1, <1>2, PTL DEF SystemSpec, JobKeepsToItsPart

(* With the job running, the amounts that users were told are apart, stored *)
(* and gone when the creation failed; and no invoice is credited twice, nor *)
(* one transfer used twice.                                                 *)
THEOREM SystemIsSafe ==
    SystemSpec => [](/\ SystemTypeOK /\ SettledApart /\ ToldIsStored /\ FailureLeavesNothing
                     /\ OneTransferOneInvoice /\ CreditedIffPaid)
<1>1. SystemInv => /\ SystemTypeOK /\ SettledApart /\ ToldIsStored /\ FailureLeavesNothing
                   /\ OneTransferOneInvoice /\ CreditedIffPaid
  BY DEF SystemInv, SystemTypeOK, UniqueInv, FailureInv, TableInv, HoldsStored, ToldIsStored,
         Settled, NoRowUnlessCreating, FailureLeavesNothing, At
<1> QED
  BY SystemInvInit, SystemInvStep, <1>1, PTL DEF SystemSpec

(* The whole of crypto payments keeps the promise of a payment channel.     *)
THEOREM SystemImplementsSettlement == SystemSpec => ImplementsSettlement
<1>1. SystemInit => Promise!Init
  BY TableInit DEF SystemInit, JobInit
<1>2. SystemInv /\ [SystemNext]_systemVars => [Promise!Next]_Promise!vars
  <2> SUFFICES ASSUME SystemInv, [SystemNext]_systemVars PROVE [Promise!Next]_Promise!vars
    OBVIOUS
  <2>1. CASE UNCHANGED storeVars
    BY <2>1 DEF storeVars, Promise!vars
  <2> QED
    BY <2>1, SystemIsOperation, OperationRefines DEF SystemInv, JobTypeOK
<1> QED
  BY SystemInvInit, SystemInvStep, <1>1, <1>2, PTL DEF SystemSpec, ImplementsSettlement, Promise!Spec
=============================================================================
