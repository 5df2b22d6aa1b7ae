---------------------------- MODULE DirectPay_proofs ----------------------------
(***************************************************************************)
(* Proofs about purchases that wait for their payments, for any number of  *)
(* payments, purchases, lapses of the claim and restarts.                  *)
(***************************************************************************)
EXTENDS DirectPay, TLAPS

\* The bound is a number, and no payment is called "none".
Sizes == MAX_PURCHASES \in Nat /\ None \notin Orders

Statuses == {None, "pending", "linked", "fulfilling", "fulfilled", "failed", "cancelled"}
Positions == {"idle", "find", "claim", "read", "begin", "make", "mark", "marked",
              "unclaimAndClear", "clear", "unclaim", "rejected", "cancel"}
RecordType == [id : 0..MAX_PURCHASES, status : Statuses, card : Orders \cup {None},
               coin : Orders \cup {None}]
UserType == [pc : {"idle", "cancel", "unclaim", "save", "link", "write", "key"},
             copy : RecordType, order : Orders \cup {None}]
SettleType == [pc : Positions, copy : RecordType, made : BOOLEAN]

TypeInv ==
    /\ record \in RecordType /\ claim \in BOOLEAN /\ saved \in 0..MAX_PURCHASES
    /\ user \in UserType /\ settle \in [Orders -> SettleType]
    /\ payment \in [Orders -> {"none", "open", "credited", "rejected", "approved"}]
    /\ created \in [1..MAX_PURCHASES -> Nat]
    /\ crossed \in BOOLEAN /\ faults \in Nat

At(o, places) == settle[o].pc \in places
Waiting == record.status \in Active

\* Purchases are numbered as they are saved, what has a status has a number, and a
\* payment is settled only once.
Saved(rec) == rec.id <= saved /\ (rec.status # None => rec.id # 0) /\ (rec.status = None => rec = NoRecord)
InTurn ==
    /\ Saved(record) /\ Saved(user.copy) /\ \A o \in Orders : Saved(settle[o].copy)
    /\ \A p \in 1..MAX_PURCHASES : p > saved => created[p] = 0
    /\ user.pc = "save" => saved < MAX_PURCHASES
    /\ user.pc \in {"cancel", "unclaim"} => saved < MAX_PURCHASES
    /\ user.pc = "write" => user.copy.status \in Active
    /\ user.pc \in {"link", "write", "key"} => user.order \in Orders
    /\ \A o \in Orders : ~At(o, {"idle"}) => payment[o] \in {"credited", "rejected"}
    /\ \A o \in Orders : At(o, {"begin", "make", "marked"}) => settle[o].copy.id # 0

\* As long as nobody crossed: a purchase that waits was not made and nobody is making
\* it; one at most has claimed it; and one at most is about to make any.
Exclusive ==
    ~crossed =>
        /\ Waiting =>
             /\ created[record.id] = 0
             /\ \A o \in Orders : At(o, {"idle", "find", "claim", "read", "begin", "rejected", "cancel"})
             /\ \A o \in Orders : At(o, {"read", "begin"}) => claim
             /\ \A o, x \in Orders : At(o, {"read", "begin"}) /\ At(x, {"read", "begin"}) => o = x
             /\ user.pc = "cancel" => user.copy.status \in Active
             /\ \A o \in Orders : At(o, {"cancel"}) => settle[o].copy.status \in Active
        /\ \A o \in Orders : At(o, {"begin", "make"}) => created[settle[o].copy.id] = 0
        /\ \A o, x \in Orders : At(o, {"begin", "make"}) /\ At(x, {"begin", "make"}) => o = x
        /\ \A p \in 1..MAX_PURCHASES : created[p] <= 1

\* A claim is held by somebody, and, when the record is gone, by one who gives it back.
Returns(o) ==
    \/ At(o, {"read", "begin", "marked", "unclaimAndClear", "clear", "unclaim"})
    \/ At(o, {"mark"}) /\ settle[o].made
Held ==
    faults = 0 =>
        /\ claim => \E o \in Orders : Returns(o) \/ At(o, {"make", "mark"})
        /\ claim /\ record = NoRecord => \E o \in Orders : Returns(o)
        /\ record.status = "fulfilling" => \E o \in Orders : At(o, {"make", "mark", "marked"})

\* A payment of a purchase that waits can be found, and when it was credited somebody
\* is on the way to make the purchase.
Tried ==
    ~crossed /\ faults = 0 /\ Waiting =>
        \A o \in PaymentsOf(record) :
            \/ user.pc = "key" /\ user.order = o
            \/ /\ o \in links
               /\ payment[o] = "credited" =>
                    At(o, {"find", "claim"}) \/ \E x \in Orders : At(x, {"read", "begin"})

DirectPayInv == TypeInv /\ InTurn /\ Exclusive /\ Held /\ Tried

-----------------------------------------------------------------------------
(* What a step leaves of the payment it settles, and of the record.        *)

Moves(o, pc, copy, made) ==
    /\ settle' \in [Orders -> SettleType]
    /\ settle'[o].pc = pc /\ settle'[o].copy = copy /\ settle'[o].made = made
    /\ \A x \in Orders : x # o => settle'[x] = settle[x]

LEMMA NoRecordTyped ==
    ASSUME Sizes
    PROVE  NoRecord \in RecordType /\ Done \in SettleType /\ Idle \in UserType
    <1>1. 0 \in 0..MAX_PURCHASES
        BY DEF Sizes
    <1>2. NoRecord \in RecordType
        BY <1>1 DEF NoRecord, RecordType, Statuses
    <1> QED BY <1>2 DEF Done, SettleType, Idle, UserType, Positions

LEMMA Replaced ==
    ASSUME TypeInv, NEW o \in Orders, NEW n \in SettleType, settle' = [settle EXCEPT ![o] = n]
    PROVE  Moves(o, n.pc, n.copy, n.made)
    BY DEF Moves, TypeInv

LEMMA Went ==
    ASSUME TypeInv, NEW o \in Orders, NEW pc \in Positions, Goes(o, pc)
    PROVE  Moves(o, pc, settle[o].copy, settle[o].made)
    <1> DEFINE n == [settle[o] EXCEPT !.pc = pc]
    <1>1. settle[o] \in SettleType
        BY DEF TypeInv
    <1>2. n \in SettleType /\ n.pc = pc /\ n.copy = settle[o].copy /\ n.made = settle[o].made
        BY <1>1 DEF SettleType
    <1>3. settle' = [settle EXCEPT ![o] = n]
        BY DEF Goes, TypeInv
    <1> HIDE DEF n
    <1>4. Moves(o, n.pc, n.copy, n.made)
        BY <1>2, <1>3, Replaced
    <1> QED BY <1>2, <1>4

LEMMA Copied ==
    ASSUME TypeInv, NEW o \in Orders, NEW pc \in Positions, NEW copy \in RecordType,
           settle' = [settle EXCEPT ![o].pc = pc, ![o].copy = copy]
    PROVE  Moves(o, pc, copy, settle[o].made)
    <1> DEFINE n == [settle[o] EXCEPT !.pc = pc, !.copy = copy]
    <1>1. settle[o] \in SettleType
        BY DEF TypeInv
    <1>2. n \in SettleType /\ n.pc = pc /\ n.copy = copy /\ n.made = settle[o].made
        BY <1>1 DEF SettleType
    <1>3. settle' = [settle EXCEPT ![o] = n]
        BY DEF TypeInv
    <1> HIDE DEF n
    <1>4. Moves(o, n.pc, n.copy, n.made)
        BY <1>2, <1>3, Replaced
    <1> QED BY <1>2, <1>4

LEMMA MadeIt ==
    ASSUME TypeInv, NEW o \in Orders, NEW made \in BOOLEAN,
           settle' = [settle EXCEPT ![o].pc = "mark", ![o].made = made]
    PROVE  Moves(o, "mark", settle[o].copy, made)
    <1> DEFINE n == [settle[o] EXCEPT !.pc = "mark", !.made = made]
    <1>1. settle[o] \in SettleType
        BY DEF TypeInv
    <1>2. n \in SettleType /\ n.pc = "mark" /\ n.copy = settle[o].copy /\ n.made = made
        BY <1>1 DEF SettleType, Positions
    <1>3. settle' = [settle EXCEPT ![o] = n]
        BY DEF TypeInv
    <1> HIDE DEF n
    <1>4. Moves(o, n.pc, n.copy, n.made)
        BY <1>2, <1>3, Replaced
    <1> QED BY <1>2, <1>4

LEMMA Finished ==
    ASSUME Sizes, TypeInv, NEW o \in Orders, Ends(o)
    PROVE  Moves(o, "idle", NoRecord, FALSE)
    <1>1. Done.pc = "idle" /\ Done.copy = NoRecord /\ Done.made = FALSE
        BY DEF Done
    <1> QED BY <1>1, NoRecordTyped, Replaced DEF Ends

\* A record with another status is one of the same purchase.
LEMMA Restated ==
    ASSUME NEW rec \in RecordType, NEW status \in Statuses
    PROVE  LET new == [rec EXCEPT !.status = status]
           IN  /\ new \in RecordType /\ new.id = rec.id /\ new.status = status
               /\ new.card = rec.card /\ new.coin = rec.coin
    BY DEF RecordType

LEMMA NewRecord ==
    ASSUME Sizes, NEW p \in 0..MAX_PURCHASES
    PROVE  LET new == [NoRecord EXCEPT !.id = p, !.status = "pending"]
           IN  /\ new \in RecordType /\ new.id = p /\ new.status = "pending"
               /\ new.card = None /\ new.coin = None
    BY DEF RecordType, NoRecord, Statuses

LEMMA Linked ==
    ASSUME NEW rec \in RecordType, NEW o \in Orders
    PROVE  LET new == LinkedTo(rec, o)
           IN  /\ new \in RecordType /\ new.id = rec.id /\ new.status = "linked"
               /\ PaymentsOf(new) \subseteq PaymentsOf(rec) \cup {o}
    BY DEF RecordType, LinkedTo, PaymentsOf, Statuses

-----------------------------------------------------------------------------
(* The steps that settle a payment.                                        *)

\* A step that reads, or gives up, and changes no more than the claim.
LEMMA OnlyMoves ==
    ASSUME Sizes, DirectPayInv, NEW o \in Orders, NEW pc, NEW copy \in RecordType, NEW made,
           Moves(o, pc, copy, made), ~At(o, {"idle"}), Saved(copy), claim' \in BOOLEAN,
           pc \in {"begin", "make", "marked"} => copy.id # 0,
           UNCHANGED <<record, links, saved, user, payment, created, crossed, faults>>
    PROVE  TypeInv' /\ InTurn'
    <1> USE DEF DirectPayInv
    <1>1. TypeInv'
        BY DEF TypeInv, Moves
    <1>2. InTurn'
        BY DEF InTurn, Moves, At, Saved
    <1> QED BY <1>1, <1>2

LEMMA NoRecordSaved ==
    ASSUME TypeInv
    PROVE  Saved(NoRecord)
    BY DEF Saved, NoRecord, TypeInv

LEMMA FindStep ==
    ASSUME Sizes, DirectPayInv, NEW o \in Orders, Find(o)
    PROVE  DirectPayInv'
    <1> USE DEF DirectPayInv
    <1>1. /\ settle[o].pc = "find"
          /\ UNCHANGED <<record, links, claim, saved, user, payment, created, crossed, faults>>
        BY DEF Find
    <1>2. settle[o] \in SettleType /\ settle[o].copy \in RecordType
        BY DEF TypeInv, SettleType
    <1>3. PICK pc \in {"claim", "idle"}, copy \in RecordType, made \in BOOLEAN :
            /\ Moves(o, pc, copy, made) /\ Saved(copy)
            /\ pc = "idle" => ~Finds(o)
        <2>1. CASE Finds(o)
            <3>1. Moves(o, "claim", settle[o].copy, settle[o].made)
                BY <2>1, Went DEF Find, Positions
            <3> QED BY <1>2, <3>1 DEF InTurn, SettleType
        <2>2. CASE ~Finds(o)
            <3>1. Moves(o, "idle", NoRecord, FALSE)
                BY <2>2, Finished DEF Find
            <3> QED BY <2>2, <3>1, NoRecordTyped, NoRecordSaved
        <2> QED BY <2>1, <2>2
    <1>4. TypeInv' /\ InTurn'
        <2>1. ~At(o, {"idle"}) /\ claim' \in BOOLEAN
            BY <1>1 DEF At, TypeInv
        <2>2. pc \in {"begin", "make", "marked"} => copy.id # 0
            BY <1>3
        <2> QED BY <1>1, <1>3, <2>1, <2>2, OnlyMoves
    <1>5. Exclusive'
        BY <1>1, <1>3 DEF Exclusive, Moves, At, Waiting
    <1>6. Held'
        BY <1>1, <1>3 DEF Held, Moves, At, Returns
    <1>7. Tried'
        <2>1. CASE pc = "claim"
            <3>1. \A x \in Orders : settle[x].pc \in {"find", "claim"} => settle'[x].pc \in {"find", "claim"}
                BY <1>1, <1>3, <2>1 DEF Moves
            <3>2. \A x \in Orders : settle[x].pc \in {"read", "begin"} => settle'[x].pc \in {"read", "begin"}
                BY <1>1, <1>3 DEF Moves
            <3>3. PaymentsOf(record) \subseteq Orders
                BY DEF PaymentsOf, TypeInv, RecordType
            <3> QED BY <1>1, <3>1, <3>2, <3>3 DEF Tried, At, Waiting, PaymentsOf
        <2>2. CASE pc = "idle"
            <3>1. ~(o \in links /\ o \in PaymentsOf(record))
                BY <1>3, <2>2 DEF Finds
            <3>2. SUFFICES ASSUME ~crossed, faults = 0, Waiting, NEW x \in PaymentsOf(record)
                           PROVE  \/ user.pc = "key" /\ user.order = x
                                  \/ /\ x \in links
                                     /\ payment[x] = "credited" =>
                                            \/ settle'[x].pc \in {"find", "claim"}
                                            \/ \E y \in Orders : settle'[y].pc \in {"read", "begin"}
                BY <1>1 DEF Tried, At, Waiting, PaymentsOf
            <3>3. \/ user.pc = "key" /\ user.order = x
                  \/ /\ x \in links
                     /\ payment[x] = "credited" =>
                            \/ settle[x].pc \in {"find", "claim"}
                            \/ \E y \in Orders : settle[y].pc \in {"read", "begin"}
                BY <3>2 DEF Tried, At
            <3>4. \A y \in Orders : settle[y].pc \in {"read", "begin"} => y # o /\ settle'[y] = settle[y]
                BY <1>1, <1>3 DEF Moves
            <3>5. x \in Orders
                BY <3>2 DEF PaymentsOf, TypeInv, RecordType
            <3>6. x \in links => x # o /\ settle'[x] = settle[x]
                BY <1>3, <3>1, <3>2, <3>5 DEF Moves
            <3> QED BY <3>3, <3>4, <3>6
        <2> QED BY <1>3, <2>1, <2>2
    <1> QED BY <1>4, <1>5, <1>6, <1>7

LEMMA ClaimStep ==
    ASSUME Sizes, DirectPayInv, NEW o \in Orders, Claim(o)
    PROVE  DirectPayInv'
    <1> USE DEF DirectPayInv
    <1>1. /\ settle[o].pc = "claim" /\ claim'
          /\ UNCHANGED <<record, links, saved, user, payment, created, crossed, faults>>
        BY DEF Claim
    <1>2. settle[o] \in SettleType /\ settle[o].copy \in RecordType
        BY DEF TypeInv, SettleType
    <1>3. PICK pc \in {"read", "idle"}, copy \in RecordType, made \in BOOLEAN :
            /\ Moves(o, pc, copy, made) /\ Saved(copy)
            /\ pc = "read" <=> ~claim
        <2>1. CASE ~claim
            <3>1. Moves(o, "read", settle[o].copy, settle[o].made)
                BY <2>1, Went DEF Claim, Positions
            <3> QED BY <1>2, <2>1, <3>1 DEF InTurn, SettleType
        <2>2. CASE claim
            <3>1. Moves(o, "idle", NoRecord, FALSE)
                BY <2>2, Finished DEF Claim
            <3> QED BY <2>2, <3>1, NoRecordTyped, NoRecordSaved
        <2> QED BY <2>1, <2>2
    <1>4. TypeInv' /\ InTurn'
        <2>1. ~At(o, {"idle"}) /\ claim' \in BOOLEAN
            BY <1>1 DEF At, TypeInv, Claim
        <2>2. pc \in {"begin", "make", "marked"} => copy.id # 0
            BY <1>3
        <2> QED BY <1>1, <1>3, <2>1, <2>2, OnlyMoves
    <1>5. Exclusive'
        <2>1. CASE pc = "read"
            BY <1>1, <1>3, <2>1 DEF Exclusive, Moves, At, Waiting
        <2>2. CASE pc = "idle"
            BY <1>1, <1>3, <2>2 DEF Exclusive, Moves, At, Waiting
        <2> QED BY <1>3, <2>1, <2>2
    <1>6. Held'
        <2>1. CASE pc = "read"
            BY <1>1, <1>3, <2>1 DEF Held, Moves, At, Returns
        <2>2. CASE pc = "idle"
            BY <1>1, <1>3, <2>2 DEF Held, Moves, At, Returns
        <2> QED BY <1>3, <2>1, <2>2
    <1>7. Tried'
        <2>1. CASE pc = "read"
            BY <1>1, <1>3, <2>1 DEF Tried, Moves, At, Waiting, PaymentsOf
        <2>2. CASE pc = "idle"
            <3>1. ASSUME ~crossed, faults = 0, Waiting
                  PROVE  \E x \in Orders : settle'[x].pc \in {"read", "begin"}
                <4>1. PICK x \in Orders : Returns(x) \/ At(x, {"make", "mark"})
                    BY <1>3, <2>2, <3>1 DEF Held
                <4>2. settle[x].pc \in {"read", "begin"}
                    BY <3>1, <4>1 DEF Exclusive, Returns, At
                <4> QED BY <1>1, <1>3, <4>2 DEF Moves
            <3> QED BY <1>1, <3>1 DEF Tried, At, Waiting, PaymentsOf
        <2> QED BY <1>3, <2>1, <2>2
    <1> QED BY <1>4, <1>5, <1>6, <1>7

LEMMA ClaimReadsStep ==
    ASSUME Sizes, DirectPayInv, NEW o \in Orders, ClaimReads(o)
    PROVE  DirectPayInv'
    <1> USE DEF DirectPayInv
    <1>1. /\ settle[o].pc = "read"
          /\ UNCHANGED <<record, links, claim, saved, user, payment, created, crossed, faults>>
        BY DEF ClaimReads
    <1>2. PICK pc \in {"begin", "unclaim"}, made \in BOOLEAN :
            Moves(o, pc, record, made) /\ (pc = "begin" <=> Waiting)
        <2>1. settle[o] \in SettleType /\ record \in RecordType /\ settle[o].made \in BOOLEAN
            BY DEF TypeInv, SettleType
        <2>2. CASE Waiting
            <3>1. Moves(o, "begin", record, settle[o].made)
                BY <2>1, <2>2, Copied DEF ClaimReads, Positions, Waiting
            <3> QED BY <2>1, <2>2, <3>1
        <2>3. CASE ~Waiting
            <3>1. Moves(o, "unclaim", record, settle[o].made)
                BY <2>1, <2>3, Copied DEF ClaimReads, Positions, Waiting
            <3> QED BY <2>1, <2>3, <3>1
        <2> QED BY <2>2, <2>3
    <1>3. TypeInv' /\ InTurn'
        <2>1. ~At(o, {"idle"}) /\ claim' \in BOOLEAN /\ record \in RecordType /\ Saved(record)
            BY <1>1 DEF At, TypeInv, InTurn
        <2>2. pc \in {"begin", "make", "marked"} => record.id # 0
            BY <1>2, <2>1 DEF Waiting, Active, Saved, None
        <2> QED BY <1>1, <1>2, <2>1, <2>2, OnlyMoves
    <1>4. Exclusive'
        <2>1. CASE pc = "begin"
            BY <1>1, <1>2, <2>1 DEF Exclusive, Moves, At, Waiting
        <2>2. CASE pc = "unclaim"
            BY <1>1, <1>2, <2>2 DEF Exclusive, Moves, At, Waiting
        <2> QED BY <1>2, <2>1, <2>2
    <1>5. Held'
        BY <1>1, <1>2 DEF Held, Moves, At, Returns
    <1>6. Tried'
        <2>1. CASE Waiting
            BY <1>1, <1>2, <2>1 DEF Tried, Moves, At, Waiting, PaymentsOf
        <2>2. CASE ~Waiting
            BY <1>1, <2>2 DEF Tried, Waiting
        <2> QED BY <2>1, <2>2
    <1> QED BY <1>3, <1>4, <1>5, <1>6

\* The steps that hold the claim, or gave it to another, write the record.
LEMMA ClaimWritesStep ==
    ASSUME Sizes, DirectPayInv, NEW o \in Orders, ClaimWrites(o)
    PROVE  DirectPayInv'
    <1> USE DEF DirectPayInv
    <1>1. /\ settle[o].pc = "begin" /\ record' = [settle[o].copy EXCEPT !.status = "fulfilling"]
          /\ UNCHANGED <<links, claim, saved, user, payment, created, crossed, faults>>
        BY DEF ClaimWrites
    <1>2. Moves(o, "make", settle[o].copy, settle[o].made)
        BY Went DEF ClaimWrites, Positions
    <1>3. settle[o] \in SettleType /\ settle[o].copy \in RecordType /\ settle[o].copy.id # 0
          /\ Saved(settle[o].copy)
        BY <1>1 DEF TypeInv, SettleType, InTurn, At
    <1>4. /\ record' \in RecordType /\ record'.id = settle[o].copy.id
          /\ record'.status = "fulfilling"
        <2>1. "fulfilling" \in Statuses
            BY DEF Statuses
        <2> QED BY <1>1, <1>3, <2>1, Restated
    <1>5. TypeInv'
        BY <1>1, <1>2, <1>4 DEF TypeInv, Moves
    <1>6. InTurn'
        BY <1>1, <1>2, <1>3, <1>4 DEF InTurn, Moves, At, Saved, None
    <1>7. ~Waiting'
        BY <1>4 DEF Waiting, Active
    <1>8. Exclusive'
        BY <1>1, <1>2, <1>7 DEF Exclusive, Moves, At
    <1>9. Held'
        <2>1. record' # NoRecord
            BY <1>4 DEF NoRecord, None
        <2> QED BY <1>1, <1>2, <2>1 DEF Held, Moves, At, Returns
    <1>10. Tried'
        BY <1>7 DEF Tried
    <1> QED BY <1>5, <1>6, <1>8, <1>9, <1>10

LEMMA MakeStep ==
    ASSUME Sizes, DirectPayInv, NEW o \in Orders, Make(o)
    PROVE  DirectPayInv'
    <1> USE DEF DirectPayInv
    <1>1. /\ settle[o].pc = "make"
          /\ UNCHANGED <<record, links, claim, saved, user, payment, crossed, faults>>
        BY DEF Make
    <1> DEFINE p == settle[o].copy.id
    <1>2. settle[o] \in SettleType /\ settle[o].copy \in RecordType /\ p \in 1..MAX_PURCHASES
          /\ p <= saved /\ Saved(settle[o].copy)
        BY <1>1 DEF Sizes, TypeInv, SettleType, RecordType, InTurn, At, Saved
    <1>3. PICK made \in BOOLEAN, n \in {0, 1} :
            Moves(o, "mark", settle[o].copy, made) /\ created' = [created EXCEPT ![p] = @ + n]
        BY MadeIt DEF Make
    <1>4. created[p] \in Nat
        BY <1>2 DEF TypeInv
    <1>5. /\ created' \in [1..MAX_PURCHASES -> Nat] /\ created'[p] = created[p] + n
          /\ \A q \in 1..MAX_PURCHASES : q # p => created'[q] = created[q]
        <2> DEFINE new == created[p] + n
        <2>1. new \in Nat
            BY <1>4
        <2>2. created' = [created EXCEPT ![p] = new]
            BY <1>3
        <2> HIDE DEF new, p
        <2>3. /\ created' \in [1..MAX_PURCHASES -> Nat] /\ created'[p] = new
              /\ \A q \in 1..MAX_PURCHASES : q # p => created'[q] = created[q]
            BY <1>2, <2>1, <2>2 DEF TypeInv
        <2> USE DEF new
        <2> QED BY <2>3
    <1>6. TypeInv'
        BY <1>1, <1>3, <1>5 DEF TypeInv, Moves
    <1>7. InTurn'
        <2>1. \A q \in 1..MAX_PURCHASES : q > saved => created'[q] = 0
            <3>1. saved \in Nat
                BY DEF Sizes, TypeInv
            <3> QED BY <1>2, <1>5, <3>1 DEF InTurn
        <2>2. \A x \in Orders : /\ settle'[x].copy = settle[x].copy
                                /\ settle'[x].pc = settle[x].pc \/ settle'[x].pc = "mark"
            <3>1. settle'[o].copy = settle[o].copy /\ settle'[o].pc = "mark"
                BY <1>3 DEF Moves
            <3>2. \A x \in Orders : x # o => settle'[x] = settle[x]
                BY <1>3 DEF Moves
            <3> HIDE DEF p
            <3> QED BY <3>1, <3>2
        <2>3. settle[o].pc = "make"
            BY <1>1
        <2> HIDE DEF p
        <2>4. \A x \in Orders : settle'[x].pc # "idle" => settle[x].pc # "idle"
            <3>1. \A x \in Orders : x # o => settle'[x] = settle[x]
                BY <1>3 DEF Moves
            <3> QED BY <2>3, <3>1
        <2>5. \A x \in Orders : settle'[x].pc \in {"begin", "make", "marked"} => settle[x].copy.id # 0
            BY <2>2 DEF InTurn, At
        <2>6. \A x \in Orders : Saved(settle[x].copy)
            BY DEF InTurn
        <2> QED BY <1>1, <2>1, <2>2, <2>4, <2>5, <2>6 DEF InTurn, At, Saved
    <1>8. ~crossed => ~Waiting
        BY <1>1 DEF Exclusive, At
    <1>9. Exclusive'
        <2>1. SUFFICES ASSUME ~crossed
                       PROVE  Exclusive'
            BY <1>1 DEF Exclusive
        <2>2. created[p] = 0 /\ \A x \in Orders : settle[x].pc \in {"begin", "make"} => x = o
            BY <1>1, <2>1 DEF Exclusive, At
        <2>3. \A q \in 1..MAX_PURCHASES : created'[q] <= 1
            BY <1>2, <1>5, <2>1, <2>2 DEF Exclusive
        <2>4. \A x \in Orders : settle'[x].pc \notin {"begin", "make"}
            BY <1>3, <2>2 DEF Moves
        <2>5. ~Waiting'
            BY <1>1, <1>8, <2>1 DEF Waiting
        <2> QED BY <2>3, <2>4, <2>5 DEF Exclusive, At
    <1>10. Held'
        BY <1>1, <1>3 DEF Held, Moves, At, Returns
    <1>11. Tried'
        BY <1>1, <1>8 DEF Tried, Waiting
    <1> QED BY <1>6, <1>7, <1>9, <1>10, <1>11

\* Once a payment came to make the purchase, the purchase does not wait any more.
LEMMA OneMakes ==
    ASSUME DirectPayInv, NEW o \in Orders,
           settle[o].pc \in {"make", "mark", "marked", "unclaimAndClear", "clear", "unclaim"}
    PROVE  ~crossed => ~Waiting
    BY DEF DirectPayInv, Exclusive, At

LEMMA MarkReadsStep ==
    ASSUME Sizes, DirectPayInv, NEW o \in Orders, MarkReads(o)
    PROVE  DirectPayInv'
    <1> USE DEF DirectPayInv
    <1>1. /\ settle[o].pc = "mark"
          /\ UNCHANGED <<record, links, claim, saved, user, payment, created, crossed, faults>>
        BY DEF MarkReads
    <1>2. /\ settle[o] \in SettleType /\ settle[o].made \in BOOLEAN /\ settle[o].copy \in RecordType
          /\ record \in RecordType /\ Saved(settle[o].copy) /\ Saved(record)
        BY DEF TypeInv, SettleType, InTurn
    <1>3. record # NoRecord => record.id # 0
        BY <1>2 DEF Saved
    <1>4. PICK pc \in {"marked", "clear", "idle"}, copy \in RecordType, made \in BOOLEAN :
            /\ Moves(o, pc, copy, made) /\ Saved(copy)
            /\ pc = "marked" => copy.id # 0
            /\ pc = "marked" <=> record # NoRecord
            /\ pc = "idle" => ~settle[o].made
        <2>1. CASE record # NoRecord
            <3>1. Moves(o, "marked", record, settle[o].made)
                BY <1>2, <2>1, Copied DEF MarkReads, Positions
            <3> QED BY <1>2, <1>3, <2>1, <3>1
        <2>2. CASE record = NoRecord /\ settle[o].made
            <3>1. Moves(o, "clear", settle[o].copy, settle[o].made)
                BY <2>2, Went DEF MarkReads, Positions
            <3> QED BY <1>2, <2>2, <3>1
        <2>3. CASE record = NoRecord /\ ~settle[o].made
            <3>1. Moves(o, "idle", NoRecord, FALSE)
                BY <2>3, Finished DEF MarkReads
            <3> QED BY <2>3, <3>1, NoRecordTyped, NoRecordSaved
        <2> QED BY <1>2, <2>1, <2>2, <2>3
    <1>5. TypeInv' /\ InTurn'
        <2>1. ~At(o, {"idle"}) /\ claim' \in BOOLEAN
            BY <1>1 DEF At, TypeInv
        <2>2. pc \in {"begin", "make", "marked"} => copy.id # 0
            BY <1>4
        <2> QED BY <1>1, <1>4, <2>1, <2>2, OnlyMoves
    <1>6. ~crossed => ~Waiting
        BY <1>1, OneMakes
    <1>7. Exclusive'
        BY <1>1, <1>4, <1>6 DEF Exclusive, Moves, At, Waiting
    <1>8. Held'
        <2>1. CASE record # NoRecord
            BY <1>1, <1>4, <2>1 DEF Held, Moves, At, Returns
        <2>2. CASE record = NoRecord
            <3>1. record.status # "fulfilling"
                BY <2>2 DEF NoRecord, None
            <3>2. pc \in {"clear", "idle"}
                BY <1>4, <2>2
            <3> QED BY <1>1, <1>4, <2>2, <3>1, <3>2 DEF Held, Moves, At, Returns
        <2> QED BY <2>1, <2>2
    <1>9. Tried'
        BY <1>1, <1>6 DEF Tried, Waiting
    <1> QED BY <1>5, <1>7, <1>8, <1>9

LEMMA MarkWritesStep ==
    ASSUME Sizes, DirectPayInv, NEW o \in Orders, MarkWrites(o)
    PROVE  DirectPayInv'
    <1> USE DEF DirectPayInv
    <1>1. /\ settle[o].pc = "marked"
          /\ UNCHANGED <<links, claim, saved, user, payment, created, crossed, faults>>
        BY DEF MarkWrites
    <1>2. /\ settle[o] \in SettleType /\ settle[o].copy \in RecordType /\ settle[o].made \in BOOLEAN
          /\ Saved(settle[o].copy) /\ settle[o].copy.id # 0
        BY <1>1 DEF TypeInv, SettleType, InTurn, At
    <1>3. PICK pc \in {"unclaimAndClear", "unclaim"}, status \in {"fulfilled", "failed"} :
            /\ Moves(o, pc, settle[o].copy, settle[o].made)
            /\ record' = [settle[o].copy EXCEPT !.status = status]
        <2>1. CASE settle[o].made
            <3>1. Moves(o, "unclaimAndClear", settle[o].copy, settle[o].made)
                BY <2>1, Went DEF MarkWrites, Positions
            <3> QED BY <2>1, <3>1 DEF MarkWrites
        <2>2. CASE ~settle[o].made
            <3>1. Moves(o, "unclaim", settle[o].copy, settle[o].made)
                BY <2>2, Went DEF MarkWrites, Positions
            <3> QED BY <2>2, <3>1 DEF MarkWrites
        <2> QED BY <2>1, <2>2
    <1>4. /\ record' \in RecordType /\ record'.id = settle[o].copy.id /\ record'.status = status
        <2>1. status \in Statuses
            BY DEF Statuses
        <2> QED BY <1>2, <1>3, <2>1, Restated
    <1>5. TypeInv'
        BY <1>1, <1>3, <1>4 DEF TypeInv, Moves
    <1>6. InTurn'
        BY <1>1, <1>2, <1>3, <1>4 DEF InTurn, Moves, At, Saved, None
    <1>7. ~Waiting' /\ record'.status # "fulfilling" /\ record' # NoRecord
        BY <1>4 DEF Waiting, Active, NoRecord, None
    <1>8. Exclusive'
        BY <1>1, <1>3, <1>7 DEF Exclusive, Moves, At
    <1>9. Held'
        BY <1>1, <1>3, <1>7 DEF Held, Moves, At, Returns
    <1>10. Tried'
        BY <1>7 DEF Tried
    <1> QED BY <1>5, <1>6, <1>8, <1>9, <1>10

LEMMA ClearStep ==
    ASSUME Sizes, DirectPayInv, NEW o \in Orders, Clear(o)
    PROVE  DirectPayInv'
    <1> USE DEF DirectPayInv
    <1>1. /\ settle[o].pc = "clear" /\ record' = NoRecord
          /\ UNCHANGED <<claim, saved, user, payment, created, crossed, faults>>
        BY DEF Clear
    <1>2. Moves(o, "unclaim", settle[o].copy, settle[o].made)
        BY Went DEF Clear, Positions
    <1>3. record' \in RecordType /\ Saved(record')
        BY <1>1, NoRecordTyped, NoRecordSaved
    <1>4. TypeInv'
        BY <1>1, <1>2, <1>3 DEF TypeInv, Moves
    <1>5. InTurn'
        BY <1>1, <1>2, <1>3 DEF InTurn, Moves, At, Saved
    <1>6. ~Waiting' /\ record'.status # "fulfilling"
        BY <1>1 DEF Waiting, Active, NoRecord, None
    <1>7. Exclusive'
        BY <1>1, <1>2, <1>6 DEF Exclusive, Moves, At
    <1>8. Held'
        BY <1>1, <1>2, <1>6 DEF Held, Moves, At, Returns
    <1>9. Tried'
        BY <1>6 DEF Tried
    <1> QED BY <1>4, <1>5, <1>7, <1>8, <1>9

LEMMA UnclaimStep ==
    ASSUME Sizes, DirectPayInv, NEW o \in Orders, Unclaim(o)
    PROVE  DirectPayInv'
    <1> USE DEF DirectPayInv
    <1>1. /\ settle[o].pc \in {"unclaim", "unclaimAndClear"} /\ claim' = FALSE
          /\ UNCHANGED <<record, links, saved, user, payment, created, crossed, faults>>
        BY DEF Unclaim
    <1>2. settle[o] \in SettleType /\ settle[o].copy \in RecordType /\ settle[o].made \in BOOLEAN
          /\ Saved(settle[o].copy)
        BY DEF TypeInv, SettleType, InTurn
    <1>3. PICK pc \in {"idle", "clear"}, copy \in RecordType, made \in BOOLEAN :
            Moves(o, pc, copy, made) /\ Saved(copy)
        <2>1. CASE settle[o].pc = "unclaim"
            <3>1. Moves(o, "idle", NoRecord, FALSE)
                BY <2>1, Finished DEF Unclaim
            <3> QED BY <3>1, NoRecordTyped, NoRecordSaved
        <2>2. CASE settle[o].pc # "unclaim"
            <3>1. Moves(o, "clear", settle[o].copy, settle[o].made)
                BY <2>2, Went DEF Unclaim, Positions
            <3> QED BY <1>2, <3>1
        <2> QED BY <2>1, <2>2
    <1>4. TypeInv' /\ InTurn'
        <2>1. ~At(o, {"idle"}) /\ claim' \in BOOLEAN
            BY <1>1 DEF At
        <2>2. pc \in {"begin", "make", "marked"} => copy.id # 0
            BY <1>3
        <2> QED BY <1>1, <1>3, <2>1, <2>2, OnlyMoves
    <1>5. ~crossed => ~Waiting
        BY <1>1, OneMakes
    <1>6. Exclusive'
        BY <1>1, <1>3, <1>5 DEF Exclusive, Moves, At, Waiting
    <1>7. Held'
        BY <1>1, <1>3 DEF Held, Moves, At
    <1>8. Tried'
        BY <1>1, <1>5 DEF Tried, Waiting
    <1> QED BY <1>4, <1>6, <1>7, <1>8

-----------------------------------------------------------------------------
(* A payment is credited, rejected or settled in the web panel.            *)

\* A payment that was not settled is settled by nobody yet.
LEMMA NobodySettles ==
    ASSUME DirectPayInv, NEW o \in Orders, payment[o] \in {"none", "open"}
    PROVE  settle[o].pc = "idle"
    BY DEF DirectPayInv, InTurn, At

LEMMA CreditStep ==
    ASSUME Sizes, DirectPayInv, NEW o \in Orders, Credit(o)
    PROVE  DirectPayInv'
    <1> USE DEF DirectPayInv
    <1>1. /\ payment[o] = "open" /\ payment' = [payment EXCEPT ![o] = "credited"]
          /\ UNCHANGED <<record, links, claim, saved, user, created, crossed, faults>>
        BY DEF Credit
    <1>2. Moves(o, "find", settle[o].copy, settle[o].made) /\ settle[o].pc = "idle"
        BY <1>1, Went, NobodySettles DEF Credit, Positions
    <1>3. TypeInv'
        BY <1>1, <1>2 DEF TypeInv, Moves
    <1>4. \A x \in Orders : payment'[x] = IF x = o THEN "credited" ELSE payment[x]
        BY <1>1 DEF TypeInv
    <1>5. InTurn'
        BY <1>1, <1>2, <1>4 DEF InTurn, Moves, At, Saved
    <1>6. Exclusive'
        BY <1>1, <1>2 DEF Exclusive, Moves, At, Waiting
    <1>7. Held'
        BY <1>1, <1>2 DEF Held, Moves, At, Returns
    <1>8. Tried'
        <2>1. \A x \in Orders : settle[x].pc \in {"find", "claim"} => settle'[x].pc \in {"find", "claim"}
            BY <1>2 DEF Moves
        <2>2. \A x \in Orders : settle[x].pc \in {"read", "begin"} => settle'[x].pc \in {"read", "begin"}
            BY <1>2 DEF Moves
        <2>3. settle'[o].pc \in {"find", "claim"}
            BY <1>2 DEF Moves
        <2>4. PaymentsOf(record) \subseteq Orders
            BY DEF PaymentsOf, TypeInv, RecordType
        <2> QED BY <1>1, <1>4, <2>1, <2>2, <2>3, <2>4 DEF Tried, At, Waiting, PaymentsOf
    <1> QED BY <1>3, <1>5, <1>6, <1>7, <1>8

LEMMA RejectStep ==
    ASSUME Sizes, DirectPayInv, NEW o \in Orders, Reject(o)
    PROVE  DirectPayInv'
    <1> USE DEF DirectPayInv
    <1>1. /\ payment[o] = "open" /\ payment' = [payment EXCEPT ![o] = "rejected"]
          /\ UNCHANGED <<record, links, claim, saved, user, created, crossed, faults>>
        BY DEF Reject
    <1>2. Moves(o, "rejected", settle[o].copy, settle[o].made) /\ settle[o].pc = "idle"
        BY <1>1, Went, NobodySettles DEF Reject, Positions
    <1>3. TypeInv'
        BY <1>1, <1>2 DEF TypeInv, Moves
    <1>4. \A x \in Orders : payment'[x] = IF x = o THEN "rejected" ELSE payment[x]
        BY <1>1 DEF TypeInv
    <1>5. InTurn'
        BY <1>1, <1>2, <1>4 DEF InTurn, Moves, At, Saved
    <1>6. Exclusive'
        BY <1>1, <1>2 DEF Exclusive, Moves, At, Waiting
    <1>7. Held'
        BY <1>1, <1>2 DEF Held, Moves, At, Returns
    <1>8. Tried'
        <2>1. \A x \in Orders : settle[x].pc \in {"find", "claim"} => settle'[x].pc \in {"find", "claim"}
            BY <1>2 DEF Moves
        <2>2. \A x \in Orders : settle[x].pc \in {"read", "begin"} => settle'[x].pc \in {"read", "begin"}
            BY <1>2 DEF Moves
        <2>3. PaymentsOf(record) \subseteq Orders
            BY DEF PaymentsOf, TypeInv, RecordType
        <2> QED BY <1>1, <1>4, <2>1, <2>2, <2>3 DEF Tried, At, Waiting, PaymentsOf
    <1> QED BY <1>3, <1>5, <1>6, <1>7, <1>8

LEMMA RejectFindsStep ==
    ASSUME Sizes, DirectPayInv, NEW o \in Orders, RejectFinds(o)
    PROVE  DirectPayInv'
    <1> USE DEF DirectPayInv
    <1>1. /\ settle[o].pc = "rejected"
          /\ UNCHANGED <<record, links, claim, saved, user, payment, created, crossed, faults>>
        BY DEF RejectFinds
    <1>2. record \in RecordType /\ Saved(record) /\ settle[o] \in SettleType /\ settle[o].made \in BOOLEAN
        BY DEF TypeInv, SettleType, InTurn
    <1>3. PICK pc \in {"cancel", "idle"}, copy \in RecordType, made \in BOOLEAN :
            /\ Moves(o, pc, copy, made) /\ Saved(copy)
            /\ pc = "cancel" => copy = record
        <2>1. CASE Finds(o)
            <3>1. Moves(o, "cancel", record, settle[o].made)
                BY <1>2, <2>1, Copied DEF RejectFinds, Positions
            <3> QED BY <1>2, <3>1
        <2>2. CASE ~Finds(o)
            <3>1. Moves(o, "idle", NoRecord, FALSE)
                BY <2>2, Finished DEF RejectFinds
            <3> QED BY <3>1, NoRecordTyped, NoRecordSaved
        <2> QED BY <2>1, <2>2
    <1>4. TypeInv' /\ InTurn'
        <2>1. ~At(o, {"idle"}) /\ claim' \in BOOLEAN
            BY <1>1 DEF At, TypeInv
        <2>2. pc \in {"begin", "make", "marked"} => copy.id # 0
            BY <1>3
        <2> QED BY <1>1, <1>3, <2>1, <2>2, OnlyMoves
    <1>5. Exclusive'
        BY <1>1, <1>3 DEF Exclusive, Moves, At, Waiting
    <1>6. Held'
        BY <1>1, <1>3 DEF Held, Moves, At, Returns
    <1>7. Tried'
        <2>1. \A x \in Orders : settle[x].pc \in {"find", "claim"} => settle'[x].pc \in {"find", "claim"}
            BY <1>1, <1>3 DEF Moves
        <2>2. \A x \in Orders : settle[x].pc \in {"read", "begin"} => settle'[x].pc \in {"read", "begin"}
            BY <1>1, <1>3 DEF Moves
        <2>3. PaymentsOf(record) \subseteq Orders
            BY <1>2 DEF PaymentsOf, RecordType
        <2> QED BY <1>1, <2>1, <2>2, <2>3 DEF Tried, At, Waiting, PaymentsOf
    <1> QED BY <1>4, <1>5, <1>6, <1>7

\* What the cancellation of a purchase leaves in the record.
LEMMA Cancelled ==
    ASSUME TypeInv, NEW copy \in RecordType, CancelWrite(copy), Saved(copy), Saved(record)
    PROVE  /\ record' \in RecordType /\ record'.id <= saved
           /\ record'.status # None => record'.id # 0
           /\ record'.status = None => record' = NoRecord
           /\ record' = record \/ record'.status = "cancelled"
           /\ copy.status \in Active => record'.status = "cancelled"
    <1>1. CASE copy.status \in Active \cup {"fulfilling"}
        <2>1. record' = [copy EXCEPT !.status = "cancelled"] /\ "cancelled" \in Statuses
            BY <1>1 DEF CancelWrite, Statuses
        <2>2. record' \in RecordType /\ record'.id = copy.id /\ record'.status = "cancelled"
            BY <2>1, Restated
        <2>3. copy.id # 0 /\ copy.id <= saved
            BY <1>1 DEF Saved, Active, None
        <2> QED BY <2>2, <2>3 DEF None
    <1>2. CASE copy.status \notin Active \cup {"fulfilling"}
        <2>1. record' = record
            BY <1>2 DEF CancelWrite
        <2> QED BY <1>2, <2>1 DEF TypeInv, Saved
    <1> QED BY <1>1, <1>2

LEMMA RejectCancelsStep ==
    ASSUME Sizes, DirectPayInv, NEW o \in Orders, RejectCancels(o)
    PROVE  DirectPayInv'
    <1> USE DEF DirectPayInv
    <1>1. /\ settle[o].pc = "cancel" /\ CancelWrite(settle[o].copy)
          /\ UNCHANGED <<claim, saved, user, payment, created, crossed, faults>>
        BY DEF RejectCancels
    <1>2. Moves(o, "unclaim", settle[o].copy, settle[o].made)
        BY Went DEF RejectCancels, Positions
    <1>3. settle[o].copy \in RecordType /\ Saved(settle[o].copy) /\ Saved(record)
        BY DEF TypeInv, SettleType, InTurn
    <1>4. /\ record' \in RecordType /\ Saved(record')
          /\ record' = record \/ record'.status = "cancelled"
          /\ settle[o].copy.status \in Active => record'.status = "cancelled"
        BY <1>1, <1>3, Cancelled DEF Saved
    <1>5. TypeInv'
        BY <1>1, <1>2, <1>4 DEF TypeInv, Moves
    <1>6. InTurn'
        BY <1>1, <1>2, <1>4 DEF InTurn, Moves, At, Saved
    <1>7. ~crossed => ~Waiting'
        <2>1. ASSUME ~crossed, Waiting
              PROVE  settle[o].copy.status \in Active
            BY <1>1, <2>1 DEF Exclusive, At
        <2> QED BY <1>4, <2>1 DEF Waiting, Active
    <1>8. Exclusive'
        BY <1>1, <1>2, <1>7 DEF Exclusive, Moves, At
    <1>9. Held'
        <2>1. record'.status = "fulfilling" => record.status = "fulfilling"
            BY <1>4
        <2> QED BY <1>1, <1>2, <2>1 DEF Held, Moves, At, Returns
    <1>10. Tried'
        BY <1>1, <1>7 DEF Tried
    <1> QED BY <1>5, <1>6, <1>8, <1>9, <1>10

LEMMA PanelSettlesStep ==
    ASSUME Sizes, DirectPayInv, NEW o \in Orders, PanelSettles(o)
    PROVE  DirectPayInv'
    <1> USE DEF DirectPayInv
    <1>1. PICK outcome \in {"approved", "rejected"} :
            /\ payment[o] = "open" /\ payment' = [payment EXCEPT ![o] = outcome]
            /\ UNCHANGED <<record, links, claim, saved, user, settle, created, crossed, faults>>
        BY DEF PanelSettles
    <1>2. settle[o].pc = "idle"
        BY <1>1, NobodySettles
    <1>3. TypeInv'
        BY <1>1 DEF TypeInv
    <1>4. \A x \in Orders : payment'[x] = IF x = o THEN outcome ELSE payment[x]
        BY <1>1 DEF TypeInv
    <1>5. InTurn'
        BY <1>1, <1>2, <1>4 DEF InTurn, At, Saved
    <1>6. Exclusive'
        BY <1>1 DEF Exclusive, At, Waiting
    <1>7. Held'
        BY <1>1 DEF Held, At, Returns
    <1>8. Tried'
        <2>1. PaymentsOf(record) \subseteq Orders
            BY DEF PaymentsOf, TypeInv, RecordType
        <2> QED BY <1>1, <1>4, <2>1 DEF Tried, At, Waiting, PaymentsOf
    <1> QED BY <1>3, <1>5, <1>6, <1>7, <1>8

-----------------------------------------------------------------------------
(* The steps of the user, the end of a claim, a restart.                   *)

\* What the user does keeps the type of what the user holds.
LEMMA UserWent ==
    ASSUME TypeInv, NEW pc \in {"idle", "cancel", "unclaim", "save", "link", "write", "key"},
           NEW copy \in RecordType, user' = [user EXCEPT !.pc = pc, !.copy = copy]
    PROVE  user' \in UserType /\ user'.pc = pc /\ user'.copy = copy /\ user'.order = user.order
    BY DEF TypeInv, UserType

LEMMA UserMoved ==
    ASSUME TypeInv, NEW pc \in {"idle", "cancel", "unclaim", "save", "link", "write", "key"},
           user' = [user EXCEPT !.pc = pc]
    PROVE  user' \in UserType /\ user'.pc = pc /\ user'.copy = user.copy /\ user'.order = user.order
    BY DEF TypeInv, UserType

LEMMA UserRests ==
    ASSUME Sizes, TypeInv, user' = Idle
    PROVE  user' \in UserType /\ user'.pc = "idle" /\ user'.copy = NoRecord /\ Saved(user'.copy)
    BY NoRecordTyped, NoRecordSaved DEF Idle

LEMMA SaveStep ==
    ASSUME Sizes, DirectPayInv, Save
    PROVE  DirectPayInv'
    <1> USE DEF DirectPayInv
    <1>1. /\ user.pc = "idle" /\ saved < MAX_PURCHASES
          /\ UNCHANGED <<record, links, claim, saved, settle, payment, created, crossed, faults>>
        BY DEF Save
    <1>2. record \in RecordType /\ Saved(record)
        BY DEF TypeInv, InTurn
    <1>3. /\ user' \in UserType /\ user'.pc \in {"save", "cancel"} /\ user'.copy = record
        <2>1. CASE record = NoRecord
            <3>1. user' = [user EXCEPT !.pc = "save", !.copy = record]
                BY <2>1 DEF Save
            <3> QED BY <1>2, <3>1, UserWent
        <2>2. CASE record # NoRecord
            <3>1. user' = [user EXCEPT !.pc = "cancel", !.copy = record]
                BY <2>2 DEF Save
            <3> QED BY <1>2, <3>1, UserWent
        <2> QED BY <2>1, <2>2
    <1>4. TypeInv'
        BY <1>1, <1>3 DEF TypeInv
    <1>5. InTurn'
        BY <1>1, <1>2, <1>3 DEF InTurn, At, Saved
    <1>6. Exclusive'
        BY <1>1, <1>3 DEF Exclusive, At, Waiting
    <1>7. Held'
        BY <1>1 DEF Held, At, Returns
    <1>8. Tried'
        BY <1>1 DEF Tried, At, Waiting, PaymentsOf
    <1> QED BY <1>4, <1>5, <1>6, <1>7, <1>8

LEMMA SaveCancelsStep ==
    ASSUME Sizes, DirectPayInv, SaveCancels
    PROVE  DirectPayInv'
    <1> USE DEF DirectPayInv
    <1>1. /\ user.pc = "cancel" /\ CancelWrite(user.copy) /\ user' = [user EXCEPT !.pc = "unclaim"]
          /\ crossed' = (crossed \/ Settling)
          /\ UNCHANGED <<claim, saved, settle, payment, created, faults>>
        BY DEF SaveCancels, MarkCrossing
    <1>2. user.copy \in RecordType /\ Saved(user.copy) /\ Saved(record) /\ saved < MAX_PURCHASES
        BY <1>1 DEF TypeInv, UserType, InTurn
    <1>3. /\ record' \in RecordType /\ Saved(record')
          /\ record' = record \/ record'.status = "cancelled"
          /\ user.copy.status \in Active => record'.status = "cancelled"
        BY <1>1, <1>2, Cancelled DEF Saved
    <1>4. user' \in UserType /\ user'.pc = "unclaim" /\ user'.copy = user.copy
        BY <1>1, UserMoved
    <1>5. TypeInv'
        BY <1>1, <1>3, <1>4 DEF TypeInv, Settling
    <1>6. InTurn'
        BY <1>1, <1>2, <1>3, <1>4 DEF InTurn, At, Saved
    <1>7. ~crossed' => ~crossed /\ \A o \in Orders : settle[o].pc = "idle"
        BY <1>1 DEF Settling
    <1>8. ~crossed' => ~Waiting'
        <2>1. ASSUME ~crossed', Waiting
              PROVE  user.copy.status \in Active
            BY <1>1, <1>7, <2>1 DEF Exclusive
        <2> QED BY <1>3, <2>1 DEF Waiting, Active
    <1>9. Exclusive'
        BY <1>1, <1>7, <1>8 DEF Exclusive, At
    <1>10. Held'
        <2>1. record'.status = "fulfilling" => record.status = "fulfilling"
            BY <1>3
        <2>2. record' = NoRecord => record = NoRecord
            BY <1>3 DEF NoRecord, None
        <2> QED BY <1>1, <2>1, <2>2 DEF Held, At, Returns
    <1>11. Tried'
        BY <1>8 DEF Tried
    <1> QED BY <1>5, <1>6, <1>9, <1>10, <1>11

LEMMA SaveUnclaimsStep ==
    ASSUME Sizes, DirectPayInv, SaveUnclaims
    PROVE  DirectPayInv'
    <1> USE DEF DirectPayInv
    <1>1. /\ user.pc = "unclaim" /\ claim' = FALSE /\ user' = [user EXCEPT !.pc = "save"]
          /\ crossed' = (crossed \/ Settling)
          /\ UNCHANGED <<record, links, saved, settle, payment, created, faults>>
        BY DEF SaveUnclaims, MarkCrossing
    <1>2. user' \in UserType /\ user'.pc = "save" /\ user'.copy = user.copy
        BY <1>1, UserMoved
    <1>3. TypeInv'
        BY <1>1, <1>2 DEF TypeInv, Settling
    <1>4. InTurn'
        BY <1>1, <1>2 DEF InTurn, At, Saved
    <1>5. ~crossed' => ~crossed /\ \A o \in Orders : settle[o].pc = "idle"
        BY <1>1 DEF Settling
    <1>6. Exclusive'
        BY <1>1, <1>2, <1>5 DEF Exclusive, At, Waiting
    <1>7. Held'
        BY <1>1 DEF Held, At
    <1>8. Tried'
        BY <1>1, <1>5 DEF Tried, At, Waiting, PaymentsOf
    <1> QED BY <1>3, <1>4, <1>6, <1>7, <1>8

LEMMA SaveWritesStep ==
    ASSUME Sizes, DirectPayInv, SaveWrites
    PROVE  DirectPayInv'
    <1> USE DEF DirectPayInv
    <1>1. /\ user.pc = "save" /\ saved' = saved + 1 /\ user' = Idle
          /\ record' = [NoRecord EXCEPT !.id = saved + 1, !.status = "pending"]
          /\ crossed' = (crossed \/ Settling)
          /\ UNCHANGED <<links, claim, settle, payment, created, faults>>
        BY DEF SaveWrites, MarkCrossing
    <1>2. saved \in Nat /\ saved' \in 1..MAX_PURCHASES /\ saved' = saved + 1
        BY <1>1 DEF Sizes, TypeInv, InTurn
    <1>3. /\ record' \in RecordType /\ record'.id = saved' /\ record'.status = "pending"
          /\ record'.card = None /\ record'.coin = None
        <2>1. saved' \in 0..MAX_PURCHASES /\ record' = [NoRecord EXCEPT !.id = saved', !.status = "pending"]
            BY <1>1, <1>2
        <2> QED BY <2>1, NewRecord
    <1>4. user' \in UserType /\ user'.pc = "idle" /\ user'.copy = NoRecord
        BY <1>1, UserRests
    <1>5. TypeInv'
        BY <1>1, <1>2, <1>3, <1>4 DEF TypeInv, Settling
    <1>6. InTurn'
        <2>1. record'.id <= saved' /\ record'.id # 0 /\ record'.status # None
            BY <1>2, <1>3 DEF None
        <2>2. NoRecord.id <= saved' /\ NoRecord.status = None
            BY <1>2 DEF NoRecord
        <2>3. \A o \in Orders : settle[o].copy.id <= saved'
            <3>1. \A o \in Orders : settle[o].copy.id \in Nat /\ settle[o].copy.id <= saved
                BY DEF Sizes, TypeInv, SettleType, RecordType, InTurn, Saved
            <3> QED BY <1>2, <3>1
        <2>4. \A p \in 1..MAX_PURCHASES : p > saved' => created'[p] = 0
            BY <1>1, <1>2 DEF InTurn
        <2> QED BY <1>1, <1>4, <2>1, <2>2, <2>3, <2>4 DEF InTurn, At, Saved
    <1>7. ~crossed' => ~crossed /\ \A o \in Orders : settle[o].pc = "idle"
        BY <1>1 DEF Settling
    <1>8. Exclusive'
        <2>1. created'[record'.id] = 0
            BY <1>1, <1>2, <1>3 DEF InTurn
        <2> QED BY <1>1, <1>4, <1>7, <2>1 DEF Exclusive, At
    <1>9. Held'
        <2>1. record' # NoRecord /\ record'.status # "fulfilling"
            BY <1>3 DEF NoRecord, None
        <2> QED BY <1>1, <2>1 DEF Held, At, Returns
    <1>10. Tried'
        <2>1. PaymentsOf(record') = {}
            BY <1>3 DEF PaymentsOf
        <2> QED BY <2>1 DEF Tried, PaymentsOf
    <1> QED BY <1>5, <1>6, <1>8, <1>9, <1>10

LEMMA OpenStep ==
    ASSUME Sizes, DirectPayInv, NEW o \in Orders, Open(o)
    PROVE  DirectPayInv'
    <1> USE DEF DirectPayInv
    <1>1. /\ user.pc = "idle" /\ payment[o] = "none" /\ payment' = [payment EXCEPT ![o] = "open"]
          /\ user' = [pc |-> "link", copy |-> NoRecord, order |-> o]
          /\ UNCHANGED <<record, links, claim, saved, settle, created, crossed, faults>>
        BY DEF Open
    <1>2. user' \in UserType /\ user'.pc = "link" /\ user'.copy = NoRecord /\ user'.order = o
        BY <1>1, NoRecordTyped DEF UserType
    <1>3. settle[o].pc = "idle"
        BY <1>1, NobodySettles
    <1>4. \A x \in Orders : payment'[x] = IF x = o THEN "open" ELSE payment[x]
        BY <1>1 DEF TypeInv
    <1>5. TypeInv'
        BY <1>1, <1>2 DEF TypeInv
    <1>6. InTurn'
        BY <1>1, <1>2, <1>3, <1>4, NoRecordSaved DEF InTurn, At, Saved
    <1>7. Exclusive'
        BY <1>1, <1>2 DEF Exclusive, At, Waiting
    <1>8. Held'
        BY <1>1 DEF Held, At, Returns
    <1>9. Tried'
        <2>1. PaymentsOf(record) \subseteq Orders
            BY DEF PaymentsOf, TypeInv, RecordType
        <2> QED BY <1>1, <1>4, <2>1 DEF Tried, At, Waiting, PaymentsOf
    <1> QED BY <1>5, <1>6, <1>7, <1>8, <1>9

LEMMA LinkStep ==
    ASSUME Sizes, DirectPayInv, Link
    PROVE  DirectPayInv'
    <1> USE DEF DirectPayInv
    <1>1. /\ user.pc = "link"
          /\ crossed' = (crossed \/ Settling \/ payment[user.order] # "open")
          /\ UNCHANGED <<record, links, claim, saved, settle, payment, created, faults>>
        BY DEF Link
    <1>2. record \in RecordType /\ Saved(record) /\ user.order \in Orders
        BY <1>1 DEF TypeInv, InTurn
    <1>3. /\ user' \in UserType /\ Saved(user'.copy) /\ user'.pc \in {"write", "idle"}
          /\ user'.pc = "write" => user'.order \in Orders /\ user'.copy.status \in Active
        <2>1. CASE Waiting
            <3>1. user' = [user EXCEPT !.pc = "write", !.copy = record]
                BY <2>1 DEF Link, Waiting
            <3>2. user' \in UserType /\ user'.pc = "write" /\ user'.copy = record
                  /\ user'.order = user.order
                BY <1>2, <3>1, UserWent
            <3> QED BY <1>2, <2>1, <3>2 DEF Waiting
        <2>2. CASE ~Waiting
            <3>1. user' = Idle
                BY <2>2 DEF Link, Waiting
            <3>2. user' \in UserType /\ user'.pc = "idle" /\ Saved(user'.copy)
                BY <3>1, UserRests
            <3> QED BY <3>2
        <2> QED BY <2>1, <2>2
    <1>4. TypeInv'
        BY <1>1, <1>3 DEF TypeInv, Settling
    <1>5. InTurn'
        BY <1>1, <1>3 DEF InTurn, At, Saved
    <1>6. ~crossed' => ~crossed
        BY <1>1
    <1>7. Exclusive'
        BY <1>1, <1>3, <1>6 DEF Exclusive, At, Waiting
    <1>8. Held'
        BY <1>1 DEF Held, At, Returns
    <1>9. Tried'
        BY <1>1, <1>6 DEF Tried, At, Waiting, PaymentsOf
    <1> QED BY <1>4, <1>5, <1>7, <1>8, <1>9

LEMMA LinkWritesStep ==
    ASSUME Sizes, DirectPayInv, LinkWrites
    PROVE  DirectPayInv'
    <1> USE DEF DirectPayInv
    <1>1. /\ user.pc = "write" /\ record' = LinkedTo(user.copy, user.order)
          /\ user' = [user EXCEPT !.pc = "key"]
          /\ crossed' = (crossed \/ Settling \/ record # user.copy \/ payment[user.order] # "open")
          /\ UNCHANGED <<links, claim, saved, settle, payment, created, faults>>
        BY DEF LinkWrites
    <1>2. user.copy \in RecordType /\ Saved(user.copy) /\ user.order \in Orders
          /\ user.copy.status \in Active
        BY <1>1 DEF TypeInv, UserType, InTurn
    <1>3. /\ record' \in RecordType /\ record'.id = user.copy.id /\ record'.status = "linked"
          /\ PaymentsOf(record') \subseteq PaymentsOf(user.copy) \cup {user.order}
        BY <1>1, <1>2, Linked DEF PaymentsOf
    <1>4. user' \in UserType /\ user'.pc = "key" /\ user'.copy = user.copy /\ user'.order = user.order
        BY <1>1, UserMoved
    <1>5. TypeInv'
        BY <1>1, <1>3, <1>4 DEF TypeInv, Settling
    <1>6. Saved(record') /\ record' # NoRecord
        BY <1>2, <1>3 DEF Saved, Active, None, NoRecord
    <1>7. InTurn'
        BY <1>1, <1>2, <1>4, <1>6 DEF InTurn, At, Saved
    <1>8. ~crossed' => /\ ~crossed /\ record = user.copy /\ payment[user.order] = "open"
                       /\ \A o \in Orders : settle[o].pc = "idle"
        BY <1>1 DEF Settling
    <1>9. Exclusive'
        <2>1. ~crossed' => created'[record'.id] = 0
            BY <1>1, <1>2, <1>3, <1>8 DEF Exclusive, Waiting
        <2> QED BY <1>1, <1>4, <1>8, <2>1 DEF Exclusive, At
    <1>10. Held'
        <2>1. record'.status # "fulfilling"
            BY <1>3
        <2> QED BY <1>1, <1>6, <2>1 DEF Held, At, Returns
    <1>11. Tried'
        <2>1. SUFFICES ASSUME ~crossed', faults = 0, NEW x \in PaymentsOf(record'), x # user.order
                       PROVE  /\ x \in links
                              /\ payment[x] = "credited" =>
                                     \/ settle[x].pc \in {"find", "claim"}
                                     \/ \E y \in Orders : settle[y].pc \in {"read", "begin"}
            BY <1>1, <1>4 DEF Tried, At, PaymentsOf
        <2>2. Waiting /\ x \in PaymentsOf(record) /\ user.pc # "key" /\ ~crossed
            BY <1>1, <1>2, <1>3, <1>8, <2>1 DEF Waiting
        <2> QED BY <2>1, <2>2 DEF Tried, At
    <1> QED BY <1>5, <1>7, <1>9, <1>10, <1>11

LEMMA LinkKeyStep ==
    ASSUME Sizes, DirectPayInv, LinkKey
    PROVE  DirectPayInv'
    <1> USE DEF DirectPayInv
    <1>1. /\ user.pc = "key" /\ links' = links \cup {user.order} /\ user' = Idle
          /\ crossed' = (crossed \/ payment[user.order] # "open")
          /\ UNCHANGED <<record, claim, saved, settle, payment, created, faults>>
        BY DEF LinkKey
    <1>2. user' \in UserType /\ user'.pc = "idle" /\ user'.copy = NoRecord /\ Saved(user'.copy)
        BY <1>1, UserRests
    <1>3. TypeInv'
        BY <1>1, <1>2 DEF TypeInv
    <1>4. InTurn'
        BY <1>1, <1>2 DEF InTurn, At, Saved
    <1>5. ~crossed' => ~crossed /\ payment[user.order] = "open"
        BY <1>1
    <1>6. Exclusive'
        BY <1>1, <1>2, <1>5 DEF Exclusive, At, Waiting
    <1>7. Held'
        BY <1>1 DEF Held, At, Returns
    <1>8. Tried'
        BY <1>1, <1>5 DEF Tried, At, Waiting, PaymentsOf
    <1> QED BY <1>3, <1>4, <1>6, <1>7, <1>8

LEMMA ClaimLapsesStep ==
    ASSUME Sizes, DirectPayInv, ClaimLapses
    PROVE  DirectPayInv'
    <1> USE DEF DirectPayInv
    <1>1. /\ claim' = FALSE /\ \A o \in Orders : settle[o].pc \notin {"read", "begin"}
          /\ UNCHANGED <<record, links, saved, user, settle, payment, created, crossed, faults>>
        BY DEF ClaimLapses
    <1>2. TypeInv'
        BY <1>1 DEF TypeInv
    <1>3. InTurn'
        BY <1>1 DEF InTurn, At, Saved
    <1>4. Exclusive'
        BY <1>1 DEF Exclusive, At, Waiting
    <1>5. Held'
        BY <1>1 DEF Held, At
    <1>6. Tried'
        BY <1>1 DEF Tried, At, Waiting, PaymentsOf
    <1> QED BY <1>2, <1>3, <1>4, <1>5, <1>6

LEMMA RestartStep ==
    ASSUME Sizes, DirectPayInv, Restart
    PROVE  DirectPayInv'
    <1> USE DEF DirectPayInv
    <1>1. /\ user' = Idle /\ settle' = [o \in Orders |-> Done] /\ faults' = faults + 1
          /\ UNCHANGED <<record, links, claim, saved, payment, created, crossed>>
        BY DEF Restart
    <1>2. user' \in UserType /\ user'.pc = "idle" /\ user'.copy = NoRecord /\ Saved(user'.copy)
        BY <1>1, UserRests
    <1>3. \A o \in Orders : settle'[o].pc = "idle" /\ settle'[o].copy = NoRecord
        BY <1>1 DEF Done
    <1>4. settle' \in [Orders -> SettleType]
        BY <1>1, NoRecordTyped
    <1>5. faults' \in Nat /\ faults' # 0
        BY <1>1 DEF TypeInv
    <1>6. TypeInv'
        BY <1>1, <1>2, <1>4, <1>5 DEF TypeInv
    <1>7. InTurn'
        BY <1>1, <1>2, <1>3 DEF InTurn, At, Saved
    <1>8. Exclusive'
        BY <1>1, <1>2, <1>3 DEF Exclusive, At, Waiting
    <1>9. Held' /\ Tried'
        BY <1>5 DEF Held, Tried
    <1> QED BY <1>6, <1>7, <1>8, <1>9

-----------------------------------------------------------------------------
(* The purchase waits, is made at most once, and is left open to the next  *)
(* payment.                                                                *)

LEMMA Started ==
    ASSUME Sizes, Init
    PROVE  DirectPayInv
    <1>1. TypeInv
        <2>1. settle \in [Orders -> SettleType]
            BY NoRecordTyped DEF Init
        <2>2. payment \in [Orders -> {"none", "open", "credited", "rejected", "approved"}]
            BY DEF Init
        <2>3. created \in [1..MAX_PURCHASES -> Nat]
            BY DEF Init
        <2>4. record \in RecordType /\ user \in UserType
            BY NoRecordTyped DEF Init
        <2>5. /\ claim = FALSE /\ crossed = FALSE /\ saved = 0 /\ faults = 0
              /\ 0 \in 0..MAX_PURCHASES
            BY DEF Init, Sizes
        <2> QED BY <2>1, <2>2, <2>3, <2>4, <2>5 DEF TypeInv
    <1>2. NoRecord.status = None /\ NoRecord.id = 0 /\ Active = {"pending", "linked"}
        BY DEF NoRecord, Active
    <1>3. /\ user.pc = "idle" /\ user.copy = NoRecord
          /\ \A o \in Orders : settle[o].pc = "idle" /\ settle[o].copy = NoRecord
        BY DEF Init, Idle, Done
    <1>4. InTurn
        BY <1>1, <1>3, NoRecordSaved DEF Init, InTurn, At
    <1>5. Exclusive
        BY <1>2, <1>3 DEF Init, Exclusive, At, Waiting, None
    <1>6. Held /\ Tried
        BY <1>2 DEF Init, Held, Tried, Waiting, None
    <1> QED BY <1>1, <1>4, <1>5, <1>6 DEF DirectPayInv

LEMMA Kept ==
    ASSUME Sizes, DirectPayInv, [Next]_vars
    PROVE  DirectPayInv'
    <1>1. CASE UNCHANGED vars
        BY <1>1 DEF vars, DirectPayInv, TypeInv, InTurn, Exclusive, Held, Tried, At, Waiting, Saved,
                    Returns, PaymentsOf
    <1>2. CASE UserStep
        BY <1>2, SaveStep, SaveCancelsStep, SaveUnclaimsStep, SaveWritesStep, OpenStep, LinkStep,
           LinkWritesStep, LinkKeyStep DEF UserStep
    <1>3. ASSUME NEW o \in Orders, Credit(o) \/ Reject(o) \/ PanelSettles(o)
          PROVE  DirectPayInv'
        BY <1>3, CreditStep, RejectStep, PanelSettlesStep
    <1>4. ASSUME NEW o \in Orders, SettleStep(o)
          PROVE  DirectPayInv'
        BY <1>4, FindStep, ClaimStep, ClaimReadsStep, ClaimWritesStep, MakeStep, MarkReadsStep,
           MarkWritesStep, ClearStep, UnclaimStep, RejectFindsStep, RejectCancelsStep DEF SettleStep
    <1>5. CASE ClaimLapses \/ Restart
        BY <1>5, ClaimLapsesStep, RestartStep
    <1> QED BY <1>1, <1>2, <1>3, <1>4, <1>5 DEF Next

LEMMA RestFollows ==
    ASSUME Sizes, DirectPayInv
    PROVE  AtMostOnce /\ RestIsOpen /\ PaidIsMade
    <1> USE DEF DirectPayInv
    <1>1. AtMostOnce
        BY DEF Exclusive, AtMostOnce
    <1>2. RestIsOpen
        BY DEF Held, RestIsOpen, Rest, At, Returns
    <1>3. PaidIsMade
        <2>1. SUFFICES ASSUME Rest, ~crossed, faults = 0, record.status = "linked",
                              NEW o \in PaymentsOf(record), payment[o] = "credited"
                       PROVE  FALSE
            BY DEF PaidIsMade
        <2>2. Waiting /\ o \in Orders
            BY <2>1 DEF Waiting, Active, PaymentsOf, TypeInv, RecordType
        <2> QED BY <2>1, <2>2 DEF Tried, At, Rest
    <1> QED BY <1>1, <1>2, <1>3

\* Two payments of one purchase make it once as long as nobody writes the record while
\* one of them is settled, whatever claims lapse and however often the process dies;
\* and when all is at rest after a run without a restart, the claim is given back, no
\* purchase hangs half-way, and none that waits has a payment the bot credited.
THEOREM PurchaseMadeOnceAlways ==
    ASSUME Sizes
    PROVE  Spec => [](AtMostOnce /\ RestIsOpen /\ PaidIsMade)
    <1>1. Init => DirectPayInv
        BY Started
    <1>2. DirectPayInv /\ [Next]_vars => DirectPayInv'
        BY Kept
    <1>3. DirectPayInv => AtMostOnce /\ RestIsOpen /\ PaidIsMade
        BY RestFollows
    <1> QED BY <1>1, <1>2, <1>3, PTL DEF Spec
=============================================================================
