--------------------------- MODULE Services_proofs ---------------------------
(***************************************************************************)
(* Proofs about services: Purchases first, for any number of orders, any   *)
(* limit of the code and any wallet, then, as the instances Move, Increase *)
(* and Expiry, AdminTransfer, BulkIncrease and Expiration.  The steps of   *)
(* an order lie on one of two roads: it goes on along Steps, or back along *)
(* what Undo gave it, and how much of the road is left tells what it has   *)
(* done.                                                                   *)
(***************************************************************************)
EXTENDS Purchases, FiniteSetTheorems, TLAPS

FlowNames == {"webapp", "shop", "reseller", "renew", "direct", "chat", "upgrade"}
StepNames == {"check", "claim", "read", "debit", "make", "show", "row",
              "refund", "release", "remove"}

\* The flows are those of the code, the limit and the wallet no debts.
Sizes == Flows \subseteq FlowNames /\ LIMIT \in Nat /\ WALLET \in Nat

-----------------------------------------------------------------------------
(* The way on: how many steps are left when a step is due.                 *)

Length(f) ==
    CASE f \in {"reseller", "upgrade"} -> 4
      [] f \in {"webapp", "shop", "direct", "chat"} -> 5
      [] f = "renew" -> 6
ClaimLeft(f) ==
    CASE f = "webapp" -> 3
      [] f \in {"reseller", "renew"} -> 4
      [] f \in {"shop", "direct", "chat", "upgrade"} -> 5
DebitLeft(f) ==
    CASE f = "webapp" -> 2
      [] f \in {"reseller", "renew", "direct"} -> 3
      [] f \in {"shop", "chat", "upgrade"} -> 4
MakeLeft(f) ==
    CASE f = "webapp" -> 4
      [] f = "shop" -> 3
      [] f \in {"reseller", "renew", "direct", "chat", "upgrade"} -> 2

\* The step of f when left steps are left.
Due(f, left) == Steps(f)[Length(f) - left + 1]

\* The way back.
Refunds == {<<"refund", "release">>, <<"refund", "release", "remove">>,
            <<"remove", "refund", "release">>}
Removes == {<<"remove">>, <<"release", "remove">>, <<"refund", "release", "remove">>,
            <<"remove", "refund", "release">>}
Releases == Refunds \cup {<<"release">>, <<"release", "remove">>}
WaysBack == Releases \cup Removes \cup {<<>>}

\* The steps have their places, what is undone when one of them fails is what was
\* done before it, and only a panel user of the order's own is removed.
Undone(f, left) ==
    LET undo == Undo(f, Due(f, left))
    IN  /\ undo \in Refunds <=> left < DebitLeft(f)
        /\ undo \in Removes <=> left < MakeLeft(f)
        /\ undo \in Releases <=> left < ClaimLeft(f)

WayOn(f, left) ==
    /\ Due(f, left) \in StepNames \ {"refund", "release", "remove"}
    /\ Due(f, left) = "claim" <=> left = ClaimLeft(f)
    /\ Due(f, left) = "debit" <=> left = DebitLeft(f)
    /\ Due(f, left) = "make" <=> left = MakeLeft(f)
    /\ Due(f, left) = "row" <=> left = 1
    /\ LET undo == Undo(f, Due(f, left))
       IN  /\ undo \in WaysBack
           /\ undo \in Releases => left < ClaimLeft(f)
           /\ undo \in Removes => ~Reads(f)
    /\ \/ Due(f, left) = "claim" /\ f = "direct"
       \/ Due(f, left) = "show"
       \/ Due(f, left) = "row" /\ Undo(f, "row") = <<>>
       \/ Undone(f, left)

LEMMA WaysOn ==
    ASSUME NEW f \in FlowNames, NEW left \in 1..Length(f)
    PROVE  WayOn(f, left) /\ Len(Steps(f)) = Length(f)
    <1> USE DEF WayOn, Undone, Due, Steps, StepNames, Undo, WaysBack, Releases, Removes, Refunds, Reads
    <1>1. CASE f = "webapp"
        <2>0. Length(f) = 5 /\ ClaimLeft(f) = 3 /\ DebitLeft(f) = 2 /\ MakeLeft(f) = 4
            BY <1>1 DEF Length, ClaimLeft, DebitLeft, MakeLeft
        <2>1. CASE left = 1
            BY <1>1, <2>0, <2>1
        <2>2. CASE left = 2
            BY <1>1, <2>0, <2>2
        <2>3. CASE left = 3
            BY <1>1, <2>0, <2>3
        <2>4. CASE left = 4
            BY <1>1, <2>0, <2>4
        <2>5. CASE left = 5
            BY <1>1, <2>0, <2>5
        <2> HIDE DEF WayOn, Steps
        <2> QED BY <2>0, <2>1, <2>2, <2>3, <2>4, <2>5
    <1>2. CASE f = "shop"
        <2>0. Length(f) = 5 /\ ClaimLeft(f) = 5 /\ DebitLeft(f) = 4 /\ MakeLeft(f) = 3
            BY <1>2 DEF Length, ClaimLeft, DebitLeft, MakeLeft
        <2>1. CASE left = 1
            BY <1>2, <2>0, <2>1
        <2>2. CASE left = 2
            BY <1>2, <2>0, <2>2
        <2>3. CASE left = 3
            BY <1>2, <2>0, <2>3
        <2>4. CASE left = 4
            BY <1>2, <2>0, <2>4
        <2>5. CASE left = 5
            BY <1>2, <2>0, <2>5
        <2> HIDE DEF WayOn, Steps
        <2> QED BY <2>0, <2>1, <2>2, <2>3, <2>4, <2>5
    <1>3. CASE f = "reseller"
        <2>0. Length(f) = 4 /\ ClaimLeft(f) = 4 /\ DebitLeft(f) = 3 /\ MakeLeft(f) = 2
            BY <1>3 DEF Length, ClaimLeft, DebitLeft, MakeLeft
        <2>1. CASE left = 1
            BY <1>3, <2>0, <2>1
        <2>2. CASE left = 2
            BY <1>3, <2>0, <2>2
        <2>3. CASE left = 3
            BY <1>3, <2>0, <2>3
        <2>4. CASE left = 4
            BY <1>3, <2>0, <2>4
        <2> HIDE DEF WayOn, Steps
        <2> QED BY <2>0, <2>1, <2>2, <2>3, <2>4
    <1>4. CASE f = "renew"
        <2>0. Length(f) = 6 /\ ClaimLeft(f) = 4 /\ DebitLeft(f) = 3 /\ MakeLeft(f) = 2
            BY <1>4 DEF Length, ClaimLeft, DebitLeft, MakeLeft
        <2>1. CASE left = 1
            BY <1>4, <2>0, <2>1
        <2>2. CASE left = 2
            BY <1>4, <2>0, <2>2
        <2>3. CASE left = 3
            BY <1>4, <2>0, <2>3
        <2>4. CASE left = 4
            BY <1>4, <2>0, <2>4
        <2>5. CASE left = 5
            BY <1>4, <2>0, <2>5
        <2>6. CASE left = 6
            BY <1>4, <2>0, <2>6
        <2> HIDE DEF WayOn, Steps
        <2> QED BY <2>0, <2>1, <2>2, <2>3, <2>4, <2>5, <2>6
    <1>5. CASE f = "direct"
        <2>0. Length(f) = 5 /\ ClaimLeft(f) = 5 /\ DebitLeft(f) = 3 /\ MakeLeft(f) = 2
            BY <1>5 DEF Length, ClaimLeft, DebitLeft, MakeLeft
        <2>1. CASE left = 1
            BY <1>5, <2>0, <2>1
        <2>2. CASE left = 2
            BY <1>5, <2>0, <2>2
        <2>3. CASE left = 3
            BY <1>5, <2>0, <2>3
        <2>4. CASE left = 4
            BY <1>5, <2>0, <2>4
        <2>5. CASE left = 5
            BY <1>5, <2>0, <2>5
        <2> HIDE DEF WayOn, Steps
        <2> QED BY <2>0, <2>1, <2>2, <2>3, <2>4, <2>5
    <1>6. CASE f = "chat"
        <2>0. Length(f) = 5 /\ ClaimLeft(f) = 5 /\ DebitLeft(f) = 4 /\ MakeLeft(f) = 2
            BY <1>6 DEF Length, ClaimLeft, DebitLeft, MakeLeft
        <2>1. CASE left = 1
            BY <1>6, <2>0, <2>1
        <2>2. CASE left = 2
            BY <1>6, <2>0, <2>2
        <2>3. CASE left = 3
            BY <1>6, <2>0, <2>3
        <2>4. CASE left = 4
            BY <1>6, <2>0, <2>4
        <2>5. CASE left = 5
            BY <1>6, <2>0, <2>5
        <2> HIDE DEF WayOn, Steps
        <2> QED BY <2>0, <2>1, <2>2, <2>3, <2>4, <2>5
    <1>7. CASE f = "upgrade"
        <2>0. Length(f) = 4 /\ ClaimLeft(f) = 5 /\ DebitLeft(f) = 4 /\ MakeLeft(f) = 2
            BY <1>7 DEF Length, ClaimLeft, DebitLeft, MakeLeft
        <2>1. CASE left = 1
            BY <1>7, <2>0, <2>1
        <2>2. CASE left = 2
            BY <1>7, <2>0, <2>2
        <2>3. CASE left = 3
            BY <1>7, <2>0, <2>3
        <2>4. CASE left = 4
            BY <1>7, <2>0, <2>4
        <2> HIDE DEF WayOn, Steps
        <2> QED BY <2>0, <2>1, <2>2, <2>3, <2>4
    <1> QED BY <1>1, <1>2, <1>3, <1>4, <1>5, <1>6, <1>7 DEF FlowNames

LEMMA WaysBackOn ==
    ASSUME NEW way \in WaysBack, way # <<>>
    PROVE  /\ way \in Seq(StepNames)
           /\ Head(way) \in {"refund", "release", "remove"} /\ Tail(way) \in WaysBack
           /\ Tail(way) \in Refunds <=> way \in Refunds /\ Head(way) # "refund"
           /\ Tail(way) \in Releases <=> way \in Releases /\ Head(way) # "release"
           /\ Tail(way) \in Removes <=> way \in Removes /\ Head(way) # "remove"
           /\ Head(way) = "refund" => way \in Refunds
           /\ Head(way) = "release" => way \in Releases
           /\ Head(way) = "remove" => way \in Removes
    <1> USE DEF WaysBack, Releases, Removes, Refunds, StepNames
    <1>1. CASE way = <<"refund", "release">>
        BY <1>1
    <1>2. CASE way = <<"refund", "release", "remove">>
        BY <1>2
    <1>3. CASE way = <<"remove", "refund", "release">>
        BY <1>3
    <1>4. CASE way = <<"release">>
        BY <1>4
    <1>5. CASE way = <<"release", "remove">>
        BY <1>5
    <1>6. CASE way = <<"remove">>
        BY <1>6
    <1>7. \/ way = <<"refund", "release">> \/ way = <<"refund", "release", "remove">>
          \/ way = <<"remove", "refund", "release">> \/ way = <<"release">>
          \/ way = <<"release", "remove">> \/ way = <<"remove">>
        OBVIOUS
    <1> HIDE DEF WaysBack, Releases, Removes, Refunds, StepNames
    <1> QED BY <1>1, <1>2, <1>3, <1>4, <1>5, <1>6, <1>7

-----------------------------------------------------------------------------
(* Types, and what a step leaves of an order.                              *)

FieldNames == {"flow", "code", "todo", "seen", "use", "paid", "made", "row"}
OrderType == [flow : FlowNames \cup {"none"}, code : BOOLEAN, todo : Seq(StepNames), seen : Nat,
              use : BOOLEAN, paid : BOOLEAN, made : BOOLEAN, row : BOOLEAN]

LEMMA Ahead ==
    ASSUME NEW todo \in Seq(StepNames), todo # <<>>
    PROVE  /\ Head(todo) \in StepNames /\ Head(todo) = todo[1] /\ Tail(todo) \in Seq(StepNames)
           /\ Len(todo) \in Nat \ {0} /\ Len(Tail(todo)) = Len(todo) - 1
           /\ \A i \in 1..(Len(todo) - 1) : Tail(todo)[i] = todo[i + 1]
    OBVIOUS

\* The order with its first step done.
Next1(r, code, seen, use, paid, made, row) ==
    [flow |-> r.flow, code |-> code, todo |-> Tail(r.todo), seen |-> seen,
     use |-> use, paid |-> paid, made |-> made, row |-> row]

LEMMA Next1Fields ==
    ASSUME NEW r, NEW code, NEW seen, NEW use, NEW paid, NEW made, NEW row
    PROVE  LET n == Next1(r, code, seen, use, paid, made, row)
           IN  /\ n = [f \in FieldNames |-> n[f]]
               /\ n["flow"] = r.flow /\ n["code"] = code /\ n["todo"] = Tail(r.todo)
               /\ n["seen"] = seen /\ n["use"] = use /\ n["paid"] = paid /\ n["made"] = made
               /\ n["row"] = row
    BY DEF Next1, FieldNames

LEMMA Changes ==
    ASSUME NEW o \in Orders, orders[o] \in OrderType, NEW v
    PROVE  LET r == orders[o]
           IN  /\ Done(o, <<>>) = Next1(r, r.code, r.seen, r.use, r.paid, r.made, r.row)
               /\ Done(o, [code |-> v]) = Next1(r, v, r.seen, r.use, r.paid, r.made, r.row)
               /\ Done(o, [seen |-> v]) = Next1(r, r.code, v, r.use, r.paid, r.made, r.row)
               /\ Done(o, [use |-> v]) = Next1(r, r.code, r.seen, v, r.paid, r.made, r.row)
               /\ Done(o, [paid |-> v]) = Next1(r, r.code, r.seen, r.use, v, r.made, r.row)
               /\ Done(o, [made |-> v]) = Next1(r, r.code, r.seen, r.use, r.paid, v, r.row)
               /\ Done(o, [row |-> v]) = Next1(r, r.code, r.seen, r.use, r.paid, r.made, v)
    <1> DEFINE r == orders[o]
    <1>0. DOMAIN orders[o] = FieldNames
        BY DEF OrderType, FieldNames
    <1>1. Done(o, <<>>) = Next1(r, r.code, r.seen, r.use, r.paid, r.made, r.row)
        <2>1. DOMAIN <<>> = {}
            OBVIOUS
        <2> DEFINE n == Next1(r, r.code, r.seen, r.use, r.paid, r.made, r.row)
        <2>2. \A f \in FieldNames : n[f] = IF f \in DOMAIN <<>> THEN <<>>[f]
                                          ELSE IF f = "todo" THEN Tail(r.todo) ELSE r[f]
            BY <2>1, Next1Fields DEF FieldNames
        <2>3. n = [f \in FieldNames |-> n[f]]
            BY Next1Fields
        <2> HIDE DEF n
        <2>4. Done(o, <<>>) = n
            BY <1>0, <2>2, <2>3 DEF Done
        <2> QED BY <2>4 DEF n
    <1>2. Done(o, [code |-> v]) = Next1(r, v, r.seen, r.use, r.paid, r.made, r.row)
        <2>1. DOMAIN [code |-> v] = {"code"} /\ [code |-> v]["code"] = v
            OBVIOUS
        <2> DEFINE n == Next1(r, v, r.seen, r.use, r.paid, r.made, r.row)
        <2>2. \A f \in FieldNames : n[f] = IF f \in DOMAIN [code |-> v] THEN [code |-> v][f]
                                          ELSE IF f = "todo" THEN Tail(r.todo) ELSE r[f]
            BY <2>1, Next1Fields DEF FieldNames
        <2>3. n = [f \in FieldNames |-> n[f]]
            BY Next1Fields
        <2> HIDE DEF n
        <2>4. Done(o, [code |-> v]) = n
            BY <1>0, <2>2, <2>3 DEF Done
        <2> QED BY <2>4 DEF n
    <1>3. Done(o, [seen |-> v]) = Next1(r, r.code, v, r.use, r.paid, r.made, r.row)
        <2>1. DOMAIN [seen |-> v] = {"seen"} /\ [seen |-> v]["seen"] = v
            OBVIOUS
        <2> DEFINE n == Next1(r, r.code, v, r.use, r.paid, r.made, r.row)
        <2>2. \A f \in FieldNames : n[f] = IF f \in DOMAIN [seen |-> v] THEN [seen |-> v][f]
                                          ELSE IF f = "todo" THEN Tail(r.todo) ELSE r[f]
            BY <2>1, Next1Fields DEF FieldNames
        <2>3. n = [f \in FieldNames |-> n[f]]
            BY Next1Fields
        <2> HIDE DEF n
        <2>4. Done(o, [seen |-> v]) = n
            BY <1>0, <2>2, <2>3 DEF Done
        <2> QED BY <2>4 DEF n
    <1>4. Done(o, [use |-> v]) = Next1(r, r.code, r.seen, v, r.paid, r.made, r.row)
        <2>1. DOMAIN [use |-> v] = {"use"} /\ [use |-> v]["use"] = v
            OBVIOUS
        <2> DEFINE n == Next1(r, r.code, r.seen, v, r.paid, r.made, r.row)
        <2>2. \A f \in FieldNames : n[f] = IF f \in DOMAIN [use |-> v] THEN [use |-> v][f]
                                          ELSE IF f = "todo" THEN Tail(r.todo) ELSE r[f]
            BY <2>1, Next1Fields DEF FieldNames
        <2>3. n = [f \in FieldNames |-> n[f]]
            BY Next1Fields
        <2> HIDE DEF n
        <2>4. Done(o, [use |-> v]) = n
            BY <1>0, <2>2, <2>3 DEF Done
        <2> QED BY <2>4 DEF n
    <1>5. Done(o, [paid |-> v]) = Next1(r, r.code, r.seen, r.use, v, r.made, r.row)
        <2>1. DOMAIN [paid |-> v] = {"paid"} /\ [paid |-> v]["paid"] = v
            OBVIOUS
        <2> DEFINE n == Next1(r, r.code, r.seen, r.use, v, r.made, r.row)
        <2>2. \A f \in FieldNames : n[f] = IF f \in DOMAIN [paid |-> v] THEN [paid |-> v][f]
                                          ELSE IF f = "todo" THEN Tail(r.todo) ELSE r[f]
            BY <2>1, Next1Fields DEF FieldNames
        <2>3. n = [f \in FieldNames |-> n[f]]
            BY Next1Fields
        <2> HIDE DEF n
        <2>4. Done(o, [paid |-> v]) = n
            BY <1>0, <2>2, <2>3 DEF Done
        <2> QED BY <2>4 DEF n
    <1>6. Done(o, [made |-> v]) = Next1(r, r.code, r.seen, r.use, r.paid, v, r.row)
        <2>1. DOMAIN [made |-> v] = {"made"} /\ [made |-> v]["made"] = v
            OBVIOUS
        <2> DEFINE n == Next1(r, r.code, r.seen, r.use, r.paid, v, r.row)
        <2>2. \A f \in FieldNames : n[f] = IF f \in DOMAIN [made |-> v] THEN [made |-> v][f]
                                          ELSE IF f = "todo" THEN Tail(r.todo) ELSE r[f]
            BY <2>1, Next1Fields DEF FieldNames
        <2>3. n = [f \in FieldNames |-> n[f]]
            BY Next1Fields
        <2> HIDE DEF n
        <2>4. Done(o, [made |-> v]) = n
            BY <1>0, <2>2, <2>3 DEF Done
        <2> QED BY <2>4 DEF n
    <1>7. Done(o, [row |-> v]) = Next1(r, r.code, r.seen, r.use, r.paid, r.made, v)
        <2>1. DOMAIN [row |-> v] = {"row"} /\ [row |-> v]["row"] = v
            OBVIOUS
        <2> DEFINE n == Next1(r, r.code, r.seen, r.use, r.paid, r.made, v)
        <2>2. \A f \in FieldNames : n[f] = IF f \in DOMAIN [row |-> v] THEN [row |-> v][f]
                                          ELSE IF f = "todo" THEN Tail(r.todo) ELSE r[f]
            BY <2>1, Next1Fields DEF FieldNames
        <2>3. n = [f \in FieldNames |-> n[f]]
            BY Next1Fields
        <2> HIDE DEF n
        <2>4. Done(o, [row |-> v]) = n
            BY <1>0, <2>2, <2>3 DEF Done
        <2> QED BY <2>4 DEF n
    <1> QED BY <1>1, <1>2, <1>3, <1>4, <1>5, <1>6, <1>7

-----------------------------------------------------------------------------
(* The two roads of an order.                                              *)

\* An order that goes on has done what lies behind it.
GoesOn(r) ==
    /\ r.flow \in FlowNames /\ (r.flow = "upgrade" => ~r.code)
    /\ Len(r.todo) <= Length(r.flow)
    /\ \A i \in 1..Len(r.todo) : r.todo[i] = Due(r.flow, Len(r.todo) + 1 - i)
    /\ r.paid <=> Len(r.todo) < DebitLeft(r.flow)
    /\ r.made <=> Len(r.todo) < MakeLeft(r.flow)
    /\ r.row <=> Len(r.todo) < 1
    /\ r.use <=> r.code /\ Len(r.todo) < ClaimLeft(r.flow)

\* An order that is undone, or has ended, gives back a use only when it has one.
GoesBack(r) ==
    /\ r.flow \in FlowNames /\ r.todo \in WaysBack
    /\ r.todo \in Releases => r.use = r.code
    /\ r.todo \in Removes => ~Reads(r.flow)

\* Without a mishap what it has is what is yet to be undone.
Clean(r) ==
    /\ r.paid <=> r.todo \in Refunds
    /\ r.made <=> r.todo \in Removes
    /\ ~r.row
    /\ r.use <=> r.code /\ r.todo \in Releases

LEMMA Numbers ==
    ASSUME NEW f \in FlowNames
    PROVE  /\ Length(f) \in Nat /\ ClaimLeft(f) \in Nat /\ DebitLeft(f) \in Nat /\ MakeLeft(f) \in Nat
           /\ Length(f) >= DebitLeft(f) /\ Length(f) >= MakeLeft(f) /\ Length(f) >= 1
           /\ f # "upgrade" => Length(f) >= ClaimLeft(f)
           /\ ClaimLeft(f) >= 1 /\ DebitLeft(f) >= 1 /\ MakeLeft(f) >= 1
    BY DEF FlowNames, Length, ClaimLeft, DebitLeft, MakeLeft

\* The step at hand is the one its place says.
LEMMA AtHand ==
    ASSUME NEW r \in OrderType, GoesOn(r), r.todo # <<>>
    PROVE  /\ Len(r.todo) \in 1..Length(r.flow)
           /\ Head(r.todo) = Due(r.flow, Len(r.todo))
           /\ WayOn(r.flow, Len(r.todo))
    <1>1. r.todo \in Seq(StepNames) /\ r.flow \in FlowNames
        BY DEF OrderType, GoesOn
    <1>5. Len(r.todo) \in Nat \ {0} /\ Head(r.todo) = r.todo[1]
        BY <1>1, Ahead
    <1>6. Length(r.flow) \in Nat
        BY <1>1, Numbers
    <1>2. Len(r.todo) \in Nat \ {0} /\ Head(r.todo) = r.todo[1] /\ Length(r.flow) \in Nat
        BY <1>5, <1>6
    <1>3. Len(r.todo) \in 1..Length(r.flow)
        BY <1>2 DEF GoesOn
    <1>4. r.todo[1] = Due(r.flow, Len(r.todo) + 1 - 1)
        BY <1>2 DEF GoesOn
    <1> QED BY <1>1, <1>2, <1>3, <1>4, WaysOn

LEMMA NothingLeft ==
    <<>> \in WaysBack /\ <<>> \notin Releases /\ <<>> \notin Removes /\ <<>> \notin Refunds
    BY DEF WaysBack, Releases, Removes, Refunds

LEMMA LessIsBelow ==
    ASSUME NEW a \in Nat, LIMIT \in Nat, a <= LIMIT
    PROVE  a - 1 <= LIMIT
    OBVIOUS

LEMMA NextPlace ==
    ASSUME NEW left \in Nat, NEW i \in 1..(left - 1)
    PROVE  i + 1 \in 1..left /\ left + 1 - (i + 1) = (left - 1) + 1 - i
    OBVIOUS

LEMMA OneLess ==
    ASSUME NEW left \in Nat, NEW place \in Nat
    PROVE  left - 1 < place <=> left < place \/ left = place
    OBVIOUS

\* An order that does its step goes on.
LEMMA WentOn ==
    ASSUME NEW r \in OrderType, GoesOn(r), r.todo # <<>>, NEW n \in OrderType,
           n.flow = r.flow, n.todo = Tail(r.todo),
           n.paid <=> r.paid \/ Head(r.todo) = "debit",
           n.made <=> r.made \/ Head(r.todo) = "make",
           n.row <=> r.row \/ Head(r.todo) = "row",
           \/ n.code = r.code /\ (n.use <=> r.use \/ (Head(r.todo) = "claim" /\ r.code))
           \/ ~n.code /\ ~n.use
    PROVE  GoesOn(n)
    <1> DEFINE f == r.flow
               left == Len(r.todo)
    <1>1. /\ left \in 1..Length(f) /\ Head(r.todo) = Due(f, left) /\ WayOn(f, left)
          /\ f \in FlowNames
        BY AtHand DEF GoesOn
    <1>2. /\ Len(n.todo) = left - 1
          /\ \A i \in 1..(left - 1) : n.todo[i] = r.todo[i + 1]
        BY Ahead DEF OrderType
    <1>12. f \in FlowNames
        BY <1>1
    <1>3. Length(f) \in Nat /\ ClaimLeft(f) \in Nat /\ DebitLeft(f) \in Nat /\ MakeLeft(f) \in Nat
        BY <1>12, Numbers
    <1>0. left \in Nat /\ left >= 1
        BY <1>1, <1>3
    <1>4. \A i \in 1..(left - 1) : n.todo[i] = Due(f, (left - 1) + 1 - i)
        <2> SUFFICES ASSUME NEW i \in 1..(left - 1)
                     PROVE  n.todo[i] = Due(f, (left - 1) + 1 - i)
            OBVIOUS
        <2> DEFINE j == i + 1
        <2>1. j \in 1..left /\ left + 1 - j = (left - 1) + 1 - i
            BY <1>0, NextPlace
        <2>2. r.todo[j] = Due(f, left + 1 - j)
            BY <2>1 DEF GoesOn
        <2>3. n.todo[i] = r.todo[j]
            BY <1>2
        <2> QED BY <2>1, <2>2, <2>3
    <1>5. /\ Head(r.todo) = "claim" <=> left = ClaimLeft(f)
          /\ Head(r.todo) = "debit" <=> left = DebitLeft(f)
          /\ Head(r.todo) = "make" <=> left = MakeLeft(f)
          /\ Head(r.todo) = "row" <=> left = 1
        BY <1>1 DEF WayOn
    <1>6. n.paid <=> left - 1 < DebitLeft(f)
        <2>1. left - 1 < DebitLeft(f) <=> left < DebitLeft(f) \/ left = DebitLeft(f)
            BY <1>0, <1>3, OneLess
        <2>2. r.paid <=> left < DebitLeft(f)
            BY DEF GoesOn
        <2> QED BY <1>5, <2>1, <2>2
    <1>7. n.made <=> left - 1 < MakeLeft(f)
        <2>1. left - 1 < MakeLeft(f) <=> left < MakeLeft(f) \/ left = MakeLeft(f)
            BY <1>0, <1>3, OneLess
        <2>2. r.made <=> left < MakeLeft(f)
            BY DEF GoesOn
        <2> QED BY <1>5, <2>1, <2>2
    <1>8. n.row <=> left - 1 < 1
        <2>1. left - 1 < 1 <=> left < 1 \/ left = 1
            BY <1>0, OneLess
        <2>2. r.row <=> left < 1
            BY DEF GoesOn
        <2> QED BY <1>5, <2>1, <2>2
    <1>9. n.use <=> n.code /\ left - 1 < ClaimLeft(f)
        <2>1. left - 1 < ClaimLeft(f) <=> left < ClaimLeft(f) \/ left = ClaimLeft(f)
            BY <1>0, <1>3, OneLess
        <2>2. r.use <=> r.code /\ left < ClaimLeft(f)
            BY DEF GoesOn
        <2> QED BY <1>5, <2>1, <2>2
    <1>10. f = "upgrade" => ~n.code
        BY DEF GoesOn
    <1>11. left - 1 <= Length(f)
        BY <1>1, <1>3
    <1> HIDE DEF left
    <1> QED BY <1>1, <1>2, <1>4, <1>6, <1>7, <1>8, <1>9, <1>10, <1>11 DEF GoesOn

\* An order whose step fails goes back, and undoes what it has done.
LEMMA TurnedBack ==
    ASSUME NEW r \in OrderType, GoesOn(r), r.todo # <<>>, NEW n \in OrderType,
           n.flow = r.flow, n.code = r.code, n.use = r.use, n.paid = r.paid, n.row = r.row,
           n.todo = Undo(r.flow, Head(r.todo))
    PROVE  /\ GoesBack(n)
           /\ n.made = r.made => \/ Clean(n)
                                 \/ Head(r.todo) = "claim" /\ r.flow = "direct"
                                 \/ Head(r.todo) = "show"
                                 \/ Head(r.todo) = "row" /\ Undo(r.flow, "row") = <<>>
    <1> DEFINE f == r.flow
               left == Len(r.todo)
    <1>1. /\ left \in 1..Length(f) /\ Head(r.todo) = Due(f, left) /\ WayOn(f, left)
          /\ f \in FlowNames
        BY AtHand DEF GoesOn
    <1>2. n.todo = Undo(f, Due(f, left))
        BY <1>1
    <1> HIDE DEF left
    <1>3. GoesBack(n)
        <2>1. /\ n.todo \in WaysBack /\ (n.todo \in Removes => ~Reads(f))
              /\ n.todo \in Releases => left < ClaimLeft(f)
            BY <1>1, <1>2 DEF WayOn
        <2>2. r.use <=> r.code /\ left < ClaimLeft(f)
            BY DEF GoesOn, left
        <2>3. n.use \in BOOLEAN /\ n.code \in BOOLEAN
            BY DEF OrderType
        <2>4. n.todo \in Releases => n.use = n.code
            BY <2>1, <2>2, <2>3
        <2> QED BY <1>1, <2>1, <2>4 DEF GoesBack
    <1>4. ASSUME Undone(f, left), n.made = r.made PROVE Clean(n)
        <2>1. /\ n.todo \in Refunds <=> left < DebitLeft(f)
              /\ n.todo \in Removes <=> left < MakeLeft(f)
              /\ n.todo \in Releases <=> left < ClaimLeft(f)
            BY <1>2, <1>4 DEF Undone
        <2>2. ~r.row
            BY <1>1 DEF GoesOn, left
        <2> QED BY <1>4, <2>1, <2>2 DEF Clean, GoesOn, left
    <1> QED BY <1>1, <1>3, <1>4 DEF WayOn

LEMMA WentBack ==
    ASSUME NEW r \in OrderType, GoesBack(r), r.todo # <<>>, NEW n \in OrderType,
           n.flow = r.flow, n.code = r.code, n.todo = Tail(r.todo), n.row = r.row,
           n.use = r.use \/ (Head(r.todo) = "release" /\ ~n.use)
    PROVE  /\ Head(r.todo) \in {"refund", "release", "remove"}
           /\ Head(r.todo) = "release" => r.todo \in Releases
           /\ Head(r.todo) = "remove" => ~Reads(r.flow)
           /\ GoesBack(n)
           /\ /\ Clean(r)
              /\ n.paid <=> r.paid /\ Head(r.todo) # "refund"
              /\ n.made <=> r.made /\ Head(r.todo) # "remove"
              /\ n.use <=> r.use /\ Head(r.todo) # "release"
              => Clean(n)
    <1>1. r.todo \in WaysBack /\ r.flow \in FlowNames
        BY DEF GoesBack
    <1> DEFINE way == r.todo
    <1>2. /\ Head(way) \in {"refund", "release", "remove"} /\ Tail(way) \in WaysBack
          /\ Tail(way) \in Refunds <=> way \in Refunds /\ Head(way) # "refund"
          /\ Tail(way) \in Releases <=> way \in Releases /\ Head(way) # "release"
          /\ Tail(way) \in Removes <=> way \in Removes /\ Head(way) # "remove"
          /\ Head(way) = "release" => way \in Releases
          /\ Head(way) = "remove" => way \in Removes
        BY <1>1, WaysBackOn
    <1>3. GoesBack(n)
        BY <1>1, <1>2 DEF GoesBack
    <1>4. ASSUME Clean(r), n.paid <=> r.paid /\ Head(way) # "refund",
                 n.made <=> r.made /\ Head(way) # "remove",
                 n.use <=> r.use /\ Head(way) # "release"
          PROVE  Clean(n)
        BY <1>2, <1>4 DEF Clean
    <1> QED BY <1>1, <1>2, <1>3, <1>4 DEF GoesBack

-----------------------------------------------------------------------------
(* The invariant.                                                          *)

TypeInv ==
    /\ wallet \in Nat /\ uses \in Nat /\ limit \in Nat /\ raced \in BOOLEAN
    /\ orders \in [Orders -> OrderType] /\ mishaps \subseteq Orders

OnRoad(r, hurt) == r = NoOrder \/ GoesOn(r) \/ (GoesBack(r) /\ (~hurt => Clean(r)))
RoadInv == \A o \in Orders : OnRoad(orders[o], o \in mishaps)

\* The orders that hold a use of the code, and those that raised the data limit.
Holders == {o \in Orders : orders[o].use}
Raised == {o \in Orders : orders[o].made /\ Reads(orders[o].flow)}

CodeInv == IsFiniteSet(Holders) /\ Cardinality(Holders) <= uses /\ uses <= LIMIT
LimitInv == IsFiniteSet(Raised) /\ (mishaps = {} /\ ~raced => limit = Cardinality(Raised))

PurchaseInv == TypeInv /\ RoadInv /\ CodeInv /\ LimitInv

LEMMA Typed ==
    ASSUME NEW r \in OrderType, NEW code \in BOOLEAN, NEW seen \in Nat, NEW use \in BOOLEAN,
           NEW paid \in BOOLEAN, NEW made \in BOOLEAN, NEW row \in BOOLEAN, r.todo # <<>>
    PROVE  Next1(r, code, seen, use, paid, made, row) \in OrderType
    <1>1. Tail(r.todo) \in Seq(StepNames)
        BY Ahead DEF OrderType
    <1> QED BY <1>1 DEF Next1, OrderType

\* A forward step is on the way on, the others are on the way back.
LEMMA WhichRoad ==
    ASSUME TypeInv, RoadInv, NEW o \in Orders, NEW s, At(o, s)
    PROVE  /\ orders[o] \in OrderType /\ orders[o].todo # <<>> /\ Head(orders[o].todo) = s
           /\ s \in {"refund", "release", "remove"} =>
                GoesBack(orders[o]) /\ (o \notin mishaps => Clean(orders[o]))
           /\ s \notin {"refund", "release", "remove"} => GoesOn(orders[o])
    <1>1. orders[o] \in OrderType /\ orders[o].todo # <<>> /\ Head(orders[o].todo) = s
        BY DEF At, Busy, TypeInv
    <1>2. orders[o] # NoOrder
        BY <1>1 DEF NoOrder
    <1>3. ASSUME GoesOn(orders[o]) PROVE s \notin {"refund", "release", "remove"}
        BY <1>1, <1>3, AtHand DEF WayOn
    <1>4. ASSUME GoesBack(orders[o]) PROVE s \in {"refund", "release", "remove"}
        BY <1>1, <1>4, WaysBackOn DEF GoesBack
    <1> QED BY <1>1, <1>2, <1>3, <1>4 DEF RoadInv, OnRoad

\* One order changes.
LEMMA Replaced ==
    ASSUME TypeInv, RoadInv, NEW o \in Orders, NEW n \in OrderType,
           orders' = [orders EXCEPT ![o] = n], mishaps \subseteq mishaps',
           OnRoad(n, o \in mishaps')
    PROVE  /\ orders' \in [Orders -> OrderType] /\ orders'[o] = n /\ RoadInv'
           /\ n.use => Holders' = Holders \cup {o}
           /\ ~n.use => Holders' = Holders \ {o}
           /\ n.made /\ Reads(n.flow) => Raised' = Raised \cup {o}
           /\ ~(n.made /\ Reads(n.flow)) => Raised' = Raised \ {o}
    <1>1. /\ orders' \in [Orders -> OrderType] /\ orders'[o] = n
          /\ \A x \in Orders : x # o => orders'[x] = orders[x]
        BY DEF TypeInv
    <1>2. RoadInv'
        <2>1. \A x \in Orders : x # o => OnRoad(orders'[x], x \in mishaps')
            BY <1>1 DEF RoadInv, OnRoad
        <2> QED BY <1>1, <2>1 DEF RoadInv
    <1>3. n.use \in BOOLEAN /\ n.made \in BOOLEAN
        BY DEF OrderType
    <1>4. /\ n.use => Holders' = Holders \cup {o}
          /\ ~n.use => Holders' = Holders \ {o}
        BY <1>1, <1>3 DEF Holders
    <1>5. /\ n.made /\ Reads(n.flow) => Raised' = Raised \cup {o}
          /\ ~(n.made /\ Reads(n.flow)) => Raised' = Raised \ {o}
        BY <1>1, <1>3 DEF Raised
    <1> QED BY <1>1, <1>2, <1>4, <1>5

\* ... and what it holds and has raised stays.
LEMMA SameHoldings ==
    ASSUME TypeInv, CodeInv, LimitInv, NEW o \in Orders, NEW n \in OrderType,
           n.use = orders[o].use, n.made = orders[o].made, n.flow = orders[o].flow \/ ~n.made,
           n.use => Holders' = Holders \cup {o},
           ~n.use => Holders' = Holders \ {o},
           n.made /\ Reads(n.flow) => Raised' = Raised \cup {o},
           ~(n.made /\ Reads(n.flow)) => Raised' = Raised \ {o},
           uses' = uses, limit' = limit \/ mishaps' # {} \/ raced', raced => raced',
           mishaps \subseteq mishaps'
    PROVE  CodeInv' /\ LimitInv'
    <1>1. Holders' = Holders /\ Raised' = Raised
        <2>1. Holders' = Holders
            BY DEF Holders
        <2>2. Raised' = Raised
            BY DEF Raised
        <2> QED BY <2>1, <2>2
    <1> QED BY <1>1 DEF CodeInv, LimitInv

LEMMA Quietly ==
    ASSUME PurchaseInv, NEW o \in Orders, NEW n \in OrderType,
           orders' = [orders EXCEPT ![o] = n],
           n.use = orders[o].use, n.made = orders[o].made, n.flow = orders[o].flow \/ ~n.made,
           OnRoad(n, o \in mishaps'), mishaps \subseteq mishaps', mishaps' \subseteq Orders,
           wallet' \in Nat, UNCHANGED <<uses, limit, raced>>
    PROVE  PurchaseInv'
    <1>1. TypeInv /\ RoadInv /\ CodeInv /\ LimitInv
        BY DEF PurchaseInv
    <1>2. /\ orders' \in [Orders -> OrderType] /\ RoadInv'
          /\ n.use => Holders' = Holders \cup {o}
          /\ ~n.use => Holders' = Holders \ {o}
          /\ n.made /\ Reads(n.flow) => Raised' = Raised \cup {o}
          /\ ~(n.made /\ Reads(n.flow)) => Raised' = Raised \ {o}
        BY <1>1, Replaced
    <1>3. CodeInv' /\ LimitInv'
        BY <1>1, <1>2, SameHoldings
    <1>4. TypeInv'
        BY <1>1, <1>2 DEF TypeInv
    <1> QED BY <1>2, <1>3, <1>4 DEF PurchaseInv

\* A forward step that takes no use and makes nothing.
LEMMA QuietlyOn ==
    ASSUME PurchaseInv, NEW o \in Orders, NEW s, At(o, s),
           s \notin {"refund", "release", "remove", "make"},
           NEW code \in BOOLEAN, NEW seen \in Nat, NEW paid \in BOOLEAN, NEW row \in BOOLEAN,
           orders' = [orders EXCEPT ![o] =
                        Next1(orders[o], code, seen, orders[o].use, paid, orders[o].made, row)],
           paid <=> orders[o].paid \/ s = "debit", row <=> orders[o].row \/ s = "row",
           \/ code = orders[o].code /\ (s = "claim" => ~code)
           \/ s = "claim" /\ ~code,
           wallet' \in Nat, UNCHANGED <<uses, limit, raced, mishaps>>
    PROVE  PurchaseInv'
    <1>1. TypeInv /\ RoadInv
        BY DEF PurchaseInv
    <1> DEFINE r == orders[o]
               n == Next1(r, code, seen, r.use, paid, r.made, row)
    <1>2. r \in OrderType /\ r.todo # <<>> /\ Head(r.todo) = s /\ GoesOn(r)
        BY <1>1, WhichRoad
    <1>10. r.use \in BOOLEAN /\ r.made \in BOOLEAN /\ r.code \in BOOLEAN
        BY <1>2 DEF OrderType
    <1>3. n \in OrderType
        BY <1>2, <1>10, Typed
    <1>4. /\ n.flow = r.flow /\ n.code = code /\ n.use = r.use /\ n.paid = paid /\ n.made = r.made
          /\ n.row = row /\ n.todo = Tail(r.todo)
        BY DEF Next1
    <1>5. s = "claim" => ~r.use
        BY <1>2, AtHand DEF WayOn, GoesOn
    <1> HIDE DEF n
    <1>6. \/ n.code = r.code /\ (n.use <=> r.use \/ (s = "claim" /\ r.code))
          \/ ~n.code /\ ~n.use
        <2>1. CASE s = "claim"
            BY <1>4, <1>5, <1>10, <2>1
        <2>2. CASE s # "claim"
            <3>1. n.code = r.code
                BY <1>4, <2>2
            <3>2. n.use <=> r.use \/ (s = "claim" /\ r.code)
                BY <1>4, <2>2
            <3> QED BY <3>1, <3>2
        <2> QED BY <2>1, <2>2
    <1>7. GoesOn(n)
        BY <1>2, <1>3, <1>4, <1>6, WentOn
    <1>8. orders' = [orders EXCEPT ![o] = n]
        BY DEF n
    <1>9. mishaps \subseteq Orders
        BY <1>1 DEF TypeInv
    <1> QED BY <1>3, <1>4, <1>7, <1>8, <1>9, Quietly DEF OnRoad

\* A forward step that fails.
LEMMA QuietlyTurned ==
    ASSUME PurchaseInv, NEW o \in Orders, NEW s, At(o, s), FailsAt(o, s),
           s \notin {"refund", "release", "remove"},
           \/ o \in mishaps'
           \/ /\ ~(s = "claim" /\ orders[o].flow = "direct") /\ s # "show"
              /\ ~(s = "row" /\ Undo(orders[o].flow, "row") = <<>>),
           mishaps \subseteq mishaps', mishaps' \subseteq Orders,
           UNCHANGED <<wallet, uses, limit, raced>>
    PROVE  PurchaseInv'
    <1>1. TypeInv /\ RoadInv
        BY DEF PurchaseInv
    <1> DEFINE r == orders[o]
               way == Undo(r.flow, s)
               n == [r EXCEPT !.todo = way]
    <1>2. r \in OrderType /\ r.todo # <<>> /\ Head(r.todo) = s /\ GoesOn(r)
        BY <1>1, WhichRoad
    <1>3. way \in Seq(StepNames)
        <2>1. way \in WaysBack
            BY <1>2, AtHand DEF WayOn
        <2>2. CASE way = <<>>
            BY <2>2
        <2>3. CASE way # <<>>
            BY <2>1, <2>3, WaysBackOn
        <2> QED BY <2>2, <2>3
    <1>4. n \in OrderType /\ n.todo = way
          /\ n.flow = r.flow /\ n.code = r.code /\ n.use = r.use /\ n.paid = r.paid /\ n.made = r.made
          /\ n.row = r.row
        BY <1>2, <1>3 DEF OrderType
    <1>5. orders' = [orders EXCEPT ![o] = n]
        BY <1>1 DEF FailsAt, TypeInv
    <1> HIDE DEF n
    <1>6. GoesBack(n) /\ (o \notin mishaps' => Clean(n))
        BY <1>2, <1>4, TurnedBack
    <1>7. wallet' \in Nat
        BY <1>1 DEF TypeInv
    <1> QED BY <1>4, <1>5, <1>6, <1>7, Quietly DEF OnRoad

-----------------------------------------------------------------------------
(* The actions.                                                            *)

LEMMA StartStep ==
    ASSUME Sizes, PurchaseInv, NEW o \in Orders, Start(o)
    PROVE  PurchaseInv'
    <1>1. PICK f \in Flows, c \in BOOLEAN :
             /\ f = "upgrade" => ~c
             /\ orders' = [orders EXCEPT ![o] =
                             [NoOrder EXCEPT !.flow = f, !.code = c, !.todo = Steps(f)]]
        BY DEF Start
    <1>2. orders[o] = NoOrder /\ f \in FlowNames /\ TypeInv
        BY DEF Start, Sizes, PurchaseInv
    <1> DEFINE n == [NoOrder EXCEPT !.flow = f, !.code = c, !.todo = Steps(f)]
    <1>3. Steps(f) \in Seq(StepNames)
        <2> USE DEF Steps, StepNames
        <2>1. CASE f = "webapp"
            BY <2>1
        <2>2. CASE f = "shop"
            BY <2>2
        <2>3. CASE f = "reseller"
            BY <2>3
        <2>4. CASE f = "renew"
            BY <2>4
        <2>5. CASE f = "direct"
            BY <2>5
        <2>6. CASE f = "chat"
            BY <2>6
        <2>7. CASE f = "upgrade"
            BY <2>7
        <2> HIDE DEF Steps
        <2> QED BY <1>2, <2>1, <2>2, <2>3, <2>4, <2>5, <2>6, <2>7 DEF FlowNames
    <1>4. /\ n \in OrderType /\ n.flow = f /\ n.code = c /\ n.todo = Steps(f)
          /\ ~n.use /\ ~n.paid /\ ~n.made /\ ~n.row /\ n.use = FALSE /\ n.made = FALSE
        BY <1>2, <1>3 DEF OrderType, NoOrder
    <1>5. orders' = [orders EXCEPT ![o] = n]
        BY <1>1
    <1> HIDE DEF n
    <1>6. Length(f) \in Nat /\ Length(f) >= 1 /\ Len(Steps(f)) = Length(f)
        BY <1>2, Numbers, WaysOn
    <1>7. /\ ~(Length(f) < DebitLeft(f)) /\ ~(Length(f) < MakeLeft(f)) /\ ~(Length(f) < 1)
          /\ f # "upgrade" => ~(Length(f) < ClaimLeft(f))
        BY <1>2, Numbers
    <1>8. \A i \in 1..Length(f) : Steps(f)[i] = Due(f, Length(f) + 1 - i)
        <2> SUFFICES ASSUME NEW i \in 1..Length(f) PROVE Steps(f)[i] = Due(f, Length(f) + 1 - i)
            OBVIOUS
        <2>1. Length(f) - (Length(f) + 1 - i) + 1 = i
            BY <1>6
        <2> QED BY <2>1 DEF Due
    <1>9. GoesOn(n)
        BY <1>1, <1>2, <1>4, <1>6, <1>7, <1>8 DEF GoesOn
    <1>10. orders[o].use = FALSE /\ orders[o].made = FALSE
        BY <1>2 DEF NoOrder
    <1>11. wallet' \in Nat /\ mishaps \subseteq mishaps' /\ mishaps' \subseteq Orders
           /\ UNCHANGED <<uses, limit, raced>>
        BY <1>2 DEF Start, TypeInv
    <1> QED BY <1>4, <1>5, <1>9, <1>10, <1>11, Quietly DEF OnRoad

\* Done with the values of the order, as one of Next1.
LEMMA Fields ==
    ASSUME PurchaseInv, NEW o \in Orders, NEW s, At(o, s)
    PROVE  /\ TypeInv /\ RoadInv /\ CodeInv /\ LimitInv
           /\ orders[o] \in OrderType /\ orders[o].todo # <<>> /\ Head(orders[o].todo) = s
           /\ orders[o].code \in BOOLEAN /\ orders[o].use \in BOOLEAN /\ orders[o].paid \in BOOLEAN
           /\ orders[o].made \in BOOLEAN /\ orders[o].row \in BOOLEAN /\ orders[o].seen \in Nat
           /\ wallet \in Nat /\ uses \in Nat /\ limit \in Nat
    <1>1. TypeInv /\ RoadInv /\ CodeInv /\ LimitInv
        BY DEF PurchaseInv
    <1>2. orders[o] \in OrderType /\ orders[o].todo # <<>> /\ Head(orders[o].todo) = s
        BY <1>1, WhichRoad
    <1>3. /\ orders[o].code \in BOOLEAN /\ orders[o].use \in BOOLEAN /\ orders[o].paid \in BOOLEAN
          /\ orders[o].made \in BOOLEAN /\ orders[o].row \in BOOLEAN /\ orders[o].seen \in Nat
        BY <1>2 DEF OrderType
    <1>4. wallet \in Nat /\ uses \in Nat /\ limit \in Nat
        BY <1>1 DEF TypeInv
    <1> QED BY <1>1, <1>2, <1>3, <1>4

LEMMA CheckStep ==
    ASSUME PurchaseInv, NEW o \in Orders, Check(o)
    PROVE  PurchaseInv'
    <1>1. At(o, "check") /\ UNCHANGED <<wallet, uses, limit, mishaps, raced>>
        BY DEF Check
    <1> DEFINE r == orders[o]
    <1>2. /\ TypeInv /\ r \in OrderType
          /\ r.code \in BOOLEAN /\ r.paid \in BOOLEAN /\ r.row \in BOOLEAN /\ r.seen \in Nat
          /\ wallet \in Nat
        BY <1>1, Fields
    <1>3. CASE Does(o, <<>>)
        <2>1. orders' = [orders EXCEPT ![o] =
                           Next1(r, r.code, r.seen, r.use, r.paid, r.made, r.row)]
            BY <1>2, <1>3, Changes DEF Does
        <2> HIDE DEF r
        <2>2. wallet' \in Nat
            BY <1>1, <1>2
        <2>3. (r.paid <=> r.paid \/ "check" = "debit") /\ (r.row <=> r.row \/ "check" = "row")
            OBVIOUS
        <2>4. r.code = orders[o].code /\ ("check" = "claim" => ~r.code)
            BY DEF r
        <2> QED BY <1>1, <1>2, <2>1, <2>2, <2>3, <2>4, QuietlyOn DEF r
    <1>4. CASE FailsAt(o, "check")
        <2>1. mishaps \subseteq mishaps' /\ mishaps' \subseteq Orders
            BY <1>1, <1>2 DEF TypeInv
        <2> QED BY <1>1, <1>4, <2>1, QuietlyTurned
    <1> QED BY <1>3, <1>4 DEF Check

LEMMA DebitStep ==
    ASSUME PurchaseInv, NEW o \in Orders, Debit(o)
    PROVE  PurchaseInv'
    <1>1. At(o, "debit") /\ UNCHANGED <<uses, limit, mishaps, raced>>
        BY DEF Debit
    <1> DEFINE r == orders[o]
    <1>2. /\ TypeInv /\ r \in OrderType
          /\ r.code \in BOOLEAN /\ r.paid \in BOOLEAN /\ r.row \in BOOLEAN /\ r.seen \in Nat
          /\ wallet \in Nat
        BY <1>1, Fields
    <1>3. CASE wallet >= 1 /\ wallet' = wallet - 1 /\ Does(o, [paid |-> TRUE])
        <2>1. orders' = [orders EXCEPT ![o] =
                           Next1(r, r.code, r.seen, r.use, TRUE, r.made, r.row)]
            BY <1>2, <1>3, Changes DEF Does
        <2> HIDE DEF r
        <2>2. wallet' \in Nat
            BY <1>2, <1>3
        <2>3. (TRUE <=> r.paid \/ "debit" = "debit") /\ (r.row <=> r.row \/ "debit" = "row")
            OBVIOUS
        <2>4. r.code = orders[o].code /\ ("debit" = "claim" => ~r.code)
            BY DEF r
        <2> QED BY <1>1, <1>2, <2>1, <2>2, <2>3, <2>4, QuietlyOn DEF r
    <1>4. CASE FailsAt(o, "debit") /\ UNCHANGED wallet
        <2>1. mishaps \subseteq mishaps' /\ mishaps' \subseteq Orders
            BY <1>1, <1>2 DEF TypeInv
        <2> QED BY <1>1, <1>4, <2>1, QuietlyTurned
    <1> QED BY <1>3, <1>4 DEF Debit

LEMMA ReadStep ==
    ASSUME PurchaseInv, NEW o \in Orders, Read(o)
    PROVE  PurchaseInv'
    <1>1. At(o, "read") /\ UNCHANGED <<wallet, uses, limit, mishaps, raced>>
        BY DEF Read
    <1> DEFINE r == orders[o]
    <1>2. /\ TypeInv /\ r \in OrderType
          /\ r.code \in BOOLEAN /\ r.paid \in BOOLEAN /\ r.row \in BOOLEAN
          /\ wallet \in Nat /\ limit \in Nat
        BY <1>1, Fields
    <1>3. orders' = [orders EXCEPT ![o] = Next1(r, r.code, limit, r.use, r.paid, r.made, r.row)]
        BY <1>2, Changes DEF Read, Does
    <1> HIDE DEF r
    <1>4. wallet' \in Nat
        BY <1>1, <1>2
    <1>5. (r.paid <=> r.paid \/ "read" = "debit") /\ (r.row <=> r.row \/ "read" = "row")
        OBVIOUS
    <1>6. r.code = orders[o].code /\ ("read" = "claim" => ~r.code)
        BY DEF r
    <1> QED BY <1>1, <1>2, <1>3, <1>4, <1>5, <1>6, QuietlyOn DEF r

LEMMA ShowStep ==
    ASSUME PurchaseInv, NEW o \in Orders, Show(o)
    PROVE  PurchaseInv'
    <1>1. At(o, "show") /\ UNCHANGED <<wallet, uses, limit, mishaps, raced>>
        BY DEF Show
    <1> DEFINE r == orders[o]
    <1>2. /\ TypeInv /\ r \in OrderType
          /\ r.code \in BOOLEAN /\ r.paid \in BOOLEAN /\ r.row \in BOOLEAN /\ r.seen \in Nat
          /\ wallet \in Nat
        BY <1>1, Fields
    <1>3. orders' = [orders EXCEPT ![o] = Next1(r, r.code, r.seen, r.use, r.paid, r.made, r.row)]
        BY <1>2, Changes DEF Show, Does
    <1> HIDE DEF r
    <1>4. wallet' \in Nat
        BY <1>1, <1>2
    <1>5. (r.paid <=> r.paid \/ "show" = "debit") /\ (r.row <=> r.row \/ "show" = "row")
        OBVIOUS
    <1>6. r.code = orders[o].code /\ ("show" = "claim" => ~r.code)
        BY DEF r
    <1> QED BY <1>1, <1>2, <1>3, <1>4, <1>5, <1>6, QuietlyOn DEF r

LEMMA StoreRowStep ==
    ASSUME PurchaseInv, NEW o \in Orders, StoreRow(o)
    PROVE  PurchaseInv'
    <1>1. At(o, "row") /\ UNCHANGED <<wallet, uses, limit, mishaps, raced>>
        BY DEF StoreRow
    <1> DEFINE r == orders[o]
    <1>2. /\ TypeInv /\ r \in OrderType
          /\ r.code \in BOOLEAN /\ r.paid \in BOOLEAN /\ r.row \in BOOLEAN /\ r.seen \in Nat
          /\ wallet \in Nat
        BY <1>1, Fields
    <1>3. orders' = [orders EXCEPT ![o] = Next1(r, r.code, r.seen, r.use, r.paid, r.made, TRUE)]
        BY <1>2, Changes DEF StoreRow, Does
    <1> HIDE DEF r
    <1>4. wallet' \in Nat
        BY <1>1, <1>2
    <1>5. (r.paid <=> r.paid \/ "row" = "debit") /\ (TRUE <=> r.row \/ "row" = "row")
        OBVIOUS
    <1>6. r.code = orders[o].code /\ ("row" = "claim" => ~r.code)
        BY DEF r
    <1> QED BY <1>1, <1>2, <1>3, <1>4, <1>5, <1>6, QuietlyOn DEF r

LEMMA FailureSteps ==
    ASSUME PurchaseInv, NEW o \in Orders, PanelFails(o) \/ ShowFails(o) \/ StoreRowFails(o)
    PROVE  PurchaseInv'
    <1>0. mishaps \subseteq Orders
        BY DEF PurchaseInv, TypeInv
    <1>1. CASE PanelFails(o)
        <2>1. PICK s \in {"read", "make"} : At(o, s) /\ FailsAt(o, s)
            BY <1>1 DEF PanelFails
        <2>2. UNCHANGED <<wallet, uses, limit, raced, mishaps>>
            BY <1>1 DEF PanelFails
        <2> QED BY <1>0, <2>1, <2>2, QuietlyTurned
    <1>2. CASE ShowFails(o)
        <2>1. /\ At(o, "show") /\ FailsAt(o, "show") /\ mishaps' = mishaps \cup {o}
              /\ UNCHANGED <<wallet, uses, limit, raced>>
            BY <1>2 DEF ShowFails
        <2> QED BY <1>0, <2>1, QuietlyTurned
    <1>3. CASE StoreRowFails(o)
        <2>1. /\ At(o, "row") /\ FailsAt(o, "row")
              /\ mishaps' = IF Undo(orders[o].flow, "row") = <<>> THEN mishaps \cup {o} ELSE mishaps
              /\ UNCHANGED <<wallet, uses, limit, raced>>
            BY <1>3 DEF StoreRowFails
        <2> QED BY <1>0, <2>1, QuietlyTurned
    <1> QED BY <1>1, <1>2, <1>3

LEMMA ClaimStep ==
    ASSUME Sizes, PurchaseInv, NEW o \in Orders, Claim(o)
    PROVE  PurchaseInv'
    <1>1. At(o, "claim") /\ UNCHANGED <<wallet, limit, mishaps, raced>>
        BY DEF Claim
    <1> DEFINE r == orders[o]
    <1>2. /\ TypeInv /\ RoadInv /\ CodeInv /\ LimitInv
          /\ r \in OrderType /\ r.todo # <<>> /\ Head(r.todo) = "claim"
          /\ r.code \in BOOLEAN /\ r.use \in BOOLEAN /\ r.paid \in BOOLEAN
          /\ r.made \in BOOLEAN /\ r.row \in BOOLEAN /\ r.seen \in Nat
          /\ wallet \in Nat /\ uses \in Nat /\ limit \in Nat
        BY <1>1, Fields
    <1>3. wallet' \in Nat /\ mishaps \subseteq mishaps' /\ mishaps' \subseteq Orders
        BY <1>1, <1>2 DEF TypeInv
    <1>4. (r.paid <=> r.paid \/ "claim" = "debit") /\ (r.row <=> r.row \/ "claim" = "row")
        OBVIOUS
    <1>5. CASE ~r.code /\ Does(o, <<>>) /\ UNCHANGED uses
        <2>1. orders' = [orders EXCEPT ![o] =
                           Next1(r, r.code, r.seen, r.use, r.paid, r.made, r.row)]
            BY <1>2, <1>5, Changes DEF Does
        <2>2. r.code = orders[o].code /\ ("claim" = "claim" => ~r.code)
            BY <1>5 DEF r
        <2> HIDE DEF r
        <2> QED BY <1>1, <1>2, <1>3, <1>4, <1>5, <2>1, <2>2, QuietlyOn DEF r
    <1>6. CASE ~(uses < LIMIT) /\ r.flow = "direct" /\ Does(o, [code |-> FALSE]) /\ UNCHANGED uses
        <2>1. orders' = [orders EXCEPT ![o] =
                           Next1(r, FALSE, r.seen, r.use, r.paid, r.made, r.row)]
            BY <1>2, <1>6, Changes DEF Does
        <2>2. "claim" = "claim" /\ ~FALSE /\ FALSE \in BOOLEAN
            OBVIOUS
        <2> HIDE DEF r
        <2> QED BY <1>1, <1>2, <1>3, <1>4, <1>6, <2>1, <2>2, QuietlyOn DEF r
    <1>7. CASE ~(uses < LIMIT) /\ r.flow # "direct" /\ FailsAt(o, "claim") /\ UNCHANGED uses
        BY <1>1, <1>3, <1>7, QuietlyTurned
    <1>8. CASE r.code /\ uses < LIMIT /\ uses' = uses + 1 /\ Does(o, [use |-> TRUE])
        <2> DEFINE n == Next1(r, r.code, r.seen, TRUE, r.paid, r.made, r.row)
        <2>1. orders' = [orders EXCEPT ![o] = n]
            BY <1>2, <1>8, Changes DEF Does
        <2>2. n \in OrderType
            BY <1>2, Typed
        <2>3. /\ n.flow = r.flow /\ n.code = r.code /\ n.use = TRUE /\ n.paid = r.paid
              /\ n.made = r.made /\ n.row = r.row /\ n.todo = Tail(r.todo)
            BY DEF Next1
        <2>4. GoesOn(r)
            BY <1>1, <1>2, WhichRoad
        <2> HIDE DEF n
        <2>5. GoesOn(n)
            BY <1>2, <1>8, <2>2, <2>3, <2>4, WentOn
        <2>6. /\ orders' \in [Orders -> OrderType] /\ RoadInv'
              /\ Holders' = Holders \cup {o}
              /\ n.made /\ Reads(n.flow) => Raised' = Raised \cup {o}
              /\ ~(n.made /\ Reads(n.flow)) => Raised' = Raised \ {o}
            BY <1>2, <1>3, <2>1, <2>2, <2>3, <2>5, Replaced DEF OnRoad
        <2>7. Raised' = Raised
            BY <2>3, <2>6 DEF Raised
        <2>8. CodeInv'
            <3>1. IsFiniteSet(Holders) /\ Cardinality(Holders) <= uses /\ LIMIT \in Nat
                BY <1>2 DEF CodeInv, Sizes
            <3>2. /\ IsFiniteSet(Holders') /\ Cardinality(Holders) \in Nat
                  /\ \/ Cardinality(Holders') = Cardinality(Holders)
                     \/ Cardinality(Holders') = Cardinality(Holders) + 1
                BY <3>1, <2>6, FS_AddElement, FS_CardinalityType
            <3>3. Cardinality(Holders') <= uses + 1 /\ uses + 1 <= LIMIT
                BY <1>2, <1>8, <3>1, <3>2
            <3> QED BY <1>8, <3>2, <3>3 DEF CodeInv
        <2>9. LimitInv'
            BY <1>1, <1>2, <2>7 DEF LimitInv
        <2>10. TypeInv'
            BY <1>1, <1>2, <1>8, <2>6 DEF TypeInv
        <2> QED BY <2>6, <2>8, <2>9, <2>10 DEF PurchaseInv
    <1> QED BY <1>1, <1>5, <1>6, <1>7, <1>8 DEF Claim

\* What the panel was told, with the answer or without it.
LEMMA WasApplied ==
    ASSUME LimitInv, limit \in Nat, raced \in BOOLEAN, NEW o \in Orders, Applied(o),
           orders[o].seen \in Nat, o \notin Raised,
           Reads(orders[o].flow) => Raised' = Raised \cup {o},
           ~Reads(orders[o].flow) => Raised' = Raised,
           mishaps \subseteq mishaps'
    PROVE  LimitInv' /\ limit' \in Nat /\ raced' \in BOOLEAN
    <1> DEFINE f == orders[o].flow
    <1>0. IsFiniteSet(Raised) /\ Cardinality(Raised) \in Nat
        BY FS_CardinalityType DEF LimitInv
    <1>1. CASE Reads(f)
        <2>1. limit' = orders[o].seen + 1 /\ raced' = (raced \/ limit # orders[o].seen)
            BY <1>1 DEF Applied
        <2>2. IsFiniteSet(Raised') /\ Cardinality(Raised') = Cardinality(Raised) + 1
            BY <1>0, <1>1, FS_AddElement
        <2>3. ASSUME mishaps' = {}, ~raced' PROVE limit' = Cardinality(Raised')
            <3>1. mishaps = {} /\ ~raced /\ limit = orders[o].seen
                BY <2>1, <2>3
            <3>2. limit = Cardinality(Raised)
                BY <3>1 DEF LimitInv
            <3> QED BY <2>1, <2>2, <3>1, <3>2
        <2>4. LimitInv'
            BY <2>2, <2>3 DEF LimitInv
        <2> QED BY <2>1, <2>4
    <1>2. CASE ~Reads(f)
        <2>1. limit' = limit /\ raced' = raced
            BY <1>2 DEF Applied
        <2>2. Raised' = Raised
            BY <1>2
        <2>3. LimitInv'
            BY <2>1, <2>2 DEF LimitInv
        <2> QED BY <2>1, <2>3
    <1> QED BY <1>1, <1>2

LEMMA MakeStep ==
    ASSUME PurchaseInv, NEW o \in Orders, Make(o)
    PROVE  PurchaseInv'
    <1>1. At(o, "make") /\ Applied(o) /\ UNCHANGED <<wallet, uses, mishaps>>
        BY DEF Make
    <1> DEFINE r == orders[o]
    <1>2. /\ TypeInv /\ RoadInv /\ CodeInv /\ LimitInv
          /\ r \in OrderType /\ r.todo # <<>> /\ Head(r.todo) = "make"
          /\ r.code \in BOOLEAN /\ r.use \in BOOLEAN /\ r.paid \in BOOLEAN
          /\ r.made \in BOOLEAN /\ r.row \in BOOLEAN /\ r.seen \in Nat
          /\ wallet \in Nat /\ uses \in Nat /\ limit \in Nat
        BY <1>1, Fields
    <1> DEFINE n == Next1(r, r.code, r.seen, r.use, r.paid, TRUE, r.row)
    <1>3. orders' = [orders EXCEPT ![o] = n]
        BY <1>2, Changes DEF Make, Does
    <1>4. n \in OrderType
        BY <1>2, Typed
    <1>5. /\ n.flow = r.flow /\ n.code = r.code /\ n.use = r.use /\ n.paid = r.paid
          /\ n.made = TRUE /\ n.row = r.row /\ n.todo = Tail(r.todo)
        BY DEF Next1
    <1>6. GoesOn(r)
        BY <1>1, <1>2, WhichRoad
    <1>7. ~r.made
        BY <1>2, <1>6, AtHand DEF WayOn, GoesOn
    <1> HIDE DEF n
    <1>8. GoesOn(n)
        BY <1>2, <1>4, <1>5, <1>6, WentOn
    <1>9. /\ orders' \in [Orders -> OrderType] /\ RoadInv'
          /\ n.use => Holders' = Holders \cup {o}
          /\ ~n.use => Holders' = Holders \ {o}
          /\ Reads(r.flow) => Raised' = Raised \cup {o}
          /\ ~Reads(r.flow) => Raised' = Raised \ {o}
        BY <1>1, <1>2, <1>3, <1>4, <1>5, <1>8, Replaced DEF OnRoad
    <1>10. Holders' = Holders
        BY <1>5, <1>9 DEF Holders
    <1>11. o \notin Raised
        BY <1>7 DEF Raised
    <1>12. LimitInv' /\ limit' \in Nat /\ raced' \in BOOLEAN
        BY <1>1, <1>2, <1>9, <1>11, WasApplied DEF TypeInv
    <1>13. CodeInv'
        BY <1>1, <1>2, <1>10 DEF CodeInv
    <1>14. TypeInv'
        BY <1>1, <1>2, <1>9, <1>12 DEF TypeInv
    <1> QED BY <1>9, <1>12, <1>13, <1>14 DEF PurchaseInv

LEMMA AnswerLostStep ==
    ASSUME PurchaseInv, NEW o \in Orders, AnswerLost(o)
    PROVE  PurchaseInv'
    <1>1. At(o, "make") /\ Applied(o) /\ mishaps' = mishaps \cup {o} /\ UNCHANGED <<wallet, uses>>
        BY DEF AnswerLost
    <1> DEFINE r == orders[o]
               way == Undo(r.flow, "make")
               n == [r EXCEPT !.made = TRUE, !.todo = way]
    <1>2. /\ TypeInv /\ RoadInv /\ CodeInv /\ LimitInv
          /\ r \in OrderType /\ r.todo # <<>> /\ Head(r.todo) = "make"
          /\ r.seen \in Nat /\ wallet \in Nat /\ uses \in Nat /\ limit \in Nat
        BY <1>1, Fields
    <1>3. orders' = [orders EXCEPT ![o] = n]
        BY <1>2 DEF AnswerLost, TypeInv
    <1>4. GoesOn(r)
        BY <1>1, <1>2, WhichRoad
    <1>5. way \in Seq(StepNames)
        <2>1. way \in WaysBack
            BY <1>2, <1>4, AtHand DEF WayOn
        <2>2. <<>> \in Seq(StepNames)
            OBVIOUS
        <2>3. CASE way # <<>>
            BY <2>1, <2>3, WaysBackOn
        <2> HIDE DEF way
        <2> QED BY <2>2, <2>3
    <1>6. n \in OrderType /\ n.todo = way
          /\ n.flow = r.flow /\ n.code = r.code /\ n.use = r.use /\ n.paid = r.paid
          /\ n.made = TRUE /\ n.row = r.row
        BY <1>2, <1>5 DEF OrderType
    <1>7. ~r.made
        BY <1>2, <1>4, AtHand DEF WayOn, GoesOn
    <1> HIDE DEF n
    <1>8. GoesBack(n)
        BY <1>2, <1>4, <1>6, TurnedBack
    <1>9. /\ orders' \in [Orders -> OrderType] /\ RoadInv'
          /\ n.use => Holders' = Holders \cup {o}
          /\ ~n.use => Holders' = Holders \ {o}
          /\ Reads(r.flow) => Raised' = Raised \cup {o}
          /\ ~Reads(r.flow) => Raised' = Raised \ {o}
        BY <1>1, <1>2, <1>3, <1>6, <1>8, Replaced DEF OnRoad
    <1>10. Holders' = Holders
        BY <1>6, <1>9 DEF Holders
    <1>11. o \notin Raised
        BY <1>7 DEF Raised
    <1>12. LimitInv' /\ limit' \in Nat /\ raced' \in BOOLEAN
        BY <1>1, <1>2, <1>9, <1>11, WasApplied DEF TypeInv
    <1>13. CodeInv'
        BY <1>1, <1>2, <1>10 DEF CodeInv
    <1>14. TypeInv'
        BY <1>1, <1>2, <1>9, <1>12 DEF TypeInv
    <1> QED BY <1>9, <1>12, <1>13, <1>14 DEF PurchaseInv

\* A step back: it gives back the wallet's money or nothing.
LEMMA RefundStep ==
    ASSUME PurchaseInv, NEW o \in Orders, Refund(o)
    PROVE  PurchaseInv'
    <1>1. At(o, "refund") /\ wallet' = wallet + 1 /\ UNCHANGED <<uses, limit, mishaps, raced>>
        BY DEF Refund
    <1> DEFINE r == orders[o]
               n == Next1(r, r.code, r.seen, r.use, FALSE, r.made, r.row)
    <1>2. /\ TypeInv /\ RoadInv /\ r \in OrderType /\ r.todo # <<>> /\ Head(r.todo) = "refund"
          /\ r.code \in BOOLEAN /\ r.use \in BOOLEAN /\ r.paid \in BOOLEAN
          /\ r.made \in BOOLEAN /\ r.row \in BOOLEAN /\ r.seen \in Nat /\ wallet \in Nat
        BY <1>1, Fields
    <1>3. orders' = [orders EXCEPT ![o] = n]
        BY <1>2, Changes DEF Refund, Does
    <1>4. n \in OrderType
        BY <1>2, Typed
    <1>5. /\ n.flow = r.flow /\ n.code = r.code /\ n.use = r.use /\ n.paid = FALSE
          /\ n.made = r.made /\ n.row = r.row /\ n.todo = Tail(r.todo)
        BY DEF Next1
    <1>6. GoesBack(r) /\ (o \notin mishaps => Clean(r))
        BY <1>1, <1>2, WhichRoad
    <1> HIDE DEF n
    <1>7. GoesBack(n) /\ (o \notin mishaps' => Clean(n))
        BY <1>1, <1>2, <1>4, <1>5, <1>6, WentBack
    <1>8. wallet' \in Nat /\ mishaps \subseteq mishaps' /\ mishaps' \subseteq Orders
        BY <1>1, <1>2 DEF TypeInv
    <1> QED BY <1>1, <1>3, <1>4, <1>5, <1>7, <1>8, Quietly DEF OnRoad

LEMMA UndoFailsStep ==
    ASSUME PurchaseInv, NEW o \in Orders, UndoFails(o)
    PROVE  PurchaseInv'
    <1>1. PICK s \in {"remove", "release"} : At(o, s)
        BY DEF UndoFails
    <1>9. mishaps' = mishaps \cup {o} /\ UNCHANGED <<wallet, uses, limit, raced>>
        BY DEF UndoFails
    <1> DEFINE r == orders[o]
               n == Next1(r, r.code, r.seen, r.use, r.paid, r.made, r.row)
    <1>2. /\ TypeInv /\ RoadInv /\ r \in OrderType /\ r.todo # <<>> /\ Head(r.todo) = s
          /\ r.code \in BOOLEAN /\ r.use \in BOOLEAN /\ r.paid \in BOOLEAN
          /\ r.made \in BOOLEAN /\ r.row \in BOOLEAN /\ r.seen \in Nat /\ wallet \in Nat
        BY <1>1, Fields
    <1>3. orders' = [orders EXCEPT ![o] = n]
        BY <1>2, Changes DEF UndoFails, Does
    <1>4. n \in OrderType
        BY <1>2, Typed
    <1>5. /\ n.flow = r.flow /\ n.code = r.code /\ n.use = r.use /\ n.paid = r.paid
          /\ n.made = r.made /\ n.row = r.row /\ n.todo = Tail(r.todo)
        BY DEF Next1
    <1>6. GoesBack(r)
        BY <1>1, <1>2, WhichRoad
    <1> HIDE DEF n
    <1>7. GoesBack(n)
        BY <1>2, <1>4, <1>5, <1>6, WentBack
    <1>8. /\ wallet' \in Nat /\ mishaps \subseteq mishaps' /\ mishaps' \subseteq Orders
          /\ o \in mishaps'
        BY <1>9, <1>2 DEF TypeInv
    <1> QED BY <1>9, <1>3, <1>4, <1>5, <1>7, <1>8, Quietly DEF OnRoad

\* A use is given back once: an order on its way to a release holds the use.
LEMMA ReleaseStep ==
    ASSUME Sizes, PurchaseInv, NEW o \in Orders, Release(o)
    PROVE  PurchaseInv'
    <1>1. /\ At(o, "release") /\ UNCHANGED <<wallet, limit, mishaps, raced>>
          /\ uses' = IF orders[o].code /\ uses > 0 THEN uses - 1 ELSE uses
        BY DEF Release
    <1> DEFINE r == orders[o]
               n == Next1(r, r.code, r.seen, FALSE, r.paid, r.made, r.row)
    <1>2. /\ TypeInv /\ RoadInv /\ CodeInv /\ LimitInv
          /\ r \in OrderType /\ r.todo # <<>> /\ Head(r.todo) = "release"
          /\ r.code \in BOOLEAN /\ r.use \in BOOLEAN /\ r.paid \in BOOLEAN
          /\ r.made \in BOOLEAN /\ r.row \in BOOLEAN /\ r.seen \in Nat
          /\ wallet \in Nat /\ uses \in Nat /\ limit \in Nat
        BY <1>1, Fields
    <1>3. orders' = [orders EXCEPT ![o] = n]
        BY <1>2, Changes DEF Release, Does
    <1>4. n \in OrderType
        BY <1>2, Typed
    <1>5. /\ n.flow = r.flow /\ n.code = r.code /\ n.use = FALSE /\ n.paid = r.paid
          /\ n.made = r.made /\ n.row = r.row /\ n.todo = Tail(r.todo)
        BY DEF Next1
    <1>6. GoesBack(r) /\ (o \notin mishaps => Clean(r))
        BY <1>1, <1>2, WhichRoad
    <1> HIDE DEF n
    <1>7. /\ GoesBack(n) /\ (o \notin mishaps' => Clean(n))
          /\ r.todo \in Releases
        BY <1>1, <1>2, <1>4, <1>5, <1>6, WentBack
    <1>8. r.use = r.code
        BY <1>6, <1>7 DEF GoesBack
    <1>9. /\ orders' \in [Orders -> OrderType] /\ RoadInv'
          /\ Holders' = Holders \ {o}
          /\ n.made /\ Reads(n.flow) => Raised' = Raised \cup {o}
          /\ ~(n.made /\ Reads(n.flow)) => Raised' = Raised \ {o}
        BY <1>1, <1>2, <1>3, <1>4, <1>5, <1>7, Replaced DEF OnRoad
    <1>10. Raised' = Raised
        BY <1>5, <1>9 DEF Raised
    <1>11. o \in Holders <=> r.code
        BY <1>2, <1>8 DEF Holders
    <1>12. CodeInv' /\ uses' \in Nat
        <2>1. /\ IsFiniteSet(Holders) /\ Cardinality(Holders) <= uses /\ uses <= LIMIT
              /\ Cardinality(Holders) \in Nat
            BY <1>2, FS_CardinalityType DEF CodeInv
        <2>2. /\ IsFiniteSet(Holders')
              /\ o \in Holders => Cardinality(Holders') = Cardinality(Holders) - 1
              /\ o \notin Holders => Cardinality(Holders') = Cardinality(Holders)
            BY <1>9, <2>1, FS_RemoveElement
        <2>3. Cardinality(Holders') \in Nat
            BY <2>2, FS_CardinalityType
        <2>4. CASE r.code
            <3>1. Cardinality(Holders') = Cardinality(Holders) - 1
                BY <1>11, <2>2, <2>4
            <3>2. uses > 0
                BY <1>2, <2>1, <2>3, <3>1
            <3>3. uses' = uses - 1
                BY <1>1, <2>4, <3>2
            <3>4. Cardinality(Holders') <= uses' /\ uses' \in Nat
                BY <1>2, <2>1, <3>1, <3>2, <3>3
            <3>5. uses' <= LIMIT
                BY <1>2, <2>1, <3>2, <3>3, LessIsBelow DEF Sizes
            <3> QED BY <2>2, <3>4, <3>5 DEF CodeInv
        <2>5. CASE ~r.code
            <3>1. Cardinality(Holders') = Cardinality(Holders) /\ uses' = uses
                BY <1>1, <1>11, <2>2, <2>5
            <3> QED BY <1>2, <2>1, <2>2, <3>1 DEF CodeInv
        <2> QED BY <2>4, <2>5
    <1>13. LimitInv'
        BY <1>1, <1>2, <1>10 DEF LimitInv
    <1>14. TypeInv'
        BY <1>1, <1>2, <1>9, <1>12 DEF TypeInv
    <1> QED BY <1>9, <1>12, <1>13, <1>14 DEF PurchaseInv

LEMMA RemoveStep ==
    ASSUME PurchaseInv, NEW o \in Orders, Remove(o)
    PROVE  PurchaseInv'
    <1>1. At(o, "remove") /\ UNCHANGED <<wallet, uses, limit, mishaps, raced>>
        BY DEF Remove
    <1> DEFINE r == orders[o]
               n == Next1(r, r.code, r.seen, r.use, r.paid, FALSE, r.row)
    <1>2. /\ TypeInv /\ RoadInv /\ CodeInv /\ LimitInv
          /\ r \in OrderType /\ r.todo # <<>> /\ Head(r.todo) = "remove"
          /\ r.code \in BOOLEAN /\ r.use \in BOOLEAN /\ r.paid \in BOOLEAN
          /\ r.made \in BOOLEAN /\ r.row \in BOOLEAN /\ r.seen \in Nat
        BY <1>1, Fields
    <1>3. orders' = [orders EXCEPT ![o] = n]
        BY <1>2, Changes DEF Remove, Does
    <1>4. n \in OrderType
        BY <1>2, Typed
    <1>5. /\ n.flow = r.flow /\ n.code = r.code /\ n.use = r.use /\ n.paid = r.paid
          /\ n.made = FALSE /\ n.row = r.row /\ n.todo = Tail(r.todo)
        BY DEF Next1
    <1>6. GoesBack(r) /\ (o \notin mishaps => Clean(r))
        BY <1>1, <1>2, WhichRoad
    <1> HIDE DEF n
    <1>7. /\ GoesBack(n) /\ (o \notin mishaps' => Clean(n))
          /\ ~Reads(r.flow)
        BY <1>1, <1>2, <1>4, <1>5, <1>6, WentBack
    <1>8. /\ orders' \in [Orders -> OrderType] /\ RoadInv'
          /\ n.use => Holders' = Holders \cup {o}
          /\ ~n.use => Holders' = Holders \ {o}
          /\ Raised' = Raised \ {o}
        BY <1>1, <1>2, <1>3, <1>4, <1>5, <1>7, Replaced DEF OnRoad
    <1>9. Raised' = Raised
        BY <1>7, <1>8 DEF Raised
    <1>10. Holders' = Holders
        BY <1>5, <1>8 DEF Holders
    <1>11. CodeInv' /\ LimitInv'
        BY <1>1, <1>2, <1>9, <1>10 DEF CodeInv, LimitInv
    <1>12. TypeInv'
        BY <1>1, <1>2, <1>8 DEF TypeInv
    <1> QED BY <1>8, <1>11, <1>12 DEF PurchaseInv

LEMMA RestartStep ==
    ASSUME PurchaseInv, Restart
    PROVE  PurchaseInv'
    <1>1. TypeInv /\ RoadInv /\ CodeInv /\ LimitInv
        BY DEF PurchaseInv
    <1>2. /\ orders' = [o \in Orders |-> [orders[o] EXCEPT !.todo = <<>>]]
          /\ mishaps' = mishaps \cup {o \in Orders : Busy(o)}
          /\ UNCHANGED <<wallet, uses, limit, raced>>
        BY DEF Restart
    <1>3. ASSUME NEW o \in Orders
          PROVE  /\ orders'[o] \in OrderType /\ OnRoad(orders'[o], o \in mishaps')
                 /\ orders'[o].use = orders[o].use /\ orders'[o].made = orders[o].made
                 /\ orders'[o].flow = orders[o].flow
        <2> DEFINE r == orders[o]
                   n == [r EXCEPT !.todo = <<>>]
        <2>1. r \in OrderType /\ orders'[o] = n /\ OnRoad(r, o \in mishaps)
            BY <1>1, <1>2 DEF TypeInv, RoadInv
        <2>2. /\ n \in OrderType /\ n.todo = <<>> /\ n.flow = r.flow /\ n.code = r.code
              /\ n.use = r.use /\ n.made = r.made
            <3>1. <<>> \in Seq(StepNames)
                OBVIOUS
            <3> QED BY <2>1, <3>1 DEF OrderType
        <2>3. CASE r.todo = <<>>
            <3>1. n = r
                BY <2>1, <2>3 DEF OrderType
            <3>2. o \in mishaps => o \in mishaps'
                BY <1>2
            <3>3. OnRoad(n, o \in mishaps')
                BY <2>1, <3>1, <3>2 DEF OnRoad
            <3> QED BY <2>1, <2>2, <3>3
        <2>4. CASE r.todo # <<>>
            <3>1. o \in mishaps'
                BY <1>2, <2>4 DEF Busy
            <3>2. r.flow \in FlowNames
                BY <2>1, <2>4 DEF OnRoad, GoesOn, GoesBack, NoOrder
            <3>3. <<>> \in WaysBack /\ <<>> \notin Releases /\ <<>> \notin Removes
                BY NothingLeft
            <3>4. GoesBack(n)
                BY <2>2, <3>2, <3>3 DEF GoesBack
            <3> HIDE DEF n
            <3> QED BY <2>1, <2>2, <3>1, <3>4 DEF OnRoad
        <2> QED BY <2>3, <2>4
    <1>4. Holders' = Holders /\ Raised' = Raised
        BY <1>3 DEF Holders, Raised
    <1>5. CodeInv' /\ LimitInv'
        BY <1>1, <1>2, <1>4 DEF CodeInv, LimitInv
    <1>6. RoadInv'
        BY <1>3 DEF RoadInv
    <1>7. orders' \in [Orders -> OrderType]
        BY <1>2, <1>3
    <1>8. TypeInv'
        BY <1>1, <1>2, <1>7 DEF TypeInv
    <1> QED BY <1>5, <1>6, <1>8 DEF PurchaseInv

-----------------------------------------------------------------------------
(* The theorem.                                                            *)

LEMMA PurchaseInvInit ==
    ASSUME Sizes, Init
    PROVE  PurchaseInv
    <1>1. NoOrder \in OrderType /\ NoOrder.use = FALSE /\ NoOrder.made = FALSE
        <2>1. <<>> \in Seq(StepNames)
            OBVIOUS
        <2> QED BY <2>1 DEF NoOrder, OrderType
    <1>2. \A o \in Orders : orders[o] = NoOrder
        BY DEF Init
    <1>3. TypeInv
        BY <1>1 DEF Init, TypeInv, Sizes
    <1>4. RoadInv
        BY <1>2 DEF RoadInv, OnRoad
    <1>5. Holders = {} /\ Raised = {}
        BY <1>1, <1>2 DEF Holders, Raised
    <1>6. CodeInv /\ LimitInv
        BY <1>5, FS_EmptySet DEF CodeInv, LimitInv, Init, Sizes
    <1> QED BY <1>3, <1>4, <1>6 DEF PurchaseInv

LEMMA PurchaseInvStep ==
    ASSUME Sizes, PurchaseInv, [Next]_vars
    PROVE  PurchaseInv'
    <1>1. ASSUME NEW o \in Orders,
                 \/ Start(o) \/ Check(o) \/ Claim(o) \/ Debit(o) \/ Read(o) \/ Make(o)
                 \/ PanelFails(o) \/ AnswerLost(o) \/ Show(o) \/ ShowFails(o)
                 \/ StoreRow(o) \/ StoreRowFails(o)
                 \/ Refund(o) \/ Release(o) \/ Remove(o) \/ UndoFails(o)
          PROVE  PurchaseInv'
        BY <1>1, StartStep, CheckStep, ClaimStep, DebitStep, ReadStep, MakeStep, FailureSteps,
           AnswerLostStep, ShowStep, StoreRowStep, RefundStep, ReleaseStep, RemoveStep,
           UndoFailsStep
    <1>2. CASE Restart
        BY <1>2, RestartStep
    <1>3. CASE UNCHANGED vars
        BY <1>3 DEF vars, PurchaseInv, TypeInv, RoadInv, CodeInv, LimitInv, Holders, Raised
    <1> QED BY <1>1, <1>2, <1>3 DEF Next

LEMMA WholeOrNothing ==
    ASSUME PurchaseInv
    PROVE  AllOrNothing
    <1> SUFFICES ASSUME NEW o \in Orders, Ended(o), o \notin mishaps
                 PROVE  \/ /\ orders[o].paid /\ orders[o].made /\ orders[o].row
                           /\ orders[o].use = orders[o].code
                        \/ ~orders[o].paid /\ ~orders[o].made /\ ~orders[o].row /\ ~orders[o].use
        BY DEF AllOrNothing
    <1> DEFINE r == orders[o]
    <1>1. r \in OrderType /\ r # NoOrder /\ r.todo = <<>> /\ OnRoad(r, o \in mishaps)
        BY DEF PurchaseInv, TypeInv, RoadInv, Ended, Busy
    <1>2. r.use \in BOOLEAN /\ r.code \in BOOLEAN
        BY <1>1 DEF OrderType
    <1> HIDE DEF r
    <1>3. CASE GoesOn(r)
        <2>1. Len(r.todo) = 0 /\ r.flow \in FlowNames
            BY <1>1, <1>3 DEF GoesOn
        <2>2. 0 < ClaimLeft(r.flow) /\ 0 < DebitLeft(r.flow) /\ 0 < MakeLeft(r.flow)
            BY <2>1, Numbers
        <2> QED BY <1>2, <1>3, <2>1, <2>2 DEF GoesOn, r
    <1>4. CASE Clean(r)
        BY <1>1, <1>4, NothingLeft DEF Clean, r
    <1> QED BY <1>1, <1>3, <1>4 DEF OnRoad

LEMMA PromisesFollow ==
    ASSUME Sizes, PurchaseInv
    PROVE  AllOrNothing /\ RaisedWhenAlone /\ CodeWithinLimit
    <1>1. AllOrNothing
        BY WholeOrNothing
    <1>2. CodeWithinLimit
        BY DEF CodeWithinLimit, PurchaseInv, TypeInv, CodeInv, Holders
    <1>3. ASSUME ~raced, mishaps = {} PROVE Cardinality(Raises) <= limit
        <2>1. IsFiniteSet(Raised) /\ limit = Cardinality(Raised)
            BY <1>3 DEF PurchaseInv, LimitInv
        <2>2. Raises \subseteq Raised
            BY <1>1, <1>3 DEF Raises, Raised, AllOrNothing
        <2> QED BY <2>1, <2>2, FS_Subset
    <1> QED BY <1>1, <1>2, <1>3 DEF RaisedWhenAlone

\* However the orders of a user interleave, fail, are undone and are cut short by restarts: one that
\* met no failure the code leaves alone is paid, made and stored, or has none of it; the orders hold
\* no more uses of the code than were taken, and never more than its limit; and what was paid for is
\* on the data limit unless an order wrote one computed from a limit since replaced.
THEOREM PurchasesKeepFaith ==
    ASSUME Sizes
    PROVE  Spec => [](AllOrNothing /\ RaisedWhenAlone /\ CodeWithinLimit)
    <1>1. Init => PurchaseInv
        BY PurchaseInvInit
    <1>2. PurchaseInv /\ [Next]_vars => PurchaseInv'
        BY PurchaseInvStep
    <1>3. PurchaseInv => AllOrNothing /\ RaisedWhenAlone /\ CodeWithinLimit
        BY PromisesFollow
    <1> QED BY <1>1, <1>2, <1>3, PTL DEF Spec

-----------------------------------------------------------------------------
(***************************************************************************)
(* AdminTransfer, for any number of jobs, users and admins.  One job per   *)
(* source works, so that a user nobody raced for is in one hand, and what  *)
(* a job says of the owner and of the rows of a user it took over stays    *)
(* true unless another job has the user in its copy.                       *)
(***************************************************************************)
CONSTANTS Users, Unlimited, Admins, Homes, Tgs, Jobs, CHUNK
VARIABLES owner, rows, running, job, blind, strayed

\* The users that were raced for and the faults have the names of Purchases.
Move == INSTANCE AdminTransfer

\* The instance brings its own name of the size of a set.
LEMMA MoveCounts == \A S : Move!Cardinality(S) = Cardinality(S)
BY DEF Cardinality, Move!Cardinality

\* The jobs are finitely many, and "none" is neither a Telegram user nor an admin.
TransferAssumptions ==
    /\ IsFiniteSet(Jobs) /\ Homes \subseteq Admins
    /\ Move!None \notin Tgs /\ Move!None \notin Admins

JobPcs == {"idle", "fetch", "check", "chunk", "single", "record", "done", "error", "lost"}
MovedResults == {"moved", "moved_linked", "moved_no_record"}
Results == MovedResults \cup {Move!None, "failed", "conflict", "unlimited"}
JobType ==
    [pc : JobPcs, source : Admins \cup {Move!None}, target : Admins \cup {Move!None}, tg : Tgs \cup {Move!None},
     copy : SUBSET Users, known : SUBSET Users, todo : SUBSET Users, chunk : SUBSET Users,
     moved : SUBSET Users, result : [Users -> Results]]

TransferTypeOK ==
    /\ owner \in [Users -> Admins]
    /\ rows \in [Users -> [Tgs -> Nat]]
    /\ job \in [Jobs -> JobType]
    /\ raced \in SUBSET Users /\ blind \in SUBSET Users /\ strayed \in SUBSET Users

\* The users a job has in hand, and those it took over.
Held(r) == r.todo \cup r.chunk
Took(r, u) == r.result[u] \in MovedResults \/ u \in r.moved
Works(r) == r.pc \in {"fetch", "check", "chunk", "single", "record"}

\* What a job knows of its users, by how far it is.
JobOK(r) ==
    /\ Works(r) => r.source \in Admins /\ r.target \in Admins /\ r.tg \in Tgs
    /\ r.pc = "lost" => r.source = Move!None
    /\ r.tg \in Tgs \/ (r.known = {} /\ \A u \in Users : r.result[u] = Move!None)
    /\ Held(r) \subseteq r.copy /\ r.todo \cap r.chunk = {}
    /\ \A u \in r.todo : r.result[u] = Move!None
    /\ r.pc \in {"idle", "fetch"} => r.copy = {}
    /\ r.pc \in {"idle", "fetch", "check", "chunk", "done"} => r.chunk = {} /\ r.moved = {}
    /\ r.pc \in {"idle", "fetch", "check", "done", "error", "lost"} => Held(r) = {}
    /\ r.pc \in {"idle", "fetch", "check"} => \A u \in Users : r.result[u] = Move!None
    /\ r.pc \in {"chunk", "single", "record", "done"} =>
           \A u \in r.copy : r.result[u] = Move!None => u \in Held(r)
    /\ r.pc = "single" =>
           /\ r.moved \subseteq r.chunk
           /\ \A u \in r.chunk : r.result[u] \in {Move!None, "failed"}
           /\ \A u \in r.moved : r.result[u] = Move!None
    /\ r.pc = "record" =>
           /\ r.chunk \subseteq r.moved
           /\ \A u \in r.chunk : r.result[u] = Move!None
           /\ \A u \in r.moved \ r.chunk : r.result[u] \in MovedResults

JobsOK == \A j \in Jobs : JobOK(job[j])

\* One job per source works.
OnePerSource ==
    /\ \A j \in Jobs : Works(job[j]) => job[j].source \in running
    /\ \A j, k \in Jobs : Works(job[j]) /\ Works(job[k]) /\ j # k => job[j].source # job[k].source

\* A user that nobody raced for and whose look-up worked is in one hand, and a job that
\* knows no row of a user is right.
Exclusive ==
    \A j \in Jobs : \A u \in Held(job[j]) \ (raced \cup blind) :
        /\ \A k \in Jobs : u \in Held(job[k]) => k = j
        /\ u \notin job[j].known => \A g \in Tgs : rows[u][g] = 0

OneRow ==
    \A u \in Users \ (raced \cup blind) : \A g, h \in Tgs :
        /\ rows[u][g] <= 1
        /\ Move!HasRow(u, g) /\ Move!HasRow(u, h) => g = h

\* What a job says of the rows and of the owners.
RowsKnown ==
    \A j \in Jobs : \A u \in Users :
        u \in job[j].known \/ job[j].result[u] \in {"moved", "moved_linked"} =>
            Move!HasRow(u, job[j].tg)

Excuses(j, u) == u \in strayed \/ \E k \in Jobs \ {j} : u \in job[k].copy
OwnersKnown ==
    \A j \in Jobs : job[j].pc \in {"check", "chunk", "single", "record", "done"} =>
        \A u \in job[j].copy :
            \/ owner[u] = (IF Took(job[j], u) THEN job[j].target ELSE job[j].source)
            \/ Excuses(j, u)

TransferInv ==
    /\ TransferTypeOK /\ JobsOK /\ OnePerSource /\ Exclusive /\ OneRow /\ RowsKnown
    /\ OwnersKnown

-----------------------------------------------------------------------------
\* One job changes.
LEMMA JobChanged ==
    ASSUME job \in [Jobs -> JobType], JobsOK, NEW j \in Jobs, NEW r \in JobType, JobOK(r),
           job' = [job EXCEPT ![j] = r]
    PROVE  /\ job' \in [Jobs -> JobType] /\ JobsOK'
           /\ job'[j] = r /\ \A k \in Jobs \ {j} : job'[k] = job[k]
<1>1. /\ job' \in [Jobs -> JobType]
      /\ job'[j] = r /\ \A k \in Jobs \ {j} : job'[k] = job[k]
  OBVIOUS
<1>2. JobsOK'
  <2> SUFFICES ASSUME NEW k \in Jobs PROVE JobOK(job'[k])
    BY DEF JobsOK
  <2>1. CASE k = j
    BY <1>1, <2>1
  <2>2. CASE k # j
    BY <1>1, <2>2 DEF JobsOK
  <2> QED
    BY <2>1, <2>2
<1> QED
  BY <1>1, <1>2

\* It works for the source it worked for.
LEMMA SourceKept ==
    ASSUME job \in [Jobs -> JobType], OnePerSource, NEW j \in Jobs, NEW r \in JobType,
           job' = [job EXCEPT ![j] = r], running \subseteq running',
           Works(r) => Works(job[j]) /\ r.source = job[j].source
    PROVE  OnePerSource'
<1>1. job'[j] = r /\ \A k \in Jobs \ {j} : job'[k] = job[k]
  OBVIOUS
<1>2. \A k \in Jobs : Works(job'[k]) => Works(job[k]) /\ job'[k].source = job[k].source
  BY <1>1
<1> QED
  BY <1>2 DEF OnePerSource

\* It takes no further user in hand.
LEMMA HandKept ==
    ASSUME job \in [Jobs -> JobType], Exclusive, NEW j \in Jobs, NEW r \in JobType,
           job' = [job EXCEPT ![j] = r], rows' = rows,
           raced \subseteq raced', blind \subseteq blind',
           \A u \in Held(r) : u \in Held(job[j]) /\ (u \in job[j].known => u \in r.known)
    PROVE  Exclusive'
<1>1. job'[j] = r /\ \A k \in Jobs \ {j} : job'[k] = job[k]
  OBVIOUS
<1>2. \A k \in Jobs : \A u \in Held(job'[k]) :
          u \in Held(job[k]) /\ (u \in job[k].known => u \in job'[k].known)
  BY <1>1
<1> QED
  BY <1>2 DEF Exclusive

LEMMA RowsStay ==
    ASSUME OneRow, rows' = rows, raced \subseteq raced', blind \subseteq blind'
    PROVE  OneRow'
BY DEF OneRow, Move!HasRow

\* What it says of the rows is so.
LEMMA RowsStayKnown ==
    ASSUME job \in [Jobs -> JobType], RowsKnown, NEW j \in Jobs, NEW r \in JobType,
           job' = [job EXCEPT ![j] = r], rows' = rows,
           \A u \in Users : u \in r.known \/ r.result[u] \in {"moved", "moved_linked"} =>
               Move!HasRow(u, r.tg)
    PROVE  RowsKnown'
<1>1. job'[j] = r /\ \A k \in Jobs \ {j} : job'[k] = job[k]
  OBVIOUS
<1> SUFFICES ASSUME NEW k \in Jobs, NEW u \in Users,
                    u \in job'[k].known \/ job'[k].result[u] \in {"moved", "moved_linked"}
             PROVE  rows[u][job'[k].tg] > 0
  BY DEF RowsKnown, Move!HasRow
<1>2. CASE k = j
  BY <1>1, <1>2 DEF Move!HasRow
<1>3. CASE k # j
  BY <1>1, <1>3 DEF RowsKnown, Move!HasRow
<1> QED
  BY <1>2, <1>3

\* It moves its own users only, and knows which.
Knows(j, r, there, astray) ==
    r.pc \in {"check", "chunk", "single", "record", "done"} =>
        \A u \in r.copy :
            \/ there[u] = (IF Took(r, u) THEN r.target ELSE r.source)
            \/ u \in astray \/ \E k \in Jobs \ {j} : u \in job[k].copy

LEMMA OwnersStayKnown ==
    ASSUME job \in [Jobs -> JobType], OwnersKnown, NEW j \in Jobs, NEW r \in JobType,
           job' = [job EXCEPT ![j] = r], strayed \subseteq strayed', job[j].copy \subseteq r.copy,
           \A u \in Users \ r.copy : owner'[u] = owner[u],
           Knows(j, r, owner', strayed')
    PROVE  OwnersKnown'
<1>1. job'[j] = r /\ \A k \in Jobs \ {j} : job'[k] = job[k]
  OBVIOUS
<1> SUFFICES ASSUME NEW k \in Jobs, NEW u \in job'[k].copy,
                    job'[k].pc \in {"check", "chunk", "single", "record", "done"}
             PROVE  \/ owner'[u] = (IF Took(job'[k], u) THEN job'[k].target
                                                      ELSE job'[k].source)
                    \/ u \in strayed' \/ \E i \in Jobs \ {k} : u \in job'[i].copy
  BY DEF OwnersKnown, Excuses
<1>2. CASE k = j
  BY <1>1, <1>2 DEF Knows
<1>3. CASE k # j
  <2>1. job'[k] = job[k]
    BY <1>1, <1>3
  <2>2. \/ owner[u] = (IF Took(job[k], u) THEN job[k].target ELSE job[k].source)
        \/ u \in strayed \/ \E i \in Jobs \ {k} : u \in job[i].copy
    BY <2>1 DEF OwnersKnown, Excuses
  <2>3. (\E i \in Jobs \ {k} : u \in job[i].copy) => \E i \in Jobs \ {k} : u \in job'[i].copy
    BY <1>1
  <2>4. CASE u \in r.copy
    BY <1>1, <1>3, <2>4
  <2>5. CASE u \notin r.copy
    <3>1. u \in Users
      BY <2>1 DEF JobType
    <3> QED
      BY <2>1, <2>2, <2>3, <2>5, <3>1
  <2> QED
    BY <2>4, <2>5
<1> QED
  BY <1>2, <1>3

\* The step of a job that works on.
LEMMA WorksOn ==
    ASSUME TransferInv, NEW j \in Jobs, NEW r \in JobType, JobOK(r),
           job' = [job EXCEPT ![j] = r], rows' = rows, raced' = raced, blind' = blind,
           owner' \in [Users -> Admins], strayed' \in SUBSET Users,
           OnePerSource',
           \A u \in Held(r) : u \in Held(job[j]) /\ (u \in job[j].known => u \in r.known),
           \A u \in Users : u \in r.known \/ r.result[u] \in {"moved", "moved_linked"} =>
               Move!HasRow(u, r.tg),
           strayed \subseteq strayed', job[j].copy \subseteq r.copy,
           \A u \in Users \ r.copy : owner'[u] = owner[u],
           Knows(j, r, owner', strayed')
    PROVE  TransferInv'
<1> USE DEF TransferInv, TransferTypeOK
<1>1. job' \in [Jobs -> JobType] /\ JobsOK'
  BY JobChanged
<1>2. Exclusive'
  BY HandKept
<1>3. OneRow'
  BY RowsStay
<1>4. RowsKnown'
  BY RowsStayKnown
<1>5. OwnersKnown'
  BY OwnersStayKnown
<1>6. TransferTypeOK'
  BY <1>1
<1> QED
  BY <1>1, <1>2, <1>3, <1>4, <1>5, <1>6

-----------------------------------------------------------------------------
LEMMA TransferInitOK == TransferAssumptions /\ Move!Init => TransferInv
<1> SUFFICES ASSUME TransferAssumptions, Move!Init PROVE TransferInv
  OBVIOUS
<1>1. Move!NoJob \in JobType
  BY DEF Move!NoJob, JobType, JobPcs, Results, Move!None
<1>2. job \in [Jobs -> JobType] /\ \A j \in Jobs : job[j] = Move!NoJob
  BY <1>1 DEF Move!Init
<1>3. TransferTypeOK
  <2>1. owner \in [Users -> Admins]
    BY DEF Move!Init, TransferAssumptions
  <2>2. rows \in [Users -> [Tgs -> Nat]]
    BY DEF Move!Init
  <2> QED
    BY <1>2, <2>1, <2>2 DEF TransferTypeOK, Move!Init
<1>4. JobsOK
  BY <1>2 DEF JobsOK, JobOK, Move!NoJob, Held, Works
<1>5. \A j \in Jobs : Held(job[j]) = {} /\ ~ Works(job[j])
  BY <1>2 DEF Held, Works, Move!NoJob
<1>6. OnePerSource /\ Exclusive
  BY <1>5 DEF OnePerSource, Exclusive
<1>7. OneRow
  <2>1. PICK one \in Users, g0 \in Tgs, n \in 0..1 :
           rows = [u \in Users |-> [h \in Tgs |-> IF u = one /\ h = g0 THEN n ELSE 0]]
    BY DEF Move!Init
  <2> QED
    BY <2>1 DEF OneRow, Move!HasRow
<1>8. RowsKnown
  BY <1>2 DEF RowsKnown, Move!NoJob, Move!None
<1>9. OwnersKnown
  BY <1>2 DEF OwnersKnown, Move!NoJob
<1> QED
  BY <1>3, <1>4, <1>6, <1>7, <1>8, <1>9 DEF TransferInv

-----------------------------------------------------------------------------
LEMMA FetchKeeps == \A j \in Jobs : TransferInv /\ Move!Fetch(j) => TransferInv'
<1> SUFFICES ASSUME NEW j \in Jobs, TransferInv, Move!Fetch(j) PROVE TransferInv'
  OBVIOUS
<1> DEFINE r == [job[j] EXCEPT !.pc = "check", !.copy = {u \in Users : owner[u] = job[j].source}]
<1>1. job[j] \in JobType /\ JobOK(job[j]) /\ job[j].pc = "fetch"
  BY DEF TransferInv, TransferTypeOK, JobsOK, Move!Fetch
<1>2. /\ r \in JobType /\ job' = [job EXCEPT ![j] = r]
      /\ r.pc = "check" /\ r.copy = {u \in Users : owner[u] = job[j].source}
      /\ r.source = job[j].source /\ r.target = job[j].target /\ r.tg = job[j].tg
      /\ r.known = job[j].known /\ r.todo = job[j].todo /\ r.chunk = job[j].chunk
      /\ r.moved = job[j].moved /\ r.result = job[j].result
  <2>1. r \in JobType
    BY <1>1 DEF JobType, JobPcs
  <2>2. job' = [job EXCEPT ![j] = r]
    BY <1>1 DEF Move!Fetch, TransferInv, TransferTypeOK, JobType
  <2> QED
    BY <1>1, <2>1, <2>2 DEF JobType
<1> HIDE DEF r
<1>3. JobOK(r)
  BY <1>1, <1>2 DEF JobOK, Held, Works
<1>4. OnePerSource'
  BY <1>1, <1>2, SourceKept DEF Works, TransferInv, TransferTypeOK, Move!Fetch
<1>5. \A u \in Held(r) : u \in Held(job[j]) /\ (u \in job[j].known => u \in r.known)
  BY <1>2 DEF Held
<1>6. \A u \in Users : u \in r.known \/ r.result[u] \in {"moved", "moved_linked"} =>
          Move!HasRow(u, r.tg)
  BY <1>2 DEF TransferInv, RowsKnown
<1>7. Knows(j, r, owner', strayed')
  <2>1. \A u \in r.copy : ~ Took(r, u) /\ owner'[u] = r.source
    BY <1>1, <1>2 DEF Took, JobOK, MovedResults, Move!None, Move!Fetch
  <2> QED
    BY <2>1 DEF Knows
<1>8. job[j].copy \subseteq r.copy
  BY <1>1 DEF JobOK
<1> QED
  BY <1>2, <1>3, <1>4, <1>5, <1>6, <1>7, <1>8, WorksOn
  DEF Move!Fetch, TransferInv, TransferTypeOK

LEMMA StartKeeps ==
    \A j \in Jobs : TransferAssumptions /\ TransferInv /\ Move!Start(j) => TransferInv'
<1> SUFFICES ASSUME NEW j \in Jobs, TransferAssumptions, TransferInv, Move!Start(j)
             PROVE  TransferInv'
  OBVIOUS
<1>0. PICK s \in Admins, a \in Admins, g \in Tgs :
         /\ s \notin running /\ running' = running \cup {s}
         /\ job' = [job EXCEPT ![j] = [Move!NoJob EXCEPT !.pc = "fetch", !.source = s, !.target = a,
                                                              !.tg = g]]
  BY DEF Move!Start
<1> DEFINE r == [Move!NoJob EXCEPT !.pc = "fetch", !.source = s, !.target = a, !.tg = g]
<1>1. job[j] \in JobType /\ JobOK(job[j]) /\ job[j].pc = "idle"
  BY DEF TransferInv, TransferTypeOK, JobsOK, Move!Start
<1>2. /\ r \in JobType /\ job' = [job EXCEPT ![j] = r]
      /\ r.pc = "fetch" /\ r.source = s /\ r.target = a /\ r.tg = g
      /\ r.copy = {} /\ r.known = {} /\ r.todo = {} /\ r.chunk = {} /\ r.moved = {}
      /\ \A u \in Users : r.result[u] = Move!None
  BY <1>0 DEF Move!NoJob, JobType, JobPcs, Results
<1> HIDE DEF r
<1>3. JobOK(r)
  BY <1>2 DEF JobOK, Held, Works
<1>4. OnePerSource'
  <2>1. job'[j] = r /\ \A k \in Jobs \ {j} : job'[k] = job[k]
    BY <1>2 DEF TransferInv, TransferTypeOK
  <2>2. \A k \in Jobs \ {j} : Works(job[k]) => job[k].source \in running
    BY DEF TransferInv, OnePerSource
  <2>3. \A k \in Jobs : Works(job'[k]) => job'[k].source \in running'
    BY <1>0, <1>2, <2>1, <2>2
  <2>4. \A k, i \in Jobs : Works(job'[k]) /\ Works(job'[i]) /\ k # i =>
            job'[k].source # job'[i].source
    BY <1>0, <1>2, <2>1, <2>2 DEF TransferInv, OnePerSource
  <2> QED
    BY <2>3, <2>4 DEF OnePerSource
<1>5. \A u \in Held(r) : u \in Held(job[j]) /\ (u \in job[j].known => u \in r.known)
  BY <1>2 DEF Held
<1>6. \A u \in Users : u \in r.known \/ r.result[u] \in {"moved", "moved_linked"} =>
          Move!HasRow(u, r.tg)
  BY <1>2 DEF Move!None
<1>7. Knows(j, r, owner', strayed')
  BY <1>2 DEF Knows
<1>8. job[j].copy \subseteq r.copy
  BY <1>1 DEF JobOK
<1> QED
  BY <1>2, <1>3, <1>4, <1>5, <1>6, <1>7, <1>8, WorksOn
  DEF Move!Start, TransferInv, TransferTypeOK

\* Nobody is in two hands after the look-up unless both jobs were there already, and a
\* user whose rows were read and are not known has none.
LEMMA CheckKeeps ==
    \A j \in Jobs : TransferAssumptions /\ TransferInv /\ Move!Check(j) => TransferInv'
<1> SUFFICES ASSUME NEW j \in Jobs, TransferAssumptions, TransferInv, Move!Check(j)
             PROVE  TransferInv'
  OBVIOUS
<1>0. PICK read \in BOOLEAN, kept \in [Users -> Tgs \cup {Move!None}] :
         /\ IF read THEN UNCHANGED <<faults, blind>>
                    ELSE Move!Mishap /\ blind' = blind \cup job[j].copy
         /\ \A u \in Users :
              IF read /\ u \in job[j].copy /\ Move!Linked(u) # {} THEN kept[u] \in Move!Linked(u)
                                                                      ELSE kept[u] = Move!None
         /\ LET limited == job[j].copy \ Unlimited
                foreign == {u \in limited : kept[u] \notin {Move!None, job[j].tg}}
            IN  job' = [job EXCEPT
                  ![j].pc = "chunk",
                  ![j].todo = limited \ foreign,
                  ![j].known = {u \in limited : kept[u] = job[j].tg},
                  ![j].result = [u \in Users |->
                     IF u \in foreign THEN "conflict"
                     ELSE IF u \in job[j].copy \cap Unlimited THEN "unlimited" ELSE Move!None]]
  BY DEF Move!Check
<1> DEFINE limited == job[j].copy \ Unlimited
           foreign == {u \in limited : kept[u] \notin {Move!None, job[j].tg}}
           known == {u \in limited : kept[u] = job[j].tg}
           result == [u \in Users |->
                        IF u \in foreign THEN "conflict"
                        ELSE IF u \in job[j].copy \cap Unlimited THEN "unlimited" ELSE Move!None]
           r == [job[j] EXCEPT !.pc = "chunk", !.todo = limited \ foreign, !.known = known,
                               !.result = result]
<1>1. job[j] \in JobType /\ JobOK(job[j]) /\ job[j].pc = "check" /\ job \in [Jobs -> JobType]
  BY DEF TransferInv, TransferTypeOK, JobsOK, Move!Check
<1>2. /\ r \in JobType /\ job' = [job EXCEPT ![j] = r]
      /\ r.pc = "chunk" /\ r.copy = job[j].copy
      /\ r.source = job[j].source /\ r.target = job[j].target /\ r.tg = job[j].tg
      /\ r.known = known /\ r.todo = limited \ foreign /\ r.chunk = job[j].chunk
      /\ r.moved = job[j].moved /\ r.result = result
  <2>1. result \in [Users -> Results]
    BY DEF Results
  <2>2. known \in SUBSET Users /\ limited \ foreign \in SUBSET Users
    BY <1>1 DEF JobType
  <2>3. job' = [job EXCEPT ![j] = r]
    BY <1>0, <1>1 DEF JobType
  <2> HIDE DEF result, known, limited, foreign
  <2>4. r \in JobType
    BY <1>1, <2>1, <2>2 DEF JobType, JobPcs
  <2> QED
    BY <1>1, <2>1, <2>2, <2>3, <2>4 DEF JobType
<1>3. \A u \in Users : result[u] =
         (IF u \in foreign THEN "conflict"
          ELSE IF u \in job[j].copy \cap Unlimited THEN "unlimited" ELSE Move!None)
  OBVIOUS
<1>4. job[j].copy \subseteq Users /\ foreign \subseteq limited /\ limited \subseteq job[j].copy
  BY <1>1 DEF JobType
<1>4a. \A u \in job[j].copy : u \in limited \/ u \in job[j].copy \cap Unlimited
  OBVIOUS
<1>4b. \A u \in limited : u \notin Unlimited
  OBVIOUS
<1>5. \A u \in limited \ foreign : kept[u] \in {Move!None, job[j].tg}
  OBVIOUS
<1>6. \A u \in limited : u \in known <=> kept[u] = job[j].tg
  OBVIOUS
<1>7. known \subseteq limited
  OBVIOUS
<1> HIDE DEF r, result, known, foreign, limited
<1>8. job[j].chunk = {} /\ job[j].moved = {} /\ job[j].tg \in Tgs /\ Held(job[j]) = {}
  BY <1>1 DEF JobOK, Works
<1>9. Held(r) = limited \ foreign
  BY <1>2, <1>8 DEF Held
<1>10. JobOK(r)
  <2>1. \A u \in r.todo : r.result[u] = Move!None
    BY <1>2, <1>3, <1>4, <1>4b
  <2>2. \A u \in r.copy : r.result[u] = Move!None => u \in Held(r)
    BY <1>2, <1>3, <1>4, <1>4a, <1>9, Move!None # "conflict", Move!None # "unlimited" DEF Move!None
  <2> QED
    BY <1>1, <1>2, <1>4, <1>8, <1>9, <2>1, <2>2 DEF JobOK, Works
<1>11. job' \in [Jobs -> JobType] /\ JobsOK'
       /\ job'[j] = r /\ \A k \in Jobs \ {j} : job'[k] = job[k]
  BY <1>1, <1>2, <1>10, JobChanged DEF TransferInv
<1>12. OnePerSource'
  BY <1>1, <1>2, SourceKept DEF Works, TransferInv, TransferTypeOK, Move!Check
<1>13. /\ raced' = raced \cup {u \in job[j].copy : Move!Busy(j, u)}
       /\ blind \subseteq blind' /\ rows' = rows /\ owner' = owner /\ strayed' = strayed
       /\ read \/ blind' = blind \cup job[j].copy
  BY <1>0 DEF Move!Check
<1>14. Exclusive'
  <2> SUFFICES ASSUME NEW k \in Jobs, NEW u \in Held(job'[k]) \ (raced' \cup blind')
               PROVE  /\ \A i \in Jobs : u \in Held(job'[i]) => i = k
                      /\ u \notin job'[k].known => \A g \in Tgs : rows'[u][g] = 0
    BY DEF Exclusive
  <2>1. \A i \in Jobs \ {j} : ~ (u \in Held(job'[i]) /\ u \in Held(r))
    <3> SUFFICES ASSUME NEW i \in Jobs \ {j}, u \in Held(job[i]), u \in Held(r)
                 PROVE  FALSE
      BY <1>11
    <3>1. Works(job[i]) /\ Works(job[j])
      <4>1. JobOK(job[i]) /\ job[i] \in JobType
        BY <1>1 DEF TransferInv, JobsOK
      <4> QED
        BY <1>1, <4>1 DEF JobOK, Works, JobType, JobPcs
    <3>2. job[i].source # job[j].source
      BY <3>1 DEF TransferInv, OnePerSource
    <3>3. Move!Busy(j, u)
      BY <3>2 DEF Move!Busy, Held
    <3> QED
      BY <1>4, <1>9, <1>13, <3>3
  <2>2. CASE k = j
    <3>1. u \in Held(r) /\ u \in limited \ foreign /\ u \in Users
      BY <1>4, <1>9, <1>11, <2>2
    <3>2. read /\ u \in job[j].copy
      BY <1>4, <1>13, <3>1
    <3>3. u \notin known => \A g \in Tgs : rows[u][g] = 0
      <4> SUFFICES ASSUME u \notin known, NEW g \in Tgs PROVE rows[u][g] = 0
        OBVIOUS
      <4>1. kept[u] = Move!None
        BY <1>5, <1>6, <3>1
      <4>2. g \notin Move!Linked(u)
        BY <1>0, <3>1, <3>2, <4>1 DEF Move!Linked, TransferAssumptions
      <4>3. rows[u][g] \in Nat
        BY <3>1 DEF TransferInv, TransferTypeOK
      <4> QED
        BY <4>2, <4>3 DEF Move!Linked, Move!HasRow
    <3> QED
      BY <1>2, <1>11, <1>13, <2>1, <2>2, <3>1, <3>3
  <2>3. CASE k # j
    <3>1. u \in Held(job[k]) /\ job'[k] = job[k] /\ u \notin raced \cup blind
      BY <1>11, <1>13, <2>3
    <3>2. \A i \in Jobs : u \in Held(job[i]) => i = k
      BY <3>1 DEF TransferInv, Exclusive
    <3>3. u \notin job[k].known => \A g \in Tgs : rows[u][g] = 0
      BY <3>1 DEF TransferInv, Exclusive
    <3> QED
      BY <1>11, <1>13, <2>1, <2>3, <3>1, <3>2, <3>3
  <2> QED
    BY <2>2, <2>3
<1>15. OneRow'
  BY <1>13, RowsStay DEF TransferInv
<1>16. RowsKnown'
  <2>1. \A u \in Users : r.result[u] \notin {"moved", "moved_linked"}
    BY <1>2, <1>3 DEF Move!None
  <2>2. \A u \in Users : u \in known => Move!HasRow(u, r.tg)
    <3> SUFFICES ASSUME NEW u \in Users, u \in known PROVE Move!HasRow(u, job[j].tg)
      BY <1>2
    <3>1. kept[u] = job[j].tg /\ kept[u] # Move!None
      BY <1>6, <1>7, <1>8 DEF TransferAssumptions
    <3>2. kept[u] \in Move!Linked(u)
      BY <1>0, <3>1
    <3> QED
      BY <3>1, <3>2 DEF Move!Linked
  <2> QED
    BY <1>1, <1>2, <1>13, <2>1, <2>2, RowsStayKnown DEF TransferInv
<1>17. OwnersKnown'
  <2>1. \A u \in Users : ~ Took(r, u) /\ ~ Took(job[j], u)
    BY <1>1, <1>2, <1>3, <1>8 DEF Took, JobOK, MovedResults, Move!None
  <2>2. Knows(j, r, owner', strayed')
    BY <1>1, <1>2, <1>4, <1>13, <2>1 DEF Knows, TransferInv, OwnersKnown, Excuses
  <2> QED
    BY <1>1, <1>2, <1>13, <2>2, OwnersStayKnown DEF TransferInv
<1>18. TransferTypeOK'
  <2>1. raced' \in SUBSET Users
    BY <1>4, <1>13 DEF TransferInv, TransferTypeOK
  <2>2. blind' \in SUBSET Users
    BY <1>0, <1>4 DEF TransferInv, TransferTypeOK
  <2> QED
    BY <1>11, <1>13, <2>1, <2>2 DEF TransferInv, TransferTypeOK
<1> QED
  BY <1>11, <1>12, <1>14, <1>15, <1>16, <1>17, <1>18 DEF TransferInv

\* A chunk: who was taken over and not reported has strayed.
LEMMA ChunkKeeps == \A j \in Jobs : TransferInv /\ Move!Chunk(j) => TransferInv'
<1> SUFFICES ASSUME NEW j \in Jobs, TransferInv, Move!Chunk(j) PROVE TransferInv'
  OBVIOUS
<1>0. PICK c \in SUBSET job[j].todo : \E m \in SUBSET c, told \in BOOLEAN :
         /\ IF Move!Cardinality(job[j].todo) <= CHUNK THEN c = job[j].todo
            ELSE Move!Cardinality(c) = CHUNK
         /\ IF told /\ m = c THEN UNCHANGED faults ELSE Move!Mishap
         /\ owner' = [u \in Users |-> IF u \in m THEN job[j].target ELSE owner[u]]
         /\ strayed' = strayed \cup IF told THEN {} ELSE m
         /\ job' = [job EXCEPT ![j].pc = "single", ![j].chunk = c, ![j].todo = @ \ c,
                               ![j].moved = IF told THEN m ELSE {}]
  BY Zenon DEF Move!Chunk
<1>0a. PICK m \in SUBSET c, told \in BOOLEAN :
         /\ owner' = [u \in Users |-> IF u \in m THEN job[j].target ELSE owner[u]]
         /\ strayed' = strayed \cup IF told THEN {} ELSE m
         /\ job' = [job EXCEPT ![j].pc = "single", ![j].chunk = c, ![j].todo = @ \ c,
                               ![j].moved = IF told THEN m ELSE {}]
  BY <1>0
<1> DEFINE moved == IF told THEN m ELSE {}
           r == [job[j] EXCEPT !.pc = "single", !.chunk = c, !.todo = job[j].todo \ c,
                               !.moved = moved]
<1>1. job[j] \in JobType /\ JobOK(job[j]) /\ job[j].pc = "chunk" /\ job \in [Jobs -> JobType]
  BY DEF TransferInv, TransferTypeOK, JobsOK, Move!Chunk
<1>2. /\ r \in JobType /\ job' = [job EXCEPT ![j] = r]
      /\ r.pc = "single" /\ r.copy = job[j].copy
      /\ r.source = job[j].source /\ r.target = job[j].target /\ r.tg = job[j].tg
      /\ r.known = job[j].known /\ r.todo = job[j].todo \ c /\ r.chunk = c
      /\ r.moved = moved /\ r.result = job[j].result
  <2>1. c \in SUBSET Users /\ moved \in SUBSET Users
    BY <1>1 DEF JobType
  <2>2. job' = [job EXCEPT ![j] = r]
    BY <1>0a, <1>1 DEF JobType
  <2>3. r \in JobType
    BY <1>1, <2>1 DEF JobType, JobPcs
  <2> QED
    BY <1>1, <2>2, <2>3 DEF JobType
<1>2a. moved \subseteq c /\ strayed' = strayed \cup (m \ moved) /\ moved \subseteq m
  BY <1>0a
<1> HIDE DEF r, moved
<1>3. /\ job[j].chunk = {} /\ job[j].moved = {} /\ \A u \in job[j].todo : job[j].result[u] = Move!None
      /\ job[j].copy \subseteq Users /\ c \subseteq job[j].todo /\ m \subseteq c
      /\ job[j].todo \subseteq job[j].copy /\ Works(job[j]) /\ job[j].target \in Admins
  BY <1>1 DEF JobOK, JobType, Held, Works
<1>4. Held(r) = Held(job[j])
  BY <1>2, <1>3 DEF Held
<1>5. JobOK(r)
  BY <1>1, <1>2, <1>2a, <1>3, <1>4 DEF JobOK, Works
<1>6. OnePerSource'
  BY <1>1, <1>2, <1>3, SourceKept DEF TransferInv, Move!Chunk
<1>7. \A u \in Users : u \in r.known \/ r.result[u] \in {"moved", "moved_linked"} =>
          Move!HasRow(u, r.tg)
  BY <1>2 DEF TransferInv, RowsKnown
<1>8. owner' \in [Users -> Admins] /\ \A u \in Users \ r.copy : owner'[u] = owner[u]
  <2>1. owner \in [Users -> Admins]
    BY DEF TransferInv, TransferTypeOK
  <2> QED
    BY <1>0a, <1>2, <1>3, <2>1
<1>9. strayed' \in SUBSET Users /\ strayed \subseteq strayed'
  BY <1>2a, <1>3 DEF TransferInv, TransferTypeOK
<1>10. Knows(j, r, owner', strayed')
  <2> SUFFICES ASSUME NEW u \in job[j].copy
               PROVE  \/ owner'[u] = (IF Took(r, u) THEN job[j].target ELSE job[j].source)
                      \/ u \in strayed' \/ \E k \in Jobs \ {j} : u \in job[k].copy
    BY <1>2 DEF Knows
  <2>1. \/ owner[u] = (IF Took(job[j], u) THEN job[j].target ELSE job[j].source)
        \/ u \in strayed \/ \E k \in Jobs \ {j} : u \in job[k].copy
    BY <1>1 DEF TransferInv, OwnersKnown, Excuses
  <2>2. Took(r, u) <=> Took(job[j], u) \/ u \in moved
    BY <1>2, <1>3 DEF Took
  <2>3. u \in Users
    BY <1>3
  <2>4. CASE u \in moved
    BY <1>0a, <1>2a, <2>2, <2>3, <2>4
  <2>5. CASE u \in m \ moved
    BY <1>2a, <2>5
  <2>6. CASE u \notin m
    BY <1>0a, <1>2a, <2>1, <2>2, <2>3, <2>6
  <2> QED
    BY <2>4, <2>5, <2>6
<1>11. \A u \in Held(r) : u \in Held(job[j]) /\ (u \in job[j].known => u \in r.known)
  BY <1>2, <1>4
<1> QED
  BY <1>2, <1>5, <1>6, <1>7, <1>8, <1>9, <1>10, <1>11, WorksOn DEF Move!Chunk

\* A user whose own call is reported as failed may have moved: then it has strayed.
LEMMA SingleKeeps == \A j \in Jobs : TransferInv /\ Move!Single(j) => TransferInv'
<1> SUFFICES ASSUME NEW j \in Jobs, TransferInv, Move!Single(j) PROVE TransferInv'
  OBVIOUS
<1>0. PICK u \in job[j].chunk \ job[j].moved :
         /\ job[j].result[u] = Move!None
         /\ \/ /\ owner' = [owner EXCEPT ![u] = job[j].target]
               /\ job' = [job EXCEPT ![j].moved = @ \cup {u}]
               /\ UNCHANGED <<strayed, faults>>
            \/ /\ Move!Mishap
               /\ \E took \in BOOLEAN :
                    /\ owner' = [owner EXCEPT ![u] = IF took THEN job[j].target ELSE @]
                    /\ strayed' = strayed \cup IF took THEN {u} ELSE {}
               /\ job' = [job EXCEPT ![j].result[u] = "failed"]
  BY DEF Move!Single
<1>1. job[j] \in JobType /\ JobOK(job[j]) /\ job[j].pc = "single" /\ job \in [Jobs -> JobType]
  BY DEF TransferInv, TransferTypeOK, JobsOK, Move!Single
<1>2. /\ u \in Users /\ u \in job[j].copy /\ Works(job[j]) /\ job[j].target \in Admins
      /\ owner \in [Users -> Admins] /\ strayed \in SUBSET Users /\ ~ Took(job[j], u)
      /\ job[j].copy \subseteq Users
  BY <1>0, <1>1 DEF JobOK, JobType, Held, Works, TransferInv, TransferTypeOK, Took, Move!None,
     MovedResults
<1>2a. rows' = rows /\ raced' = raced /\ blind' = blind /\ running' = running
  BY DEF Move!Single
<1>3. \A w \in job[j].copy :
          \/ owner[w] = (IF Took(job[j], w) THEN job[j].target ELSE job[j].source)
          \/ w \in strayed \/ \E k \in Jobs \ {j} : w \in job[k].copy
  BY <1>1 DEF TransferInv, OwnersKnown, Excuses
<1>4. CASE /\ owner' = [owner EXCEPT ![u] = job[j].target]
           /\ job' = [job EXCEPT ![j].moved = @ \cup {u}]
           /\ UNCHANGED <<strayed, faults>>
  <2> DEFINE r == [job[j] EXCEPT !.moved = job[j].moved \cup {u}]
  <2>1. /\ r \in JobType /\ job' = [job EXCEPT ![j] = r]
        /\ r.pc = "single" /\ r.copy = job[j].copy
        /\ r.source = job[j].source /\ r.target = job[j].target /\ r.tg = job[j].tg
        /\ r.known = job[j].known /\ r.todo = job[j].todo /\ r.chunk = job[j].chunk
        /\ r.moved = job[j].moved \cup {u} /\ r.result = job[j].result
    <3>1. job[j].moved \cup {u} \in SUBSET Users
      BY <1>1, <1>2 DEF JobType
    <3>2. job' = [job EXCEPT ![j] = r]
      BY <1>1, <1>4 DEF JobType
    <3>3. r \in JobType
      BY <1>1, <3>1 DEF JobType
    <3> QED
      BY <1>1, <3>2, <3>3 DEF JobType
  <2> HIDE DEF r
  <2>2. JobOK(r)
    BY <1>0, <1>1, <2>1 DEF JobOK, Held, Works
  <2>3. OnePerSource'
    BY <1>1, <1>2, <1>2a, <2>1, SourceKept DEF TransferInv
  <2>4. \A w \in Users : w \in r.known \/ r.result[w] \in {"moved", "moved_linked"} =>
            Move!HasRow(w, r.tg)
    BY <2>1 DEF TransferInv, RowsKnown
  <2>5. /\ owner' \in [Users -> Admins]
        /\ owner'[u] = job[j].target /\ \A w \in Users \ {u} : owner'[w] = owner[w]
    BY <1>2, <1>4
  <2>6. Knows(j, r, owner', strayed')
    <3>1. \A w \in job[j].copy : Took(r, w) <=> Took(job[j], w) \/ w = u
      BY <2>1 DEF Took
    <3>2. strayed' = strayed
      BY <1>4
    <3>3. ASSUME NEW w \in job[j].copy
          PROVE  \/ owner'[w] = (IF Took(r, w) THEN job[j].target ELSE job[j].source)
                 \/ w \in strayed' \/ \E k \in Jobs \ {j} : w \in job[k].copy
      <4>1. CASE w = u
        BY <2>5, <3>1, <4>1
      <4>2. CASE w # u
        BY <1>2, <1>3, <2>5, <3>1, <3>2, <4>2
      <4> QED
        BY <4>1, <4>2
    <3> QED
      BY <2>1, <3>3 DEF Knows
  <2>7. \A w \in Held(r) : w \in Held(job[j]) /\ (w \in job[j].known => w \in r.known)
    BY <2>1 DEF Held
  <2>8. \A w \in Users \ r.copy : owner'[w] = owner[w]
    BY <1>2, <2>1, <2>5
  <2> QED
    BY <1>2, <1>2a, <1>4, <2>1, <2>2, <2>3, <2>4, <2>5, <2>6, <2>7, <2>8, WorksOn
<1>5. ASSUME NEW took \in BOOLEAN,
             owner' = [owner EXCEPT ![u] = IF took THEN job[j].target ELSE @],
             strayed' = strayed \cup IF took THEN {u} ELSE {},
             job' = [job EXCEPT ![j].result[u] = "failed"]
      PROVE  TransferInv'
  <2> DEFINE result == [job[j].result EXCEPT ![u] = "failed"]
             r == [job[j] EXCEPT !.result = result]
  <2>1. /\ r \in JobType /\ job' = [job EXCEPT ![j] = r]
        /\ r.pc = "single" /\ r.copy = job[j].copy
        /\ r.source = job[j].source /\ r.target = job[j].target /\ r.tg = job[j].tg
        /\ r.known = job[j].known /\ r.todo = job[j].todo /\ r.chunk = job[j].chunk
        /\ r.moved = job[j].moved /\ r.result = result
        /\ result[u] = "failed" /\ \A w \in Users \ {u} : result[w] = job[j].result[w]
    <3>1. /\ result \in [Users -> Results]
          /\ result[u] = "failed" /\ \A w \in Users \ {u} : result[w] = job[j].result[w]
      BY <1>1, <1>2 DEF JobType, Results
    <3>2. job' = [job EXCEPT ![j] = r]
      BY <1>1, <1>5 DEF JobType
    <3> HIDE DEF result
    <3>3. r \in JobType
      BY <1>1, <3>1 DEF JobType
    <3> QED
      BY <1>1, <3>1, <3>2, <3>3 DEF JobType
  <2> HIDE DEF r, result
  <2>2. JobOK(r)
    <3>1. u \in job[j].chunk /\ u \notin job[j].moved /\ u \notin job[j].todo
      BY <1>0, <1>1 DEF JobOK
    <3>2. Held(r) = Held(job[j]) /\ Works(r)
      BY <2>1 DEF Held, Works
    <3>3. \A w \in r.copy : r.result[w] = Move!None => w \in Held(r)
      BY <1>1, <1>2, <2>1, <3>2 DEF JobOK, Move!None
    <3>4. \A w \in r.chunk : r.result[w] \in {Move!None, "failed"}
      BY <1>1, <2>1 DEF JobOK, JobType
    <3>5. \A w \in r.moved : r.result[w] = Move!None
      <4>1. \A w \in job[j].moved : w \in Users /\ w # u /\ job[j].result[w] = Move!None
        BY <1>1, <3>1 DEF JobOK, JobType
      <4> QED
        BY <2>1, <4>1
    <3>6. \A w \in r.todo : r.result[w] = Move!None
      <4>1. \A w \in job[j].todo : w \in Users /\ w # u /\ job[j].result[w] = Move!None
        BY <1>1, <3>1 DEF JobOK, JobType
      <4> QED
        BY <2>1, <4>1
    <3> QED
      BY <1>1, <2>1, <3>2, <3>3, <3>4, <3>5, <3>6 DEF JobOK, Works
  <2>3. OnePerSource'
    BY <1>1, <1>2, <1>2a, <2>1, SourceKept DEF TransferInv
  <2>4. \A w \in Users : w \in r.known \/ r.result[w] \in {"moved", "moved_linked"} =>
            Move!HasRow(w, r.tg)
    BY <2>1 DEF TransferInv, RowsKnown
  <2>5. /\ owner' \in [Users -> Admins]
        /\ owner'[u] = owner[u] \/ u \in strayed'
        /\ \A w \in Users \ {u} : owner'[w] = owner[w]
        /\ strayed' \in SUBSET Users /\ strayed \subseteq strayed'
    BY <1>2, <1>5
  <2>6. Knows(j, r, owner', strayed')
    <3>1. \A w \in job[j].copy : Took(r, w) <=> Took(job[j], w)
      <4>1. \A w \in job[j].copy \ {u} : Took(r, w) <=> Took(job[j], w)
        BY <1>2, <2>1 DEF Took
      <4>2. ~ Took(r, u)
        BY <1>0, <2>1 DEF Took, MovedResults
      <4> QED
        BY <1>2, <4>1, <4>2
    <3>2. ASSUME NEW w \in job[j].copy
          PROVE  \/ owner'[w] = (IF Took(r, w) THEN job[j].target ELSE job[j].source)
                 \/ w \in strayed' \/ \E k \in Jobs \ {j} : w \in job[k].copy
      <4>1. owner'[w] = owner[w] \/ w \in strayed'
        BY <1>2, <2>5
      <4> QED
        BY <1>3, <2>5, <3>1, <4>1
    <3> QED
      BY <2>1, <3>2 DEF Knows
  <2>7. \A w \in Held(r) : w \in Held(job[j]) /\ (w \in job[j].known => w \in r.known)
    BY <2>1 DEF Held
  <2>8. \A w \in Users \ r.copy : owner'[w] = owner[w]
    BY <1>2, <2>1, <2>5
  <2> QED
    BY <1>2, <1>2a, <2>1, <2>2, <2>3, <2>4, <2>5, <2>6, <2>7, <2>8, WorksOn
<1> QED
  BY <1>0, <1>4, <1>5

LEMMA SinglesDoneKeeps == \A j \in Jobs : TransferInv /\ Move!SinglesDone(j) => TransferInv'
<1> SUFFICES ASSUME NEW j \in Jobs, TransferInv, Move!SinglesDone(j) PROVE TransferInv'
  OBVIOUS
<1> DEFINE r == [job[j] EXCEPT !.pc = "record", !.chunk = job[j].moved]
<1>1. /\ job[j] \in JobType /\ JobOK(job[j]) /\ job[j].pc = "single" /\ job \in [Jobs -> JobType]
      /\ \A u \in job[j].chunk \ job[j].moved : job[j].result[u] = "failed"
      /\ UNCHANGED <<owner, rows, running, raced, blind, strayed>>
  BY DEF TransferInv, TransferTypeOK, JobsOK, Move!SinglesDone
<1>2. /\ r \in JobType /\ job' = [job EXCEPT ![j] = r]
      /\ r.pc = "record" /\ r.copy = job[j].copy
      /\ r.source = job[j].source /\ r.target = job[j].target /\ r.tg = job[j].tg
      /\ r.known = job[j].known /\ r.todo = job[j].todo /\ r.chunk = job[j].moved
      /\ r.moved = job[j].moved /\ r.result = job[j].result
  <2>1. job' = [job EXCEPT ![j] = r]
    BY <1>1 DEF JobType, Move!SinglesDone
  <2>2. r \in JobType
    BY <1>1 DEF JobType, JobPcs
  <2> QED
    BY <1>1, <2>1, <2>2 DEF JobType
<1> HIDE DEF r
<1>3. JobOK(r)
  <2>1. \A u \in r.copy : r.result[u] = Move!None => u \in Held(r)
    BY <1>1, <1>2 DEF JobOK, Held, Move!None
  <2> QED
    BY <1>1, <1>2, <2>1 DEF JobOK, Held, Works
<1>4. OnePerSource'
  BY <1>1, <1>2, SourceKept DEF TransferInv, Works
<1>5. \A u \in Users : u \in r.known \/ r.result[u] \in {"moved", "moved_linked"} =>
          Move!HasRow(u, r.tg)
  BY <1>2 DEF TransferInv, RowsKnown
<1>6. Knows(j, r, owner', strayed')
  BY <1>1, <1>2 DEF Knows, Took, TransferInv, OwnersKnown, Excuses
<1>7. \A u \in Held(r) : u \in Held(job[j]) /\ (u \in job[j].known => u \in r.known)
  BY <1>1, <1>2 DEF Held, JobOK
<1> QED
  BY <1>1, <1>2, <1>3, <1>4, <1>5, <1>6, <1>7, WorksOn DEF TransferInv, TransferTypeOK

\* A service row is added for a user that has none, if nobody raced and the look-up worked.
LEMMA RecordKeeps == \A j \in Jobs : TransferInv /\ Move!Record(j) => TransferInv'
<1> SUFFICES ASSUME NEW j \in Jobs, TransferInv, Move!Record(j) PROVE TransferInv'
  OBVIOUS
<1>0. PICK u \in job[j].chunk, told \in {"moved_linked", "moved", "moved_no_record"} :
         /\ job' = [job EXCEPT ![j].chunk = @ \ {u}, ![j].result[u] = told]
         /\ told = "moved_linked" => u \in job[j].known
         /\ told = "moved" => u \notin job[j].known /\ rows' = [rows EXCEPT ![u][job[j].tg] = @ + 1]
         /\ told # "moved" => rows' = rows
  BY DEF Move!Record
<1>1. /\ job[j] \in JobType /\ JobOK(job[j]) /\ job[j].pc = "record" /\ job \in [Jobs -> JobType]
      /\ rows \in [Users -> [Tgs -> Nat]]
      /\ UNCHANGED <<owner, running, raced, blind, strayed>>
  BY DEF TransferInv, TransferTypeOK, JobsOK, Move!Record
<1>2. /\ u \in Users /\ u \in job[j].copy /\ u \in job[j].moved /\ u \notin job[j].todo
      /\ job[j].tg \in Tgs /\ job[j].copy \subseteq Users /\ u \in Held(job[j])
  BY <1>1 DEF JobOK, JobType, Held, Works
<1> DEFINE result == [job[j].result EXCEPT ![u] = told]
           r == [job[j] EXCEPT !.chunk = job[j].chunk \ {u}, !.result = result]
<1>3. /\ r \in JobType /\ job' = [job EXCEPT ![j] = r]
      /\ r.pc = "record" /\ r.copy = job[j].copy
      /\ r.source = job[j].source /\ r.target = job[j].target /\ r.tg = job[j].tg
      /\ r.known = job[j].known /\ r.todo = job[j].todo /\ r.chunk = job[j].chunk \ {u}
      /\ r.moved = job[j].moved /\ r.result = result
      /\ result[u] = told /\ \A w \in Users \ {u} : result[w] = job[j].result[w]
  <2>1. /\ result \in [Users -> Results]
        /\ result[u] = told /\ \A w \in Users \ {u} : result[w] = job[j].result[w]
    BY <1>1, <1>2 DEF JobType, Results, MovedResults
  <2>2. job' = [job EXCEPT ![j] = r]
    BY <1>0, <1>1 DEF JobType
  <2> HIDE DEF result
  <2>3. r \in JobType
    BY <1>1, <2>1 DEF JobType
  <2> QED
    BY <1>1, <2>1, <2>2, <2>3 DEF JobType
<1> HIDE DEF r, result
<1>4. JobOK(r)
  <2>1. Held(r) = Held(job[j]) \ {u} /\ Works(r)
    BY <1>2, <1>3 DEF Held, Works
  <2>2. \A w \in r.copy : r.result[w] = Move!None => w \in Held(r)
    <3>1. told # Move!None
      BY DEF Move!None
    <3> QED
      BY <1>1, <1>2, <1>3, <2>1, <3>1 DEF JobOK
  <2>3. \A w \in r.todo : r.result[w] = Move!None
    BY <1>1, <1>2, <1>3 DEF JobOK, JobType
  <2>4. \A w \in r.chunk : r.result[w] = Move!None
    BY <1>1, <1>2, <1>3 DEF JobOK, JobType
  <2>5. \A w \in r.moved \ r.chunk : r.result[w] \in MovedResults
    <3> SUFFICES ASSUME NEW w \in r.moved \ r.chunk PROVE r.result[w] \in MovedResults
      OBVIOUS
    <3>1. CASE w = u
      BY <1>3, <3>1 DEF MovedResults
    <3>2. CASE w # u
      BY <1>1, <1>3, <3>2 DEF JobOK, JobType
    <3> QED
      BY <3>1, <3>2
  <2> QED
    BY <1>1, <1>3, <2>1, <2>2, <2>3, <2>4, <2>5 DEF JobOK, Works
<1>5. OnePerSource'
  BY <1>1, <1>3, SourceKept DEF TransferInv, Works
<1>6. Knows(j, r, owner', strayed')
  <2>1. \A w \in job[j].copy \ {u} : Took(r, w) <=> Took(job[j], w)
    BY <1>2, <1>3 DEF Took
  <2>2. Took(r, u) /\ Took(job[j], u)
    BY <1>2, <1>3 DEF Took
  <2> QED
    BY <1>1, <1>3, <2>1, <2>2 DEF Knows, TransferInv, OwnersKnown, Excuses
<1>7. \A w \in Held(r) : w # u /\ w \in Held(job[j]) /\ (w \in job[j].known => w \in r.known)
  BY <1>2, <1>3 DEF Held
<1>8. CASE told # "moved"
  <2>1. rows' = rows
    BY <1>0, <1>8
  <2>2. \A w \in Users : w \in r.known \/ r.result[w] \in {"moved", "moved_linked"} =>
            Move!HasRow(w, r.tg)
    <3> SUFFICES ASSUME NEW w \in Users, w \in r.known \/ r.result[w] \in {"moved", "moved_linked"}
                 PROVE  Move!HasRow(w, job[j].tg)
      BY <1>3
    <3>1. w \in job[j].known \/ job[j].result[w] \in {"moved", "moved_linked"}
      BY <1>0, <1>3, <1>8
    <3> QED
      BY <3>1 DEF TransferInv, RowsKnown
  <2> QED
    BY <1>1, <1>3, <1>4, <1>5, <1>6, <1>7, <2>1, <2>2, WorksOn DEF TransferInv, TransferTypeOK
<1>9. CASE told = "moved"
  <2> DEFINE g == job[j].tg
  <2>1. /\ u \notin job[j].known
        /\ rows' \in [Users -> [Tgs -> Nat]] /\ rows'[u][g] = rows[u][g] + 1
        /\ \A w \in Users, h \in Tgs : (w # u \/ h # g) => rows'[w][h] = rows[w][h]
    <3>1. u \notin job[j].known /\ rows' = [rows EXCEPT ![u][g] = @ + 1]
      BY <1>0, <1>9
    <3>2. g \in Tgs /\ rows[u] \in [Tgs -> Nat] /\ rows[u][g] + 1 \in Nat
      BY <1>1, <1>2
    <3> DEFINE own == [rows[u] EXCEPT ![g] = rows[u][g] + 1]
    <3>3. rows' = [rows EXCEPT ![u] = own]
      BY <3>1
    <3>4. own \in [Tgs -> Nat] /\ own[g] = rows[u][g] + 1 /\ \A h \in Tgs \ {g} : own[h] = rows[u][h]
      BY <3>2
    <3> HIDE DEF own
    <3> QED
      BY <1>1, <1>2, <3>1, <3>3, <3>4
  <2> HIDE DEF g
  <2>2. u \notin raced \cup blind =>
            /\ \A h \in Tgs : rows[u][h] = 0
            /\ \A k \in Jobs \ {j} : u \notin Held(job[k])
    BY <1>2, <2>1 DEF TransferInv, Exclusive
  <2>3. job' \in [Jobs -> JobType] /\ JobsOK'
        /\ job'[j] = r /\ \A k \in Jobs \ {j} : job'[k] = job[k]
    BY <1>1, <1>3, <1>4, JobChanged DEF TransferInv
  <2>4. Exclusive'
    <3> SUFFICES ASSUME NEW k \in Jobs, NEW w \in Held(job'[k]) \ (raced \cup blind)
                 PROVE  /\ \A i \in Jobs : w \in Held(job'[i]) => i = k
                        /\ w \notin job'[k].known => \A h \in Tgs : rows'[w][h] = 0
      BY <1>1 DEF Exclusive
    <3>1. \A i \in Jobs : w \in Held(job'[i]) => w \in Held(job[i])
      BY <1>7, <2>3
    <3>2. job'[k].known = job[k].known /\ w \in Held(job[k])
      BY <1>3, <2>3, <3>1
    <3>3. /\ \A i \in Jobs : w \in Held(job[i]) => i = k
          /\ w \notin job[k].known => \A h \in Tgs : rows[w][h] = 0
      BY <3>2 DEF TransferInv, Exclusive
    <3>4. w # u
      BY <1>7, <2>2, <2>3, <3>2
    <3>5. w \in Users
      <4>1. job[k] \in JobType
        BY <1>1
      <4> QED
        BY <3>2, <4>1 DEF Held, JobType
    <3> QED
      BY <2>1, <3>1, <3>2, <3>3, <3>4, <3>5
  <2>5. OneRow'
    <3> SUFFICES ASSUME NEW w \in Users \ (raced \cup blind), NEW h \in Tgs, NEW i \in Tgs
                 PROVE  rows'[w][h] <= 1 /\ (rows'[w][h] > 0 /\ rows'[w][i] > 0 => h = i)
      BY <1>1 DEF OneRow, Move!HasRow
    <3>1. CASE w = u
      BY <1>1, <1>2, <2>1, <2>2, <3>1
    <3>2. CASE w # u
      BY <2>1, <3>2 DEF TransferInv, OneRow, Move!HasRow
    <3> QED
      BY <3>1, <3>2
  <2>6. RowsKnown'
    <3>1. \A w \in Users, h \in Tgs : rows[w][h] > 0 => rows'[w][h] > 0
      BY <1>1, <1>2, <2>1
    <3> SUFFICES ASSUME NEW k \in Jobs, NEW w \in Users,
                        w \in job'[k].known \/ job'[k].result[w] \in {"moved", "moved_linked"}
                 PROVE  rows'[w][job'[k].tg] > 0
      BY DEF RowsKnown, Move!HasRow
    <3>2. CASE k = j /\ w = u
      <4>1. rows[u][g] \in Nat
        BY <1>1, <1>2 DEF g
      <4> QED
        BY <1>3, <2>1, <2>3, <3>2, <4>1 DEF g
    <3>3. CASE ~ (k = j /\ w = u)
      <4>1. job[k].tg = job'[k].tg
            /\ (w \in job[k].known \/ job[k].result[w] \in {"moved", "moved_linked"})
        BY <1>3, <2>3, <3>3
      <4>2. rows[w][job[k].tg] > 0
        BY <4>1 DEF TransferInv, RowsKnown, Move!HasRow
      <4>3. CASE job[k].tg \in Tgs
        BY <3>1, <4>1, <4>2, <4>3
      <4>4. CASE job[k].tg \notin Tgs
        <5>1. job[k] \in JobType /\ JobOK(job[k])
          BY <1>1 DEF TransferInv, JobsOK
        <5> QED
          BY <4>1, <4>4, <5>1 DEF JobOK, JobType, Move!None
      <4> QED
        BY <4>3, <4>4
    <3> QED
      BY <3>2, <3>3
  <2>7. OwnersKnown'
    BY <1>1, <1>3, <1>6, OwnersStayKnown DEF TransferInv
  <2> QED
    BY <1>1, <1>5, <2>1, <2>3, <2>4, <2>5, <2>6, <2>7 DEF TransferInv, TransferTypeOK
<1> QED
  BY <1>8, <1>9

LEMMA ChunkDoneKeeps == \A j \in Jobs : TransferInv /\ Move!ChunkDone(j) => TransferInv'
<1> SUFFICES ASSUME NEW j \in Jobs, TransferInv, Move!ChunkDone(j) PROVE TransferInv'
  OBVIOUS
<1> DEFINE r == [job[j] EXCEPT !.pc = "chunk", !.moved = {}]
<1>1. /\ job[j] \in JobType /\ JobOK(job[j]) /\ job[j].pc = "record" /\ job \in [Jobs -> JobType]
      /\ job[j].chunk = {} /\ UNCHANGED <<owner, rows, running, raced, blind, strayed>>
  BY DEF TransferInv, TransferTypeOK, JobsOK, Move!ChunkDone
<1>2. /\ r \in JobType /\ job' = [job EXCEPT ![j] = r]
      /\ r.pc = "chunk" /\ r.copy = job[j].copy
      /\ r.source = job[j].source /\ r.target = job[j].target /\ r.tg = job[j].tg
      /\ r.known = job[j].known /\ r.todo = job[j].todo /\ r.chunk = job[j].chunk
      /\ r.moved = {} /\ r.result = job[j].result
  <2>1. job' = [job EXCEPT ![j] = r]
    BY <1>1 DEF JobType, Move!ChunkDone
  <2>2. r \in JobType
    BY <1>1 DEF JobType, JobPcs
  <2> QED
    BY <1>1, <2>1, <2>2 DEF JobType
<1> HIDE DEF r
<1>3. JobOK(r)
  BY <1>1, <1>2 DEF JobOK, Held, Works
<1>4. OnePerSource'
  BY <1>1, <1>2, SourceKept DEF TransferInv, Works
<1>5. \A u \in Users : u \in r.known \/ r.result[u] \in {"moved", "moved_linked"} =>
          Move!HasRow(u, r.tg)
  BY <1>2 DEF TransferInv, RowsKnown
<1>6. Knows(j, r, owner', strayed')
  <2>1. \A u \in job[j].copy : Took(r, u) <=> Took(job[j], u)
    BY <1>1, <1>2 DEF Took, JobOK
  <2> QED
    BY <1>1, <1>2, <2>1 DEF Knows, TransferInv, OwnersKnown, Excuses
<1>7. \A u \in Held(r) : u \in Held(job[j]) /\ (u \in job[j].known => u \in r.known)
  BY <1>2 DEF Held
<1> QED
  BY <1>1, <1>2, <1>3, <1>4, <1>5, <1>6, <1>7, WorksOn DEF TransferInv, TransferTypeOK

\* A job that ends, or fails, frees its own source only.
LEMMA FinishKeeps ==
    \A j \in Jobs : TransferAssumptions /\ TransferInv /\ Move!Finish(j) => TransferInv'
<1> SUFFICES ASSUME NEW j \in Jobs, TransferAssumptions, TransferInv, Move!Finish(j)
             PROVE  TransferInv'
  OBVIOUS
<1>1. /\ job[j] \in JobType /\ JobOK(job[j]) /\ job \in [Jobs -> JobType]
      /\ job[j].pc \notin {"idle", "done", "error"}
      /\ running' = running \ {job[j].source} /\ UNCHANGED <<owner, rows, raced, blind>>
      /\ strayed' \in SUBSET Users /\ strayed \subseteq strayed'
  BY DEF TransferInv, TransferTypeOK, JobsOK, JobType, Move!Finish
<1>2. ASSUME NEW r \in JobType, job' = [job EXCEPT ![j] = r], ~ Works(r)
      PROVE  OnePerSource'
  <2>1. job'[j] = r /\ \A k \in Jobs \ {j} : job'[k] = job[k]
    BY <1>1, <1>2
  <2>2. \A k \in Jobs : Works(job'[k]) => job'[k] = job[k] /\ k # j
    BY <1>2, <2>1
  <2>3. \A k \in Jobs : Works(job'[k]) => job[k].source # job[j].source
    <3> SUFFICES ASSUME NEW k \in Jobs, Works(job'[k]) PROVE job[k].source # job[j].source
      OBVIOUS
    <3>1. k # j /\ Works(job[k]) /\ job[k].source \in Admins
      BY <2>2 DEF TransferInv, JobsOK, JobOK
    <3>2. CASE Works(job[j])
      BY <3>1, <3>2 DEF TransferInv, OnePerSource
    <3>3. CASE ~ Works(job[j])
      <4>1. job[j].pc = "lost"
        BY <1>1, <3>3 DEF Works, JobType, JobPcs
      <4> QED
        BY <1>1, <3>1, <4>1 DEF JobOK, TransferAssumptions
    <3> QED
      BY <3>2, <3>3
  <2> QED
    BY <1>1, <2>2, <2>3 DEF TransferInv, OnePerSource
<1>3. CASE job[j].pc = "chunk" /\ job[j].todo = {} /\ UNCHANGED <<strayed, faults>>
           /\ job' = [job EXCEPT ![j].pc = "done"]
  <2> DEFINE r == [job[j] EXCEPT !.pc = "done"]
  <2>1. /\ r \in JobType /\ job' = [job EXCEPT ![j] = r]
        /\ r.pc = "done" /\ r.copy = job[j].copy
        /\ r.source = job[j].source /\ r.target = job[j].target /\ r.tg = job[j].tg
        /\ r.known = job[j].known /\ r.todo = job[j].todo /\ r.chunk = job[j].chunk
        /\ r.moved = job[j].moved /\ r.result = job[j].result
    <3>1. job' = [job EXCEPT ![j] = r]
      BY <1>1, <1>3 DEF JobType
    <3>2. r \in JobType
      BY <1>1 DEF JobType, JobPcs
    <3> QED
      BY <1>1, <3>1, <3>2 DEF JobType
  <2> HIDE DEF r
  <2>2. JobOK(r)
    BY <1>1, <1>3, <2>1 DEF JobOK, Held, Works
  <2>3. \A u \in Users : u \in r.known \/ r.result[u] \in {"moved", "moved_linked"} =>
            Move!HasRow(u, r.tg)
    BY <2>1 DEF TransferInv, RowsKnown
  <2>4. Knows(j, r, owner', strayed')
    BY <1>1, <1>3, <2>1 DEF Knows, Took, TransferInv, OwnersKnown, Excuses
  <2>5. \A u \in Held(r) : u \in Held(job[j]) /\ (u \in job[j].known => u \in r.known)
    BY <2>1 DEF Held
  <2>6. OnePerSource'
    BY <1>2, <2>1 DEF Works
  <2> QED
    BY <1>1, <2>1, <2>2, <2>3, <2>4, <2>5, <2>6, WorksOn DEF TransferInv, TransferTypeOK
<1>4. CASE job' = [job EXCEPT ![j].pc = "error", ![j].todo = {}, ![j].chunk = {}]
  <2> DEFINE r == [job[j] EXCEPT !.pc = "error", !.todo = {}, !.chunk = {}]
  <2>1. /\ r \in JobType /\ job' = [job EXCEPT ![j] = r]
        /\ r.pc = "error" /\ r.copy = job[j].copy
        /\ r.source = job[j].source /\ r.target = job[j].target /\ r.tg = job[j].tg
        /\ r.known = job[j].known /\ r.todo = {} /\ r.chunk = {}
        /\ r.moved = job[j].moved /\ r.result = job[j].result
    <3>1. job' = [job EXCEPT ![j] = r]
      BY <1>1, <1>4 DEF JobType
    <3>2. r \in JobType
      BY <1>1 DEF JobType, JobPcs
    <3> QED
      BY <1>1, <3>1, <3>2 DEF JobType
  <2> HIDE DEF r
  <2>2. JobOK(r)
    BY <1>1, <2>1 DEF JobOK, Held, Works
  <2>3. \A u \in Users : u \in r.known \/ r.result[u] \in {"moved", "moved_linked"} =>
            Move!HasRow(u, r.tg)
    BY <2>1 DEF TransferInv, RowsKnown
  <2>4. Knows(j, r, owner', strayed')
    BY <2>1 DEF Knows
  <2>5. \A u \in Held(r) : u \in Held(job[j]) /\ (u \in job[j].known => u \in r.known)
    BY <2>1 DEF Held
  <2>6. OnePerSource'
    BY <1>2, <2>1 DEF Works
  <2> QED
    BY <1>1, <2>1, <2>2, <2>3, <2>4, <2>5, <2>6, WorksOn DEF TransferInv, TransferTypeOK
<1> QED
  BY <1>3, <1>4 DEF Move!Finish

LEMMA RestartKeeps == TransferInv /\ Move!Restart => TransferInv'
<1> SUFFICES ASSUME TransferInv, Move!Restart PROVE TransferInv'
  OBVIOUS
<1>1. /\ strayed' = strayed \cup UNION {job[j].moved : j \in Jobs}
      /\ job' = [j \in Jobs |-> IF job[j].pc = "idle" THEN Move!NoJob ELSE [Move!NoJob EXCEPT !.pc = "lost"]]
      /\ UNCHANGED <<owner, rows, raced, blind>>
  BY DEF Move!Restart
<1> DEFINE lost == [Move!NoJob EXCEPT !.pc = "lost"]
<1>2. Move!NoJob \in JobType /\ lost \in JobType
  BY DEF Move!NoJob, JobType, JobPcs, Results, Move!None
<1>3. \A r \in {Move!NoJob, lost} :
         /\ r.pc \in {"idle", "lost"} /\ r.source = Move!None /\ r.copy = {} /\ r.known = {}
         /\ r.todo = {} /\ r.chunk = {} /\ r.moved = {} /\ \A u \in Users : r.result[u] = Move!None
  BY DEF Move!NoJob
<1>4. \A j \in Jobs : job'[j] \in {Move!NoJob, lost}
  BY <1>1
<1>5. job' \in [Jobs -> JobType]
  BY <1>1, <1>2
<1> HIDE DEF lost
<1>6. JobsOK'
  <2> SUFFICES ASSUME NEW j \in Jobs PROVE JobOK(job'[j])
    BY DEF JobsOK
  <2> QED
    BY <1>3, <1>4 DEF JobOK, Held, Works
<1>7. OnePerSource' /\ Exclusive'
  <2>1. \A j \in Jobs : ~ Works(job'[j]) /\ Held(job'[j]) = {}
    BY <1>3, <1>4 DEF Works, Held
  <2> QED
    BY <2>1 DEF OnePerSource, Exclusive
<1>8. OneRow'
  BY <1>1, RowsStay DEF TransferInv
<1>9. RowsKnown'
  BY <1>3, <1>4 DEF RowsKnown, Move!None
<1>10. OwnersKnown'
  BY <1>3, <1>4 DEF OwnersKnown
<1>11. strayed' \in SUBSET Users
  BY <1>1 DEF TransferInv, TransferTypeOK, JobType
<1> QED
  BY <1>1, <1>5, <1>6, <1>7, <1>8, <1>9, <1>10, <1>11 DEF TransferInv, TransferTypeOK

LEMMA TransferStutter == TransferInv /\ UNCHANGED Move!vars => TransferInv'
<1> SUFFICES ASSUME TransferInv, UNCHANGED Move!vars PROVE TransferInv'
  OBVIOUS
<1>1. UNCHANGED <<owner, rows, running, job, raced, blind, strayed>>
  BY DEF Move!vars
<1> QED
  BY <1>1 DEF TransferInv, TransferTypeOK, JobsOK, OnePerSource, Exclusive, OneRow, RowsKnown,
     OwnersKnown, Excuses, Move!HasRow

-----------------------------------------------------------------------------
LEMMA OneRowEach == TransferAssumptions /\ TransferInv => Move!OneOwnerInBot
<1> SUFFICES ASSUME TransferAssumptions, TransferInv, NEW u \in Users \ (raced \cup blind)
             PROVE  Cardinality(Move!RowsOf(u)) <= 1
  BY MoveCounts DEF Move!OneOwnerInBot
<1>1. Cardinality(Jobs) \in Nat
  BY FS_CardinalityType DEF TransferAssumptions
<1>2. \A x \in Move!RowsOf(u) : x[1] \in Tgs /\ x[2] = 1 /\ x = <<x[1], x[2]>> /\ rows[u][x[1]] > 0
  <2> SUFFICES ASSUME NEW x \in Move!RowsOf(u)
               PROVE  x[1] \in Tgs /\ x[2] = 1 /\ x = <<x[1], x[2]>> /\ rows[u][x[1]] > 0
    OBVIOUS
  <2>1. x \in Tgs \X (1..(Cardinality(Jobs) + 1)) /\ x[2] <= rows[u][x[1]]
    BY MoveCounts DEF Move!RowsOf
  <2>2. x[1] \in Tgs /\ x[2] \in 1..(Cardinality(Jobs) + 1) /\ x = <<x[1], x[2]>>
    BY <2>1
  <2>3. rows[u][x[1]] \in Nat /\ rows[u][x[1]] <= 1
    BY <2>2 DEF TransferInv, TransferTypeOK, OneRow
  <2> QED
    BY <1>1, <2>1, <2>2, <2>3
<1>3. \A x, y \in Move!RowsOf(u) : x = y
  <2> SUFFICES ASSUME NEW x \in Move!RowsOf(u), NEW y \in Move!RowsOf(u) PROVE x = y
    OBVIOUS
  <2>1. x[1] = y[1]
    BY <1>2 DEF TransferInv, OneRow, Move!HasRow
  <2> QED
    BY <1>2, <2>1
<1>4. CASE Move!RowsOf(u) = {}
  BY <1>4, FS_EmptySet
<1>5. CASE Move!RowsOf(u) # {}
  <2>1. PICK x : Move!RowsOf(u) = {x}
    BY <1>3, <1>5
  <2> QED
    BY <2>1, FS_Singleton
<1> QED
  BY <1>4, <1>5

LEMMA ReportsAre == TransferInv => Move!ReportIsTrue
<1> SUFFICES ASSUME TransferInv, NEW j \in Jobs, job[j].pc = "done", NEW u \in job[j].copy
             PROVE  /\ job[j].result[u] # Move!None
                    /\ job[j].result[u] \in {"moved", "moved_linked"} => Move!HasRow(u, job[j].tg)
                    /\ \/ owner[u] = (IF job[j].result[u] \in MovedResults THEN job[j].target
                                                                           ELSE job[j].source)
                       \/ u \in strayed
                       \/ \E k \in Jobs \ {j} : job[k].pc = "lost" \/ u \in job[k].copy
  BY DEF Move!ReportIsTrue, MovedResults
<1>1. job[j] \in JobType /\ JobOK(job[j]) /\ u \in Users
  BY DEF TransferInv, TransferTypeOK, JobsOK, JobType
<1>2. Held(job[j]) = {} /\ job[j].moved = {} /\ job[j].result[u] # Move!None
  BY <1>1 DEF JobOK
<1>3. Took(job[j], u) <=> job[j].result[u] \in MovedResults
  BY <1>2 DEF Took
<1> QED
  BY <1>1, <1>2, <1>3 DEF TransferInv, RowsKnown, OwnersKnown, Excuses

\* No service changes hands silently and every report of a transfer job is so, however many
\* users, admins and jobs there are (start_transfer, _run_transfer and _existing_services in
\* admin_transfer.py): a panel user belongs to one Telegram user of the bot unless jobs of
\* two sources had it in hand at once or its look-up failed; what a finished job says of a
\* user is true of its owner and of its row.
THEOREM TransferKeepsOwnersAlways ==
    ASSUME TransferAssumptions
    PROVE  Move!Spec => []Move!TransferKeepsOwners
<1>1. Move!Init => TransferInv
  BY TransferInitOK
<1>2. TransferInv /\ [Move!Next]_(Move!vars) => TransferInv'
  <2> SUFFICES ASSUME TransferInv, [Move!Next]_(Move!vars) PROVE TransferInv'
    OBVIOUS
  <2>1. CASE Move!Restart
    BY <2>1, RestartKeeps
  <2>2. ASSUME NEW j \in Jobs,
               \/ Move!Start(j) \/ Move!Fetch(j) \/ Move!Check(j) \/ Move!Chunk(j) \/ Move!Single(j) \/ Move!SinglesDone(j)
               \/ Move!Record(j) \/ Move!ChunkDone(j) \/ Move!Finish(j)
        PROVE  TransferInv'
    BY <2>2, StartKeeps, FetchKeeps, CheckKeeps, ChunkKeeps, SingleKeeps, SinglesDoneKeeps,
       RecordKeeps, ChunkDoneKeeps, FinishKeeps
  <2>3. CASE UNCHANGED Move!vars
    BY <2>3, TransferStutter
  <2> QED
    BY <2>1, <2>2, <2>3 DEF Move!Next
<1>3. TransferInv => Move!TransferKeepsOwners
  BY OneRowEach, ReportsAre DEF Move!TransferKeepsOwners
<1> QED
  BY <1>1, <1>2, <1>3, PTL DEF Move!Spec

-----------------------------------------------------------------------------
(***************************************************************************)
(* BulkIncrease, for any services, amounts, runs and failures.  A run that *)
(* worked while another did, and an owner that bought meanwhile, are told  *)
(* apart; for a service nobody else touched, what the user has on the      *)
(* panel, what the row says and what is due to it are related by how far   *)
(* the one run is.                                                         *)
(***************************************************************************)
CONSTANTS Services, Unsynced, Limits, Volumes, Days, Runs, NOW, MAX_RUNS, MAX_BOUGHT
VARIABLES user, row, rights, session, shown, run, due, apart, doubled, started, bought

\* The owner and the faults have names of the two others.
Increase == INSTANCE BulkIncrease

\* Orders are whole numbers, limits none below nothing, and no service is called "none".
IncreaseAssumptions ==
    /\ Limits \in [Services -> [volume : Nat, time : Nat]]
    /\ Volumes \subseteq Int /\ Days \subseteq Int /\ NOW \in Nat
    /\ Increase!None \notin Services

IncreasePcs == {"idle", "load", "dry", "volume", "time", "rows", "manual", "modify", "write", "end",
                 "away"}
BulkOrders == [panel : Increase!Panels \cup {Increase!None}, volume : Int, time : Int]
Holding == [volume : Nat, time : Int]
RunType ==
    [pc : IncreasePcs, web : BOOLEAN, shows : BulkOrders, order : BulkOrders,
     copy : [Services -> Holding] \cup {<<>>}, left : SUBSET Services,
     service : Services \cup {Increase!None}, new : Holding]

IncreaseTyped ==
    /\ user \in [Services -> Holding] /\ row \in [Services -> Holding] /\ due \in [Services -> Holding]
    /\ rights \in BOOLEAN /\ session \in BulkOrders
    /\ shown \in [order : BulkOrders, live : BOOLEAN, holds : BOOLEAN, applied : Nat]
    /\ run \in [Runs -> RunType]
    /\ owner \in {Increase!Free} \cup [service : Services, limit : Nat]
    /\ apart \subseteq Services /\ doubled \in Nat /\ faults \in Nat

\* What a run was told is what was shown, as long as the message holds.
ShownHolds ==
    /\ shown.holds => shown.order = session
    /\ \A r \in Runs : run[r].pc # "idle" => run[r].order = run[r].shows

\* A message that can still be applied, and that no run of the bot is about to take away,
\* was not applied without an excuse.
BotLoads == \E o \in Runs : run[o].pc = "load" /\ ~run[o].web
AppliedHolds ==
    /\ shown.applied <= 1 + doubled + faults
    /\ shown.live /\ ~BotLoads => shown.applied <= doubled + faults

\* Runs that read the rows keep apart, from each other and from the owner.
Loaded(x) == x.pc \notin {"idle", "load", "away"}
RunsHere == \A r \in Runs : Loaded(run[r]) => run[r].order.panel = "here"
RunsApart ==
    \A r, q \in Runs : Loaded(run[r]) /\ Loaded(run[q]) /\ r # q => Services \subseteq apart
OwnerApart == \A r \in Runs : Loaded(run[r]) /\ owner # Increase!Free => owner.service \in apart

\* How far user u, row w and due d of service s are when run x alone works on them.
Bulk == {"dry", "volume", "time", "rows"}
RunReady(x) ==
    /\ x.pc \in Bulk => x.copy \in [Services -> Holding]
    /\ x.pc \in {"modify", "write"} => x.service \in Services
BulkUser(x, w) ==
    [volume |-> IF x.pc \in {"time", "rows"} THEN Increase!Raised(w.volume, x.order.volume) ELSE w.volume,
     time |-> IF x.pc = "rows" /\ w.time # 0 THEN w.time + x.order.time ELSE w.time]
RunAgrees(x, s, u, w, d) ==
    /\ w = d
    /\ x.pc \in Bulk => x.copy[s] = w /\ u = BulkUser(x, w)
    /\ x.pc \in {"manual", "end"} => u = w
    /\ x.pc = "modify" => u = w /\ (s = x.service => x.new = Increase!Grown(w, x.order, NOW))
    /\ x.pc = "write" =>
           IF s = x.service THEN u = x.new /\ x.new = Increase!Grown(w, x.order, NOW) ELSE u = w

\* And when no run does.
RestAgrees(s, o, u, w, d) ==
    /\ w = d
    /\ IF o # Increase!Free /\ s = o.service
       THEN u = [volume |-> d.volume + 1, time |-> d.time] /\ o.limit = u.volume
       ELSE u = d

RunsReady == \A r \in Runs : RunReady(run[r])
RunHolds ==
    faults = 0 => \A r \in Runs : Loaded(run[r]) =>
        \A s \in Services \ apart : RunAgrees(run[r], s, user[s], row[s], due[s])
RestHolds ==
    faults = 0 /\ (\A r \in Runs : ~Loaded(run[r])) =>
        \A s \in Services \ apart : RestAgrees(s, owner, user[s], row[s], due[s])

WorkHolds == RunsHere /\ RunsApart /\ OwnerApart /\ RunsReady /\ RunHolds /\ RestHolds

IncreaseInv == IncreaseTyped /\ ShownHolds /\ AppliedHolds /\ WorkHolds

-----------------------------------------------------------------------------
\* What limits and amounts make.
LEMMA GrownIs ==
    ASSUME IncreaseAssumptions, NEW old \in Holding, NEW amount \in BulkOrders
    PROVE  /\ Increase!Grown(old, amount, NOW) \in Holding
           /\ amount.volume = 0 => Increase!Grown(old, amount, NOW).volume = old.volume
           /\ amount.time = 0 => Increase!Grown(old, amount, NOW).time = old.time
<1>1. (IF amount.volume # 0 THEN Increase!Clipped(old.volume + amount.volume) ELSE old.volume) \in Nat
  BY DEF Holding, BulkOrders, Increase!Clipped
<1>2. (IF amount.time # 0 THEN (IF old.time = 0 THEN NOW ELSE old.time) + amount.time
       ELSE old.time) \in Int
  BY DEF Holding, BulkOrders, IncreaseAssumptions
<1> QED
  BY <1>1, <1>2 DEF Increase!Grown, Holding

LEMMA RaisedIs == \A x \in Nat, a \in Int : Increase!Raised(x, a) \in Nat
BY DEF Increase!Raised, Increase!Clipped

LEMMA CrowdedIs ==
    ASSUME IncreaseTyped, NEW r \in Runs, NEW ss \in SUBSET Services
    PROVE  Increase!Crowded(r, ss) \subseteq Services
<1>1. owner # Increase!Free => owner.service \in Services
  BY DEF IncreaseTyped
<1> QED
  BY <1>1 DEF Increase!Crowded

\* What a step of a run that has read the rows must keep.
LEMMA RunStep ==
    ASSUME IncreaseInv, NEW r \in Runs, NEW x \in RunType,
           run' = [run EXCEPT ![r] = x], Loaded(run[r]), Loaded(x), RunReady(x),
           x.order = run[r].order, x.shows = run[r].shows,
           user' \in [Services -> Holding], row' \in [Services -> Holding], due' \in [Services -> Holding],
           UNCHANGED <<rights, Increase!Chat, owner, doubled>>,
           apart \subseteq apart', apart' \subseteq Services,
           faults' = faults \/ faults' = faults + 1,
           \A s \in Services \ apart' :
               faults' = faults /\ RunAgrees(run[r], s, user[s], row[s], due[s])
                   => RunAgrees(x, s, user'[s], row'[s], due'[s])
    PROVE  IncreaseInv'
<1>0. /\ run' \in [Runs -> RunType] /\ run'[r] = x
      /\ \A q \in Runs \ {r} : run'[q] = run[q]
  BY DEF IncreaseInv, IncreaseTyped
<1>a. faults \in Nat /\ faults' \in Nat /\ faults' >= faults /\ (faults' = 0 => faults = 0 /\ faults' = faults)
  BY DEF IncreaseInv, IncreaseTyped
<1>1. IncreaseTyped'
  BY <1>0, <1>a DEF IncreaseInv, IncreaseTyped, Increase!Chat
<1>2. ShownHolds'
  <2>1. \A q \in Runs : run'[q].pc # "idle" => run'[q].order = run'[q].shows
    BY <1>0 DEF IncreaseInv, ShownHolds, Loaded
  <2> QED
    BY <2>1 DEF IncreaseInv, ShownHolds, Increase!Chat
<1>3. AppliedHolds'
  <2>1. BotLoads' => BotLoads
    BY <1>0 DEF BotLoads, Loaded
  <2>2. BotLoads => BotLoads'
    BY <1>0 DEF BotLoads, Loaded
  <2>3. shown.applied \in Nat /\ doubled \in Nat
    BY DEF IncreaseInv, IncreaseTyped
  <2>4. /\ shown.applied <= 1 + doubled + faults
        /\ shown.live /\ ~BotLoads => shown.applied <= doubled + faults
    BY DEF IncreaseInv, AppliedHolds
  <2>5. shown.applied <= 1 + doubled + faults'
    BY <1>a, <2>3, <2>4
  <2>6. shown.live /\ ~BotLoads' => shown.applied <= doubled + faults'
    BY <1>a, <2>1, <2>2, <2>3, <2>4
  <2>7. shown' = shown /\ doubled' = doubled
    BY DEF Increase!Chat
  <2> QED
    BY <2>5, <2>6, <2>7 DEF AppliedHolds
<1>4. WorkHolds'
  <2>1. \A q \in Runs : Loaded(run'[q]) => Loaded(run[q])
    BY <1>0
  <2>2. RunsApart'
    BY <2>1 DEF IncreaseInv, WorkHolds, RunsApart
  <2>3. OwnerApart'
    BY <2>1 DEF IncreaseInv, WorkHolds, OwnerApart
  <2>4. RunsReady'
    BY <1>0 DEF IncreaseInv, WorkHolds, RunsReady
  <2>5. RunHolds'
    <3> SUFFICES ASSUME faults' = 0, NEW q \in Runs, Loaded(run'[q]),
                        NEW s \in Services \ apart'
                 PROVE  RunAgrees(run'[q], s, user'[s], row'[s], due'[s])
      BY DEF RunHolds
    <3>1. q = r
      BY <2>1 DEF IncreaseInv, WorkHolds, RunsApart
    <3>2. RunAgrees(run[r], s, user[s], row[s], due[s])
      BY <1>a DEF IncreaseInv, WorkHolds, RunHolds
    <3> QED
      BY <1>0, <1>a, <3>1, <3>2
  <2>6. RestHolds'
    BY <1>0 DEF RestHolds
  <2>7. RunsHere'
    BY <1>0, <2>1 DEF IncreaseInv, WorkHolds, RunsHere
  <2> QED
    BY <2>2, <2>3, <2>4, <2>5, <2>6, <2>7 DEF WorkHolds
<1> QED
  BY <1>1, <1>2, <1>3, <1>4 DEF IncreaseInv

\* The parts of a run's record.
LEMMA RunHas ==
    ASSUME IncreaseInv, NEW r \in Runs
    PROVE  /\ run[r] \in RunType /\ RunReady(run[r])
           /\ run[r].order \in BulkOrders /\ run[r].order.volume \in Int /\ run[r].order.time \in Int
           /\ run[r].left \subseteq Services /\ run[r].new \in Holding
           /\ \A s \in Services : user[s] \in Holding /\ row[s] \in Holding /\ due[s] \in Holding
<1>1. run[r] \in RunType
  BY DEF IncreaseInv, IncreaseTyped
<1>2. /\ run[r].order \in BulkOrders /\ run[r].left \subseteq Services /\ run[r].new \in Holding
  BY <1>1 DEF RunType
<1>3. \A a \in BulkOrders : a.volume \in Int /\ a.time \in Int
  BY DEF BulkOrders
<1> QED
  BY <1>1, <1>2, <1>3 DEF IncreaseInv, IncreaseTyped, WorkHolds, RunsReady

LEMMA DryRunKeeps == \A r \in Runs : IncreaseInv /\ Increase!DryRun(r) => IncreaseInv'
<1> SUFFICES ASSUME NEW r \in Runs, IncreaseInv, Increase!DryRun(r) PROVE IncreaseInv'
  OBVIOUS
<1>0. /\ run[r].pc = "dry" /\ UNCHANGED <<user, row, due, apart, rights, session, shown, owner, doubled>>
      /\ \/ run' = [run EXCEPT ![r].pc = "volume"] /\ UNCHANGED faults
         \/ Increase!Mishap /\ run' = [run EXCEPT ![r].pc = "manual", ![r].copy = <<>>]
  BY DEF Increase!DryRun, Increase!Data, Increase!Chat
<1>t. user \in [Services -> Holding] /\ row \in [Services -> Holding] /\ due \in [Services -> Holding]
      /\ apart \subseteq Services /\ run \in [Runs -> RunType]
  BY DEF IncreaseInv, IncreaseTyped
<1>r. run[r] \in RunType /\ run[r].copy \in [Services -> Holding]
  BY <1>0, RunHas DEF RunReady, Bulk
<1>1. CASE run' = [run EXCEPT ![r].pc = "volume"] /\ UNCHANGED faults
  <2> DEFINE x == [run[r] EXCEPT !.pc = "volume"]
  <2>1. x \in RunType /\ x.pc = "volume" /\ x.order = run[r].order /\ x.shows = run[r].shows
        /\ x.copy = run[r].copy
    BY <1>r DEF RunType, IncreasePcs
  <2>2. run' = [run EXCEPT ![r] = x]
    BY <1>1, <1>t
  <2>3. Loaded(run[r]) /\ Loaded(x) /\ RunReady(x)
    BY <1>0, <1>r, <2>1 DEF Loaded, RunReady, Bulk
  <2>4. \A s \in Services : RunAgrees(run[r], s, user[s], row[s], due[s])
            => RunAgrees(x, s, user[s], row[s], due[s])
    BY <1>0, <2>1 DEF RunAgrees, Bulk, BulkUser
  <2> HIDE DEF x
  <2> QED
    BY <1>0, <1>1, <1>t, <2>1, <2>2, <2>3, <2>4, RunStep DEF Increase!Chat
<1>2. CASE Increase!Mishap /\ run' = [run EXCEPT ![r].pc = "manual", ![r].copy = <<>>]
  <2> DEFINE x == [run[r] EXCEPT !.pc = "manual", !.copy = <<>>]
  <2>1. x \in RunType /\ x.pc = "manual" /\ x.order = run[r].order /\ x.shows = run[r].shows
    BY <1>r DEF RunType, IncreasePcs
  <2>2. run' = [run EXCEPT ![r] = x]
    BY <1>2, <1>t
  <2>3. Loaded(run[r]) /\ Loaded(x) /\ RunReady(x)
    BY <1>0, <1>r, <2>1 DEF Loaded, RunReady, Bulk
  <2>4. faults' = faults + 1 /\ faults' # faults
    BY <1>2 DEF Increase!Mishap, IncreaseInv, IncreaseTyped
  <2> HIDE DEF x
  <2> QED
    BY <1>0, <1>2, <1>t, <2>1, <2>2, <2>3, <2>4, RunStep DEF Increase!Chat
<1> QED
  BY <1>0, <1>1, <1>2

\* A call that fails leaves all as it was.
LEMMA FailedStep ==
    ASSUME IncreaseInv, NEW r \in Runs, NEW pc \in {"end", "manual"}, NEW ss \in SUBSET Services,
           Loaded(run[r]), run' = [run EXCEPT ![r].pc = pc], Increase!Mishap,
           UNCHANGED <<user, row, due, rights, Increase!Chat, owner, doubled>>,
           apart' = apart \cup Increase!Crowded(r, ss)
    PROVE  IncreaseInv'
<1> DEFINE x == [run[r] EXCEPT !.pc = pc]
<1>t. user \in [Services -> Holding] /\ row \in [Services -> Holding] /\ due \in [Services -> Holding]
      /\ run \in [Runs -> RunType] /\ run[r] \in RunType /\ faults \in Nat
  BY DEF IncreaseInv, IncreaseTyped
<1>1. x \in RunType /\ x.pc = pc /\ x.order = run[r].order /\ x.shows = run[r].shows
  BY <1>t DEF RunType, IncreasePcs
<1>2. run' = [run EXCEPT ![r] = x]
  BY <1>t
<1>3. Loaded(x) /\ RunReady(x)
  BY <1>1 DEF Loaded, RunReady, Bulk
<1>4. faults' = faults + 1 /\ faults' # faults
  BY <1>t DEF Increase!Mishap
<1>5. apart \subseteq apart' /\ apart' \subseteq Services
  BY CrowdedIs DEF IncreaseInv, IncreaseTyped
<1> HIDE DEF x
<1> QED
  BY <1>t, <1>1, <1>2, <1>3, <1>4, <1>5, RunStep

LEMMA BulkVolumeKeeps ==
    IncreaseAssumptions => \A r \in Runs : IncreaseInv /\ Increase!BulkVolume(r) => IncreaseInv'
<1> SUFFICES ASSUME IncreaseAssumptions, NEW r \in Runs, IncreaseInv, Increase!BulkVolume(r)
             PROVE  IncreaseInv'
  OBVIOUS
<1>0. /\ run[r].pc = "volume" /\ UNCHANGED <<row, due, rights, Increase!Chat, owner, doubled>>
      /\ \/ /\ user' = [s \in Services |->
                 [user[s] EXCEPT !.volume = Increase!Raised(@, run[r].order.volume)]]
            /\ run' = [run EXCEPT ![r].pc = "time"]
            /\ UNCHANGED faults
         \/ Increase!Mishap /\ run' = [run EXCEPT ![r].pc = "end"] /\ UNCHANGED user
      /\ apart' = apart \cup Increase!Crowded(r, Services)
  BY DEF Increase!BulkVolume
<1>t. user \in [Services -> Holding] /\ row \in [Services -> Holding] /\ due \in [Services -> Holding]
      /\ apart \subseteq Services /\ run \in [Runs -> RunType]
  BY DEF IncreaseInv, IncreaseTyped
<1>r. run[r] \in RunType /\ run[r].copy \in [Services -> Holding] /\ Loaded(run[r])
  BY <1>0, RunHas DEF RunReady, Bulk, Loaded
<1>p. apart \subseteq apart' /\ apart' \subseteq Services
  BY <1>0, <1>t, CrowdedIs DEF IncreaseInv
<1>1. CASE /\ user' = [s \in Services |-> [user[s] EXCEPT !.volume = Increase!Raised(@, run[r].order.volume)]]
           /\ run' = [run EXCEPT ![r].pc = "time"]
           /\ UNCHANGED faults
  <2> DEFINE x == [run[r] EXCEPT !.pc = "time"]
  <2>1. x \in RunType /\ x.pc = "time" /\ x.order = run[r].order /\ x.shows = run[r].shows
        /\ x.copy = run[r].copy
    BY <1>r DEF RunType, IncreasePcs
  <2>2. run' = [run EXCEPT ![r] = x]
    BY <1>1, <1>t
  <2>3. Loaded(x) /\ RunReady(x)
    BY <1>0, <1>r, <2>1 DEF Loaded, RunReady, Bulk
  <2>4. ASSUME NEW s \in Services
        PROVE  /\ user'[s] \in Holding
               /\ RunAgrees(run[r], s, user[s], row[s], due[s])
                      => RunAgrees(x, s, user'[s], row[s], due[s])
    <3> DEFINE v == Increase!Raised(user[s].volume, run[r].order.volume)
    <3>1. user[s] = [volume |-> user[s].volume, time |-> user[s].time]
          /\ user[s].volume \in Nat /\ user[s].time \in Int
      BY <1>t DEF Holding
    <3>2. v \in Nat
      BY <3>1, RunHas, RaisedIs
    <3>3. user'[s] = [volume |-> v, time |-> user[s].time]
      BY <1>1, <1>t, <3>1
    <3>4. row[s] = [volume |-> row[s].volume, time |-> row[s].time]
      BY <1>t DEF Holding
    <3> HIDE DEF v
    <3>5. user'[s] \in Holding
      BY <3>1, <3>2, <3>3 DEF Holding
    <3>6. ASSUME RunAgrees(run[r], s, user[s], row[s], due[s])
          PROVE  RunAgrees(x, s, user'[s], row[s], due[s])
      <4>1. row[s] = due[s] /\ run[r].copy[s] = row[s] /\ user[s] = row[s]
        BY <1>0, <3>4, <3>6 DEF RunAgrees, Bulk, BulkUser
      <4>2. BulkUser(x, row[s]) = [volume |-> v, time |-> row[s].time]
        BY <2>1, <4>1 DEF BulkUser, v
      <4> QED
        BY <2>1, <3>3, <4>1, <4>2 DEF RunAgrees, Bulk
    <3> QED
      BY <3>5, <3>6
  <2>5. user' \in [Services -> Holding]
    BY <1>1, <2>4
  <2> HIDE DEF x
  <2> QED
    BY <1>0, <1>1, <1>t, <1>r, <1>p, <2>1, <2>2, <2>3, <2>4, <2>5, RunStep
<1>2. CASE Increase!Mishap /\ run' = [run EXCEPT ![r].pc = "end"] /\ UNCHANGED user
  BY <1>0, <1>2, <1>r, FailedStep
<1> QED
  BY <1>0, <1>1, <1>2

LEMMA BulkTimeKeeps ==
    IncreaseAssumptions => \A r \in Runs : IncreaseInv /\ Increase!BulkTime(r) => IncreaseInv'
<1> SUFFICES ASSUME IncreaseAssumptions, NEW r \in Runs, IncreaseInv, Increase!BulkTime(r)
             PROVE  IncreaseInv'
  OBVIOUS
<1>0. /\ run[r].pc = "time" /\ UNCHANGED <<row, due, rights, Increase!Chat, owner, doubled>>
      /\ \/ /\ user' = [s \in Services |->
                 [user[s] EXCEPT !.time = IF @ = 0 THEN 0 ELSE @ + run[r].order.time]]
            /\ run' = [run EXCEPT ![r].pc = "rows"]
            /\ UNCHANGED faults
         \/ Increase!Mishap /\ run' = [run EXCEPT ![r].pc = "end"] /\ UNCHANGED user
      /\ apart' = apart \cup Increase!Crowded(r, Services)
  BY DEF Increase!BulkTime
<1>t. user \in [Services -> Holding] /\ row \in [Services -> Holding] /\ due \in [Services -> Holding]
      /\ apart \subseteq Services /\ run \in [Runs -> RunType]
  BY DEF IncreaseInv, IncreaseTyped
<1>r. run[r] \in RunType /\ run[r].copy \in [Services -> Holding] /\ Loaded(run[r])
  BY <1>0, RunHas DEF RunReady, Bulk, Loaded
<1>p. apart \subseteq apart' /\ apart' \subseteq Services
  BY <1>0, <1>t, CrowdedIs DEF IncreaseInv
<1>1. CASE /\ user' = [s \in Services |->
                 [user[s] EXCEPT !.time = IF @ = 0 THEN 0 ELSE @ + run[r].order.time]]
           /\ run' = [run EXCEPT ![r].pc = "rows"]
           /\ UNCHANGED faults
  <2> DEFINE x == [run[r] EXCEPT !.pc = "rows"]
  <2>1. x \in RunType /\ x.pc = "rows" /\ x.order = run[r].order /\ x.shows = run[r].shows
        /\ x.copy = run[r].copy
    BY <1>r DEF RunType, IncreasePcs
  <2>2. run' = [run EXCEPT ![r] = x]
    BY <1>1, <1>t
  <2>3. Loaded(x) /\ RunReady(x)
    BY <1>0, <1>r, <2>1 DEF Loaded, RunReady, Bulk
  <2>4. ASSUME NEW s \in Services
        PROVE  /\ user'[s] \in Holding
               /\ RunAgrees(run[r], s, user[s], row[s], due[s])
                      => RunAgrees(x, s, user'[s], row[s], due[s])
    <3> DEFINE t == IF user[s].time = 0 THEN 0 ELSE user[s].time + run[r].order.time
    <3>1. user[s] = [volume |-> user[s].volume, time |-> user[s].time]
          /\ user[s].volume \in Nat /\ user[s].time \in Int
      BY <1>t DEF Holding
    <3>2. t \in Int
      BY <3>1, RunHas
    <3>3. user'[s] = [volume |-> user[s].volume, time |-> t]
      BY <1>1, <1>t, <3>1
    <3>5. user'[s] \in Holding
      BY <3>1, <3>2, <3>3 DEF Holding
    <3>6. ASSUME RunAgrees(run[r], s, user[s], row[s], due[s])
          PROVE  RunAgrees(x, s, user'[s], row[s], due[s])
      <4>1. row[s] = due[s] /\ run[r].copy[s] = row[s] /\ user[s] = BulkUser(run[r], row[s])
        BY <1>0, <3>6 DEF RunAgrees, Bulk
      <4>2. /\ user[s].volume = Increase!Raised(row[s].volume, run[r].order.volume)
            /\ user[s].time = row[s].time
        BY <1>0, <4>1 DEF BulkUser
      <4>3. BulkUser(x, row[s]) = [volume |-> user[s].volume, time |-> t]
        BY <2>1, <4>2 DEF BulkUser
      <4> QED
        BY <2>1, <3>3, <4>1, <4>3 DEF RunAgrees, Bulk
    <3> QED
      BY <3>5, <3>6
  <2>5. user' \in [Services -> Holding]
    BY <1>1, <2>4
  <2> HIDE DEF x
  <2> QED
    BY <1>0, <1>1, <1>t, <1>r, <1>p, <2>1, <2>2, <2>3, <2>4, <2>5, RunStep
<1>2. CASE Increase!Mishap /\ run' = [run EXCEPT ![r].pc = "end"] /\ UNCHANGED user
  BY <1>0, <1>2, <1>r, FailedStep
<1> QED
  BY <1>0, <1>1, <1>2

\* Where the rule covers it, the panel and the rows are raised alike.
LEMMA GrownIsBulk ==
    ASSUME NEW old \in Holding, NEW amount \in BulkOrders, Increase!Covered(old, amount)
    PROVE  Increase!Grown(old, amount, NOW) =
              [volume |-> Increase!Raised(old.volume, amount.volume),
               time |-> IF old.time # 0 THEN old.time + amount.time ELSE old.time]
<1>1. old.volume \in Nat /\ old.time \in Int /\ amount.volume \in Int /\ amount.time \in Int
  BY DEF Holding, BulkOrders
<1>2. (IF amount.volume # 0 THEN Increase!Clipped(old.volume + amount.volume) ELSE old.volume)
         = Increase!Raised(old.volume, amount.volume)
  BY <1>1 DEF Increase!Covered, Increase!Raised, Increase!Clipped
<1>3. (IF amount.time # 0 THEN (IF old.time = 0 THEN NOW ELSE old.time) + amount.time
       ELSE old.time) = (IF old.time # 0 THEN old.time + amount.time ELSE old.time)
  BY <1>1 DEF Increase!Covered
<1> QED
  BY <1>2, <1>3 DEF Increase!Grown

\* Fields that do not change keep what the row has.
LEMMA GrownFields ==
    ASSUME NEW old \in Holding, NEW amount \in BulkOrders,
           NEW new, new = Increase!Grown(old, amount, NOW)
    PROVE  [volume |-> IF amount.volume # 0 THEN new.volume ELSE old.volume,
            time |-> IF amount.time # 0 THEN new.time ELSE old.time] = new
BY DEF Increase!Grown

LEMMA BulkRowsKeeps ==
    IncreaseAssumptions => \A r \in Runs : IncreaseInv /\ Increase!BulkRows(r) => IncreaseInv'
<1> SUFFICES ASSUME IncreaseAssumptions, NEW r \in Runs, IncreaseInv, Increase!BulkRows(r)
             PROVE  IncreaseInv'
  OBVIOUS
<1> DEFINE amount == run[r].order
           new(s) == Increase!Grown(run[r].copy[s], amount, NOW)
           mixed(s) == [volume |-> IF amount.volume # 0 THEN new(s).volume ELSE row[s].volume,
                        time |-> IF amount.time # 0 THEN new(s).time ELSE row[s].time]
           x == [run[r] EXCEPT !.pc = "end"]
<1>0. /\ run[r].pc = "rows" /\ UNCHANGED <<user, rights, Increase!Chat, owner, doubled>>
      /\ \/ row' = [s \in Services |-> mixed(s)] /\ UNCHANGED faults
         \/ Increase!Mishap /\ UNCHANGED row
      /\ due' = [s \in Services |-> Increase!Grown(due[s], amount, NOW)]
      /\ apart' = apart \cup {s \in Services : ~Increase!Covered(run[r].copy[s], amount)}
                        \cup Increase!Crowded(r, Services)
      /\ run' = [run EXCEPT ![r].pc = "end"]
  BY DEF Increase!BulkRows
<1>t. user \in [Services -> Holding] /\ row \in [Services -> Holding] /\ due \in [Services -> Holding]
      /\ apart \subseteq Services /\ run \in [Runs -> RunType] /\ faults \in Nat
  BY DEF IncreaseInv, IncreaseTyped
<1>r. run[r] \in RunType /\ run[r].copy \in [Services -> Holding] /\ Loaded(run[r])
      /\ amount \in BulkOrders
  BY <1>0, RunHas DEF RunReady, Bulk, Loaded
<1>p. /\ apart \subseteq apart' /\ apart' \subseteq Services
      /\ \A s \in Services \ apart' : Increase!Covered(run[r].copy[s], amount)
  BY <1>0, <1>t, CrowdedIs DEF IncreaseInv
<1>1. x \in RunType /\ x.pc = "end" /\ x.order = run[r].order /\ x.shows = run[r].shows
  BY <1>r DEF RunType, IncreasePcs
<1>2. run' = [run EXCEPT ![r] = x]
  BY <1>0, <1>t
<1>3. Loaded(x) /\ RunReady(x)
  BY <1>1 DEF Loaded, RunReady, Bulk
<1>4. ASSUME NEW s \in Services PROVE Increase!Grown(due[s], amount, NOW) \in Holding /\ mixed(s) \in Holding
  <2>1. Increase!Grown(due[s], amount, NOW) \in Holding /\ new(s) \in Holding
    BY <1>t, <1>r, GrownIs
  <2> HIDE DEF new
  <2>2. row[s] \in Holding
    BY <1>t
  <2> QED
    BY <2>1, <2>2 DEF Holding
<1>5. due' \in [Services -> Holding]
  BY <1>0, <1>4
<1>6. row' \in [Services -> Holding]
  BY <1>0, <1>t, <1>4
<1>7. ASSUME NEW s \in Services \ apart', faults' = faults,
             RunAgrees(run[r], s, user[s], row[s], due[s])
      PROVE  RunAgrees(x, s, user'[s], row'[s], due'[s])
  <2>1. row[s] = due[s] /\ run[r].copy[s] = row[s] /\ user[s] = BulkUser(run[r], row[s])
    BY <1>0, <1>7 DEF RunAgrees, Bulk
  <2>2. user[s] = Increase!Grown(row[s], amount, NOW)
    BY <1>0, <1>p, <1>t, <1>r, <2>1, GrownIsBulk DEF BulkUser
  <2>3. row' = [z \in Services |-> mixed(z)]
    BY <1>0, <1>t, <1>7 DEF Increase!Mishap
  <2>4. mixed(s) = new(s)
    BY <1>t, <1>r, <2>1, GrownFields
  <2>5. row'[s] = user[s] /\ due'[s] = user[s] /\ user'[s] = user[s]
    BY <1>0, <2>1, <2>2, <2>3, <2>4
  <2> QED
    BY <1>1, <2>5 DEF RunAgrees, Bulk
<1>8. faults' = faults \/ faults' = faults + 1
  BY <1>0 DEF Increase!Mishap
<1> HIDE DEF x
<1>9. user' \in [Services -> Holding]
  BY <1>0, <1>t
<1> QED
  BY <1>0, <1>r, <1>p, <1>1, <1>2, <1>3, <1>5, <1>6, <1>7, <1>8, <1>9, RunStep

LEMMA ReadUserKeeps ==
    IncreaseAssumptions => \A r \in Runs : IncreaseInv /\ Increase!ReadUser(r) => IncreaseInv'
<1> SUFFICES ASSUME IncreaseAssumptions, NEW r \in Runs, IncreaseInv, Increase!ReadUser(r)
             PROVE  IncreaseInv'
  OBVIOUS
<1>0. PICK s \in run[r].left :
         IF s \in Unsynced
         THEN run' = [run EXCEPT ![r].left = @ \ {s}] /\ UNCHANGED apart
         ELSE /\ run' = [run EXCEPT ![r].pc = "modify", ![r].left = @ \ {s}, ![r].service = s,
                                    ![r].new = Increase!Grown(user[s], run[r].order, NOW)]
              /\ apart' = apart \cup (IF Increase!Covered(user[s], run[r].order) THEN {} ELSE {s})
                                \cup Increase!Crowded(r, {s})
  BY Zenon DEF Increase!ReadUser
<1>1. run[r].pc = "manual" /\ UNCHANGED <<user, row, due, rights, Increase!Chat, owner, doubled, faults>>
  BY DEF Increase!ReadUser
<1>t. user \in [Services -> Holding] /\ row \in [Services -> Holding] /\ due \in [Services -> Holding]
      /\ apart \subseteq Services /\ run \in [Runs -> RunType]
  BY DEF IncreaseInv, IncreaseTyped
<1>r. /\ run[r] \in RunType /\ Loaded(run[r]) /\ s \in Services /\ run[r].order \in BulkOrders
      /\ run[r].left \subseteq Services
  BY <1>1, RunHas DEF Loaded
<1>2. CASE s \in Unsynced
  <2> DEFINE x == [run[r] EXCEPT !.left = @ \ {s}]
  <2>1. x \in RunType /\ x.pc = "manual" /\ x.order = run[r].order /\ x.shows = run[r].shows
    BY <1>1, <1>r DEF RunType, IncreasePcs
  <2>2. run' = [run EXCEPT ![r] = x]
    BY <1>0, <1>2, <1>t
  <2>3. Loaded(x) /\ RunReady(x)
    BY <2>1 DEF Loaded, RunReady, Bulk
  <2>4. \A z \in Services : RunAgrees(run[r], z, user[z], row[z], due[z])
            => RunAgrees(x, z, user[z], row[z], due[z])
    BY <1>1, <2>1 DEF RunAgrees, Bulk
  <2> HIDE DEF x
  <2> QED
    BY <1>0, <1>1, <1>2, <1>t, <1>r, <2>1, <2>2, <2>3, <2>4, RunStep
<1>3. CASE s \notin Unsynced
  <2> DEFINE new == Increase!Grown(user[s], run[r].order, NOW)
             x == [run[r] EXCEPT !.pc = "modify", !.left = @ \ {s}, !.service = s, !.new = new]
  <2>0. new \in Holding
    BY <1>t, <1>r, GrownIs
  <2>2. run' = [run EXCEPT ![r] = x]
    BY <1>0, <1>3, <1>t
  <2>p. apart \subseteq apart' /\ apart' \subseteq Services
    BY <1>0, <1>3, <1>t, <1>r, CrowdedIs DEF IncreaseInv
  <2> HIDE DEF new
  <2>1. /\ x \in RunType /\ x.pc = "modify" /\ x.order = run[r].order /\ x.shows = run[r].shows
        /\ x.service = s /\ x.new = new
    BY <1>1, <1>r, <2>0 DEF RunType, IncreasePcs
  <2>3. Loaded(x) /\ RunReady(x)
    BY <1>r, <2>1 DEF Loaded, RunReady, Bulk
  <2>4. \A z \in Services : RunAgrees(run[r], z, user[z], row[z], due[z])
            => RunAgrees(x, z, user[z], row[z], due[z])
    BY <1>1, <2>1 DEF RunAgrees, Bulk, new
  <2> HIDE DEF x
  <2> QED
    BY <1>1, <1>t, <1>r, <2>1, <2>2, <2>3, <2>4, <2>p, RunStep
<1> QED
  BY <1>2, <1>3

LEMMA ModifyUserKeeps ==
    IncreaseAssumptions => \A r \in Runs : IncreaseInv /\ Increase!ModifyUser(r) => IncreaseInv'
<1> SUFFICES ASSUME IncreaseAssumptions, NEW r \in Runs, IncreaseInv, Increase!ModifyUser(r)
             PROVE  IncreaseInv'
  OBVIOUS
<1> DEFINE s == run[r].service
           amount == run[r].order
           mixed == [volume |-> IF amount.volume # 0 THEN run[r].new.volume ELSE user[s].volume,
                     time |-> IF amount.time # 0 THEN run[r].new.time ELSE user[s].time]
<1>0. /\ run[r].pc = "modify" /\ UNCHANGED <<row, due, rights, Increase!Chat, owner, doubled>>
      /\ \/ /\ user' = [user EXCEPT ![s] = mixed]
            /\ run' = [run EXCEPT ![r].pc = "write"]
            /\ UNCHANGED faults
         \/ Increase!Mishap /\ run' = [run EXCEPT ![r].pc = "manual"] /\ UNCHANGED user
      /\ apart' = apart \cup Increase!Crowded(r, {s})
  BY DEF Increase!ModifyUser
<1>t. user \in [Services -> Holding] /\ row \in [Services -> Holding] /\ due \in [Services -> Holding]
      /\ apart \subseteq Services /\ run \in [Runs -> RunType]
  BY DEF IncreaseInv, IncreaseTyped
<1>r. run[r] \in RunType /\ Loaded(run[r]) /\ s \in Services /\ amount \in BulkOrders
      /\ run[r].new \in Holding
  BY <1>0, RunHas DEF RunReady, Loaded
<1>p. apart \subseteq apart' /\ apart' \subseteq Services
  BY <1>0, <1>t, <1>r, CrowdedIs DEF IncreaseInv
<1>1. CASE /\ user' = [user EXCEPT ![s] = mixed]
           /\ run' = [run EXCEPT ![r].pc = "write"]
           /\ UNCHANGED faults
  <2> DEFINE x == [run[r] EXCEPT !.pc = "write"]
  <2>1. /\ x \in RunType /\ x.pc = "write" /\ x.order = amount /\ x.shows = run[r].shows
        /\ x.service = s /\ x.new = run[r].new
    BY <1>r DEF RunType, IncreasePcs
  <2>2. run' = [run EXCEPT ![r] = x]
    BY <1>1, <1>t
  <2>3. Loaded(x) /\ RunReady(x)
    BY <1>r, <2>1 DEF Loaded, RunReady, Bulk
  <2>4. mixed \in Holding
    <3>1. user[s] \in Holding
      BY <1>t, <1>r
    <3> QED
      BY <1>r, <3>1 DEF Holding
  <2>5. user' \in [Services -> Holding]
    BY <1>1, <1>t, <2>4
  <2>6. ASSUME NEW z \in Services, RunAgrees(run[r], z, user[z], row[z], due[z])
        PROVE  RunAgrees(x, z, user'[z], row[z], due[z])
    <3>1. row[z] = due[z] /\ user[z] = row[z] /\ (z = s => x.new = Increase!Grown(row[z], amount, NOW))
      BY <1>0, <2>1, <2>6 DEF RunAgrees, Bulk
    <3>2. CASE z = s
      <4>1. mixed = run[r].new
        BY <1>t, <1>r, <2>1, <3>1, <3>2, GrownFields
      <4>2. user'[z] = run[r].new
        BY <1>1, <1>t, <1>r, <3>2, <4>1
      <4> QED
        BY <2>1, <3>1, <3>2, <4>2 DEF RunAgrees, Bulk
    <3>3. CASE z # s
      <4>1. user'[z] = user[z]
        BY <1>1, <1>t, <3>3
      <4> QED
        BY <2>1, <3>1, <3>3, <4>1 DEF RunAgrees, Bulk
    <3> QED
      BY <3>2, <3>3
  <2> HIDE DEF x
  <2> QED
    BY <1>0, <1>1, <1>t, <1>r, <1>p, <2>1, <2>2, <2>3, <2>5, <2>6, RunStep
<1>2. CASE Increase!Mishap /\ run' = [run EXCEPT ![r].pc = "manual"] /\ UNCHANGED user
  <2>1. {s} \in SUBSET Services /\ apart' = apart \cup Increase!Crowded(r, {s})
    BY <1>0, <1>r
  <2>2. UNCHANGED <<user, row, due, rights, Increase!Chat, owner, doubled>>
    BY <1>0, <1>2
  <2>3. Loaded(run[r])
    BY <1>r
  <2> HIDE DEF s, mixed
  <2> QED
    BY <1>2, <2>1, <2>2, <2>3, FailedStep
<1> QED
  BY <1>0, <1>1, <1>2

LEMMA WriteRowKeeps ==
    IncreaseAssumptions => \A r \in Runs : IncreaseInv /\ Increase!WriteRow(r) => IncreaseInv'
<1> SUFFICES ASSUME IncreaseAssumptions, NEW r \in Runs, IncreaseInv, Increase!WriteRow(r)
             PROVE  IncreaseInv'
  OBVIOUS
<1> DEFINE s == run[r].service
           amount == run[r].order
           mixed == [volume |-> IF amount.volume # 0 THEN run[r].new.volume ELSE row[s].volume,
                     time |-> IF amount.time # 0 THEN run[r].new.time ELSE row[s].time]
           x == [run[r] EXCEPT !.pc = "manual", !.service = Increase!None]
<1>0. /\ run[r].pc = "write" /\ UNCHANGED <<user, rights, Increase!Chat, owner, doubled>>
      /\ \/ row' = [row EXCEPT ![s] = mixed] /\ UNCHANGED faults
         \/ Increase!Mishap /\ UNCHANGED row
      /\ due' = [due EXCEPT ![s] = Increase!Grown(@, amount, NOW)]
      /\ run' = [run EXCEPT ![r].pc = "manual", ![r].service = Increase!None]
      /\ apart' = apart \cup Increase!Crowded(r, {s})
  BY DEF Increase!WriteRow
<1>t. user \in [Services -> Holding] /\ row \in [Services -> Holding] /\ due \in [Services -> Holding]
      /\ apart \subseteq Services /\ run \in [Runs -> RunType] /\ faults \in Nat
  BY DEF IncreaseInv, IncreaseTyped
<1>r. run[r] \in RunType /\ Loaded(run[r]) /\ s \in Services /\ amount \in BulkOrders
      /\ run[r].new \in Holding
  BY <1>0, RunHas DEF RunReady, Loaded
<1>p. apart \subseteq apart' /\ apart' \subseteq Services
  BY <1>0, <1>t, <1>r, CrowdedIs DEF IncreaseInv
<1>1. x \in RunType /\ x.pc = "manual" /\ x.order = amount /\ x.shows = run[r].shows
  BY <1>r DEF RunType, IncreasePcs
<1>2. run' = [run EXCEPT ![r] = x]
  BY <1>0, <1>t
<1>3. Loaded(x) /\ RunReady(x)
  BY <1>1 DEF Loaded, RunReady, Bulk
<1>4. mixed \in Holding /\ Increase!Grown(due[s], amount, NOW) \in Holding
  <2>1. row[s] \in Holding
    BY <1>t, <1>r
  <2> QED
    BY <1>t, <1>r, <2>1, GrownIs DEF Holding
<1>5. row' \in [Services -> Holding] /\ due' \in [Services -> Holding]
  BY <1>0, <1>t, <1>4
<1>6. ASSUME NEW z \in Services, faults' = faults, RunAgrees(run[r], z, user[z], row[z], due[z])
      PROVE  RunAgrees(x, z, user'[z], row'[z], due'[z])
  <2>0. row' = [row EXCEPT ![s] = mixed]
    BY <1>0, <1>t, <1>6 DEF Increase!Mishap
  <2>1. row[z] = due[z]
        /\ (IF z = s THEN user[z] = run[r].new /\ run[r].new = Increase!Grown(row[z], amount, NOW)
            ELSE user[z] = row[z])
    BY <1>0, <1>6 DEF RunAgrees, Bulk
  <2>2. CASE z = s
    <3>1. mixed = run[r].new
      BY <1>t, <1>r, <2>1, <2>2, GrownFields
    <3>2. row'[z] = run[r].new /\ due'[z] = run[r].new /\ user'[z] = run[r].new
      BY <1>0, <1>t, <1>r, <2>0, <2>1, <2>2, <3>1
    <3> QED
      BY <1>1, <3>2 DEF RunAgrees, Bulk
  <2>3. CASE z # s
    <3>1. row'[z] = row[z] /\ due'[z] = due[z] /\ user'[z] = user[z]
      BY <1>0, <1>t, <2>0, <2>3
    <3> QED
      BY <1>1, <2>1, <2>3, <3>1 DEF RunAgrees, Bulk
  <2> QED
    BY <2>2, <2>3
<1>7. faults' = faults \/ faults' = faults + 1
  BY <1>0 DEF Increase!Mishap
<1>8. user' \in [Services -> Holding]
  BY <1>0, <1>t
<1> HIDE DEF x
<1> QED
  BY <1>0, <1>r, <1>p, <1>1, <1>2, <1>3, <1>5, <1>6, <1>7, <1>8, RunStep

LEMMA NoRunIs ==
    /\ Increase!NoRun \in RunType /\ Increase!NoRun.pc = "idle" /\ ~Loaded(Increase!NoRun) /\ RunReady(Increase!NoRun)
    /\ Increase!Nothing \in BulkOrders
<1>1. Increase!Nothing \in BulkOrders /\ [volume |-> 0, time |-> 0] \in Holding
  BY DEF Increase!Nothing, BulkOrders, Holding
<1> QED
  BY <1>1 DEF Increase!NoRun, RunType, IncreasePcs, Loaded, RunReady, Bulk

\* Who was told apart once stays so, and runs and owner keep their distance.
LEMMA LoadHereKeeps ==
    \A r \in Runs : IncreaseInv /\ Increase!Load(r) /\ run[r].order.panel = "here" => IncreaseInv'
<1> SUFFICES ASSUME NEW r \in Runs, IncreaseInv, Increase!Load(r), run[r].order.panel = "here"
             PROVE  IncreaseInv'
  OBVIOUS
<1> DEFINE x == [run[r] EXCEPT !.pc = IF rights THEN "dry" ELSE "manual",
                               !.copy = IF rights THEN row ELSE <<>>, !.left = Services]
<1>0. /\ run[r].pc = "load" /\ UNCHANGED <<user, row, due, rights, session, owner, doubled>>
      /\ run' = [run EXCEPT ![r].pc = IF rights THEN "dry" ELSE "manual",
                            ![r].copy = IF rights THEN row ELSE <<>>, ![r].left = Services]
      /\ apart' = apart \cup Increase!Crowded(r, Services)
      /\ IF run[r].web THEN UNCHANGED <<shown, faults>>
         ELSE \/ shown' = [shown EXCEPT !.live = FALSE] /\ UNCHANGED faults
              \/ Increase!Mishap /\ UNCHANGED shown
  BY DEF Increase!Load
<1>t. /\ user \in [Services -> Holding] /\ row \in [Services -> Holding]
      /\ due \in [Services -> Holding] /\ apart \subseteq Services /\ run \in [Runs -> RunType]
      /\ shown \in [order : BulkOrders, live : BOOLEAN, holds : BOOLEAN, applied : Nat]
      /\ faults \in Nat /\ doubled \in Nat /\ run[r] \in RunType
      /\ owner # Increase!Free => owner.service \in Services
  BY DEF IncreaseInv, IncreaseTyped
<1>1. /\ x \in RunType /\ x.order = run[r].order /\ x.shows = run[r].shows
      /\ x.pc = (IF rights THEN "dry" ELSE "manual") /\ (rights => x.copy = row)
  BY <1>t DEF RunType, IncreasePcs
<1>2. run' = [run EXCEPT ![r] = x]
  BY <1>0, <1>t
<1> HIDE DEF x
<1>3. run' \in [Runs -> RunType] /\ run'[r] = x /\ \A q \in Runs \ {r} : run'[q] = run[q]
  BY <1>1, <1>2, <1>t
<1>4. /\ shown' \in [order : BulkOrders, live : BOOLEAN, holds : BOOLEAN, applied : Nat]
      /\ shown'.holds = shown.holds /\ shown'.order = shown.order
      /\ shown'.applied = shown.applied
      /\ faults' \in Nat /\ faults' >= faults /\ (faults' = 0 => faults = 0)
  <2>1. shown' = shown \/ shown' = [shown EXCEPT !.live = FALSE]
    BY <1>0
  <2>2. faults' = faults \/ faults' = faults + 1
    BY <1>0 DEF Increase!Mishap
  <2>3. /\ faults' \in Nat /\ faults' >= faults /\ (faults' = 0 => faults = 0)
    BY <1>t, <2>2
  <2> QED
    BY <1>t, <2>1, <2>3
<1>5. apart \subseteq apart' /\ apart' \subseteq Services
  BY <1>0, <1>t, CrowdedIs DEF IncreaseInv
<1>6. IncreaseTyped'
  BY <1>0, <1>3, <1>4, <1>5 DEF IncreaseInv, IncreaseTyped
<1>7. ShownHolds'
  <2>1. \A q \in Runs : run'[q].pc # "idle" => run'[q].order = run'[q].shows
    BY <1>0, <1>1, <1>3 DEF IncreaseInv, ShownHolds
  <2> QED
    BY <1>0, <1>4, <2>1 DEF IncreaseInv, ShownHolds
<1>8. AppliedHolds'
  <2>0. /\ shown.applied \in Nat /\ shown.applied <= 1 + doubled + faults
        /\ shown.live /\ ~BotLoads => shown.applied <= doubled + faults
    BY <1>t DEF IncreaseInv, AppliedHolds
  <2>1. CASE run[r].web
    <3>1. BotLoads => BotLoads'
      BY <1>0, <1>3, <2>1 DEF BotLoads
    <3> QED
      BY <1>0, <2>0, <2>1, <3>1 DEF AppliedHolds
  <2>2. CASE ~run[r].web /\ shown' = [shown EXCEPT !.live = FALSE] /\ UNCHANGED faults
    <3>1. shown'.live = FALSE /\ shown'.applied = shown.applied
      BY <1>t, <2>2
    <3> QED
      BY <1>0, <2>0, <2>2, <3>1 DEF AppliedHolds
  <2>3. CASE Increase!Mishap /\ UNCHANGED shown
    <3>1. faults' = faults + 1
      BY <2>3 DEF Increase!Mishap
    <3> QED
      BY <1>0, <1>t, <2>0, <2>3, <3>1 DEF AppliedHolds
  <2> QED
    BY <1>0, <2>1, <2>2, <2>3
<1>9. WorkHolds'
  <2>0. \A q \in Runs \ {r} : Loaded(run[q]) => Services \subseteq apart'
    BY <1>0 DEF Increase!Crowded, Increase!Here, Increase!Working, Loaded, IncreaseInv, WorkHolds,
                RunsHere
  <2>1. \A q \in Runs \ {r} : Loaded(run'[q]) => Loaded(run[q])
    BY <1>3
  <2>2. RunsApart'
    BY <2>0, <2>1 DEF RunsApart
  <2>3. owner # Increase!Free => owner.service \in apart'
    BY <1>0, <1>t DEF Increase!Crowded
  <2>4. OwnerApart'
    BY <1>0, <2>3 DEF OwnerApart
  <2>5. RunsReady'
    <3>1. RunReady(x)
      BY <1>1, <1>t DEF RunReady, Bulk
    <3> QED
      BY <1>3, <3>1 DEF IncreaseInv, WorkHolds, RunsReady
  <2>6. RunHolds'
    <3> SUFFICES ASSUME faults' = 0, NEW q \in Runs, Loaded(run'[q]), NEW s \in Services \ apart'
                 PROVE  RunAgrees(run'[q], s, user'[s], row'[s], due'[s])
      BY DEF RunHolds
    <3>1. q = r /\ \A o \in Runs : ~Loaded(run[o])
      BY <1>0, <2>0, <2>1 DEF Loaded
    <3>2. RestAgrees(s, owner, user[s], row[s], due[s])
      BY <1>4, <1>5, <3>1 DEF IncreaseInv, WorkHolds, RestHolds
    <3>3. user[s] = row[s] /\ row[s] = due[s]
      BY <2>3, <3>2 DEF RestAgrees
    <3>4. row[s] = [volume |-> row[s].volume, time |-> row[s].time]
      BY <1>t DEF Holding
    <3>5. x.pc = "dry" => BulkUser(x, row[s]) = row[s]
      BY <3>4 DEF BulkUser
    <3>6. RunAgrees(x, s, user[s], row[s], due[s])
      BY <1>1, <3>3, <3>5 DEF RunAgrees, Bulk
    <3> QED
      BY <1>0, <1>3, <3>1, <3>6
  <2>7. RestHolds'
    <3>1. Loaded(run'[r])
      BY <1>1, <1>3 DEF Loaded
    <3> QED
      BY <3>1 DEF RestHolds
  <2>8. RunsHere'
    BY <1>1, <1>3, <2>1 DEF IncreaseInv, WorkHolds, RunsHere
  <2> QED
    BY <2>2, <2>4, <2>5, <2>6, <2>7, <2>8 DEF WorkHolds
<1> QED
  BY <1>6, <1>7, <1>8, <1>9 DEF IncreaseInv

\* A run on another panel touches neither the services nor what is told apart.
LEMMA LoadAwayKeeps ==
    \A r \in Runs : IncreaseInv /\ Increase!Load(r) /\ run[r].order.panel # "here" => IncreaseInv'
<1> SUFFICES ASSUME NEW r \in Runs, IncreaseInv, Increase!Load(r), run[r].order.panel # "here"
             PROVE  IncreaseInv'
  OBVIOUS
<1> DEFINE x == [run[r] EXCEPT !.pc = "away"]
<1>0. /\ run[r].pc = "load" /\ UNCHANGED <<user, row, due, apart, rights, session, owner, doubled>>
      /\ run' = [run EXCEPT ![r].pc = "away"]
      /\ IF run[r].web THEN UNCHANGED <<shown, faults>>
         ELSE \/ shown' = [shown EXCEPT !.live = FALSE] /\ UNCHANGED faults
              \/ Increase!Mishap /\ UNCHANGED shown
  BY DEF Increase!Load
<1>t. /\ run \in [Runs -> RunType] /\ run[r] \in RunType
      /\ shown \in [order : BulkOrders, live : BOOLEAN, holds : BOOLEAN, applied : Nat]
      /\ faults \in Nat /\ doubled \in Nat
  BY DEF IncreaseInv, IncreaseTyped
<1>1. /\ x \in RunType /\ x.order = run[r].order /\ x.shows = run[r].shows /\ x.pc = "away"
  BY <1>t DEF RunType, IncreasePcs
<1>2. run' = [run EXCEPT ![r] = x]
  BY <1>0, <1>t
<1> HIDE DEF x
<1>3. run' \in [Runs -> RunType] /\ run'[r] = x /\ \A q \in Runs \ {r} : run'[q] = run[q]
  BY <1>1, <1>2, <1>t
<1>4. /\ shown' \in [order : BulkOrders, live : BOOLEAN, holds : BOOLEAN, applied : Nat]
      /\ shown'.holds = shown.holds /\ shown'.order = shown.order
      /\ shown'.applied = shown.applied
      /\ faults' \in Nat /\ faults' >= faults /\ (faults' = 0 => faults = 0)
  <2>1. shown' = shown \/ shown' = [shown EXCEPT !.live = FALSE]
    BY <1>0
  <2>2. faults' = faults \/ faults' = faults + 1
    BY <1>0 DEF Increase!Mishap
  <2>3. /\ faults' \in Nat /\ faults' >= faults /\ (faults' = 0 => faults = 0)
    BY <1>t, <2>2
  <2> QED
    BY <1>t, <2>1, <2>3
<1>6. IncreaseTyped'
  BY <1>0, <1>3, <1>4 DEF IncreaseInv, IncreaseTyped
<1>7. ShownHolds'
  <2>1. \A q \in Runs : run'[q].pc # "idle" => run'[q].order = run'[q].shows
    BY <1>0, <1>1, <1>3 DEF IncreaseInv, ShownHolds
  <2> QED
    BY <1>0, <1>4, <2>1 DEF IncreaseInv, ShownHolds
<1>8. AppliedHolds'
  <2>0. /\ shown.applied \in Nat /\ shown.applied <= 1 + doubled + faults
        /\ shown.live /\ ~BotLoads => shown.applied <= doubled + faults
    BY <1>t DEF IncreaseInv, AppliedHolds
  <2>1. CASE run[r].web
    <3>1. BotLoads => BotLoads'
      BY <1>0, <1>3, <2>1 DEF BotLoads
    <3> QED
      BY <1>0, <2>0, <2>1, <3>1 DEF AppliedHolds
  <2>2. CASE ~run[r].web /\ shown' = [shown EXCEPT !.live = FALSE] /\ UNCHANGED faults
    <3>1. shown'.live = FALSE /\ shown'.applied = shown.applied
      BY <1>t, <2>2
    <3> QED
      BY <1>0, <2>0, <2>2, <3>1 DEF AppliedHolds
  <2>3. CASE Increase!Mishap /\ UNCHANGED shown
    <3>1. faults' = faults + 1
      BY <2>3 DEF Increase!Mishap
    <3> QED
      BY <1>0, <1>t, <2>0, <2>3, <3>1 DEF AppliedHolds
  <2> QED
    BY <1>0, <2>1, <2>2, <2>3
<1>9. WorkHolds'
  <2>1. \A q \in Runs : Loaded(run'[q]) => Loaded(run[q]) /\ q # r /\ run'[q] = run[q]
    BY <1>1, <1>3 DEF Loaded
  <2>2. \A q \in Runs : Loaded(run[q]) => Loaded(run'[q])
    BY <1>0, <1>3 DEF Loaded
  <2>3. RunsHere' /\ RunsApart' /\ OwnerApart'
    BY <1>0, <2>1 DEF IncreaseInv, WorkHolds, RunsHere, RunsApart, OwnerApart
  <2>4. RunsReady'
    <3>1. RunReady(x)
      BY <1>1 DEF RunReady, Bulk
    <3> QED
      BY <1>3, <3>1 DEF IncreaseInv, WorkHolds, RunsReady
  <2>5. RunHolds'
    BY <1>0, <1>4, <2>1 DEF IncreaseInv, WorkHolds, RunHolds
  <2>6. RestHolds'
    BY <1>0, <1>4, <2>2 DEF IncreaseInv, WorkHolds, RestHolds
  <2> QED
    BY <2>3, <2>4, <2>5, <2>6 DEF WorkHolds
<1> QED
  BY <1>6, <1>7, <1>8, <1>9 DEF IncreaseInv

LEMMA LoadKeeps == \A r \in Runs : IncreaseInv /\ Increase!Load(r) => IncreaseInv'
BY LoadHereKeeps, LoadAwayKeeps

LEMMA IncreaseFinishKeeps == \A r \in Runs : IncreaseInv /\ Increase!Finish(r) => IncreaseInv'
<1> SUFFICES ASSUME NEW r \in Runs, IncreaseInv, Increase!Finish(r) PROVE IncreaseInv'
  OBVIOUS
<1>0. /\ run[r].pc \in {"end", "away", "manual"}
      /\ UNCHANGED <<user, row, due, apart, rights, owner, doubled, faults>>
      /\ run' = [run EXCEPT ![r] = Increase!NoRun]
      /\ \/ UNCHANGED <<session, shown>>
         \/ session' = Increase!Nothing /\ shown' = [shown EXCEPT !.holds = FALSE]
  BY DEF Increase!Finish, Increase!Data, Increase!Chat
<1>t. /\ run \in [Runs -> RunType]
      /\ shown \in [order : BulkOrders, live : BOOLEAN, holds : BOOLEAN, applied : Nat]
      /\ session \in BulkOrders
  BY DEF IncreaseInv, IncreaseTyped
<1>1. run' \in [Runs -> RunType] /\ run'[r] = Increase!NoRun /\ \A q \in Runs \ {r} : run'[q] = run[q]
  BY <1>0, <1>t, NoRunIs
<1>2. /\ shown' \in [order : BulkOrders, live : BOOLEAN, holds : BOOLEAN, applied : Nat]
      /\ session' \in BulkOrders
      /\ shown'.applied = shown.applied /\ shown'.live = shown.live
      /\ shown'.holds => shown' = shown /\ session' = session
  BY <1>0, <1>t, NoRunIs
<1>3. IncreaseTyped'
  BY <1>0, <1>1, <1>2 DEF IncreaseInv, IncreaseTyped
<1>4. ShownHolds'
  <2>1. \A q \in Runs : run'[q].pc # "idle" => run'[q].order = run'[q].shows
    BY <1>1, NoRunIs DEF IncreaseInv, ShownHolds
  <2> QED
    BY <1>2, <2>1 DEF IncreaseInv, ShownHolds
<1>5. AppliedHolds'
  <2>1. BotLoads => BotLoads'
    BY <1>0, <1>1 DEF BotLoads
  <2> QED
    BY <1>0, <1>2, <2>1 DEF IncreaseInv, AppliedHolds
<1>6. WorkHolds'
  <2>1. \A q \in Runs : Loaded(run'[q]) => Loaded(run[q]) /\ q # r
    BY <1>1, NoRunIs
  <2>2. RunsHere' /\ RunsApart' /\ OwnerApart'
    BY <1>0, <1>1, <2>1 DEF IncreaseInv, WorkHolds, RunsHere, RunsApart, OwnerApart
  <2>3. RunsReady'
    BY <1>1, NoRunIs DEF IncreaseInv, WorkHolds, RunsReady
  <2>4. RunHolds'
    BY <1>0, <1>1, <2>1 DEF IncreaseInv, WorkHolds, RunHolds
  <2>5. RestHolds'
    <3> SUFFICES ASSUME faults' = 0, NEW s \in Services \ apart', \A q \in Runs : ~Loaded(run'[q])
                 PROVE  RestAgrees(s, owner', user'[s], row'[s], due'[s])
      BY DEF RestHolds
    <3>0. CASE run[r].pc = "away"
      <4>1. \A q \in Runs : Loaded(run[q]) => Loaded(run'[q])
        BY <1>1, <3>0 DEF Loaded
      <4> QED
        BY <1>0, <4>1 DEF IncreaseInv, WorkHolds, RestHolds
    <3> SUFFICES ASSUME run[r].pc # "away"
                 PROVE  RestAgrees(s, owner', user'[s], row'[s], due'[s])
      BY <3>0
    <3>1. Loaded(run[r])
      BY <1>0 DEF Loaded
    <3>2. RunAgrees(run[r], s, user[s], row[s], due[s])
      BY <1>0, <3>1 DEF IncreaseInv, WorkHolds, RunHolds
    <3>3. owner # Increase!Free => s # owner.service
      BY <1>0, <3>1 DEF IncreaseInv, WorkHolds, OwnerApart
    <3> QED
      BY <1>0, <3>2, <3>3 DEF RunAgrees, RestAgrees
  <2> QED
    BY <2>2, <2>3, <2>4, <2>5 DEF WorkHolds
<1> QED
  BY <1>3, <1>4, <1>5, <1>6 DEF IncreaseInv

LEMMA IncreaseRestartKeeps == IncreaseInv /\ Increase!Restart => IncreaseInv'
<1> SUFFICES ASSUME IncreaseInv, Increase!Restart PROVE IncreaseInv'
  OBVIOUS
<1>0. /\ UNCHANGED <<user, row, due, apart, rights, session, shown, owner, doubled>>
      /\ run' = [q \in Runs |-> Increase!NoRun] /\ faults' = faults + 1
  BY DEF Increase!Restart, Increase!Mishap, Increase!Data, Increase!Chat
<1>1. run' \in [Runs -> RunType] /\ \A q \in Runs : run'[q] = Increase!NoRun
  BY <1>0, NoRunIs
<1>2. IncreaseTyped'
  BY <1>0, <1>1 DEF IncreaseInv, IncreaseTyped
<1>3. ShownHolds'
  BY <1>0, <1>1, NoRunIs DEF IncreaseInv, ShownHolds
<1>4. AppliedHolds'
  <2>1. /\ shown.applied \in Nat /\ doubled \in Nat /\ faults \in Nat
        /\ shown.applied <= 1 + doubled + faults
    BY DEF IncreaseInv, IncreaseTyped, AppliedHolds
  <2> QED
    BY <1>0, <2>1 DEF AppliedHolds
<1>5. WorkHolds'
  <2>1. faults \in Nat /\ faults' # 0
    BY <1>0 DEF IncreaseInv, IncreaseTyped
  <2> QED
    BY <1>1, <2>1, NoRunIs DEF WorkHolds, RunsHere, RunsApart, OwnerApart, RunsReady, RunHolds, RestHolds
<1> QED
  BY <1>2, <1>3, <1>4, <1>5 DEF IncreaseInv

\* A step that begins a run, or none, and leaves the data alone.
LEMMA DataKept ==
    ASSUME IncreaseInv, UNCHANGED <<Increase!Data, owner, faults>>, run' \in [Runs -> RunType],
           \A q \in Runs : run'[q] = run[q] \/ (~Loaded(run[q]) /\ run'[q].pc = "load")
    PROVE  WorkHolds'
<1>1. \A q \in Runs : /\ Loaded(run'[q]) => run'[q] = run[q] /\ Loaded(run[q])
                      /\ Loaded(run[q]) => run'[q] = run[q] /\ Loaded(run'[q])
  BY DEF Loaded
<1>0. UNCHANGED <<user, row, due, apart, owner, faults>>
  BY DEF Increase!Data
<1>2. RunsHere' /\ RunsApart' /\ OwnerApart'
  BY <1>0, <1>1 DEF IncreaseInv, WorkHolds, RunsHere, RunsApart, OwnerApart
<1>3. RunsReady'
  <2>1. \A q \in Runs : run'[q].pc = "load" => RunReady(run'[q])
    BY DEF RunReady, Bulk
  <2> QED
    BY <2>1 DEF IncreaseInv, WorkHolds, RunsReady
<1>4. RunHolds'
  BY <1>0, <1>1 DEF IncreaseInv, WorkHolds, RunHolds
<1>5. RestHolds'
  BY <1>0, <1>1 DEF IncreaseInv, WorkHolds, RestHolds
<1> QED
  BY <1>2, <1>3, <1>4, <1>5 DEF WorkHolds

LEMMA ChatKeeps ==
    IncreaseAssumptions /\ IncreaseInv /\ (Increase!PickPanel \/ Increase!SetAmount \/ Increase!Confirm \/ Increase!Cancel) => IncreaseInv'
<1> SUFFICES ASSUME IncreaseAssumptions, IncreaseInv,
                    Increase!PickPanel \/ Increase!SetAmount \/ Increase!Confirm \/ Increase!Cancel
             PROVE  IncreaseInv'
  OBVIOUS
<1>0. UNCHANGED <<user, row, due, apart, rights, run, owner, doubled, faults>>
  BY DEF Increase!PickPanel, Increase!SetAmount, Increase!Confirm, Increase!Cancel, Increase!Data
<1>t. /\ shown \in [order : BulkOrders, live : BOOLEAN, holds : BOOLEAN, applied : Nat]
      /\ session \in BulkOrders /\ run \in [Runs -> RunType] /\ faults \in Nat /\ doubled \in Nat
  BY DEF IncreaseInv, IncreaseTyped
<1>1. WorkHolds'
  BY <1>0, <1>t, DataKept DEF Increase!Data
<1>2. BotLoads' <=> BotLoads
  BY <1>0 DEF BotLoads
<1>3. /\ session' \in BulkOrders
      /\ shown' \in [order : BulkOrders, live : BOOLEAN, holds : BOOLEAN, applied : Nat]
      /\ shown'.holds => shown'.order = session'
      /\ shown'.applied \in {0, shown.applied}
      /\ shown'.live /\ shown'.applied # 0 => shown.live /\ shown'.applied = shown.applied
  <2>1. CASE Increase!SetAmount
    <3>0. PICK v \in Volumes \cup {0}, d \in Days \cup {0} :
             session' = [session EXCEPT !.volume = IF v # 0 THEN v ELSE @,
                                        !.time = IF d # 0 THEN d ELSE @]
      BY <2>1 DEF Increase!SetAmount
    <3>1. v \in Int /\ d \in Int
      BY DEF IncreaseAssumptions
    <3>2. session' \in BulkOrders
      BY <1>t, <3>0, <3>1 DEF BulkOrders
    <3>3. shown' = [shown EXCEPT !.holds = FALSE]
      BY <2>1 DEF Increase!SetAmount
    <3> QED
      BY <1>t, <3>2, <3>3
  <2>2. CASE Increase!Confirm
    BY <1>t, <2>2 DEF Increase!Confirm
  <2>3. CASE Increase!Cancel
    <3>1. session' = Increase!Nothing /\ shown' = [shown EXCEPT !.live = FALSE, !.holds = FALSE]
      BY <2>3 DEF Increase!Cancel
    <3> QED
      BY <1>t, <3>1, NoRunIs
  <2>4. CASE Increase!PickPanel
    <3>1. PICK panel \in Increase!Panels : session' = [session EXCEPT !.panel = panel]
      BY <2>4 DEF Increase!PickPanel
    <3>2. session' \in BulkOrders
      BY <1>t, <3>1 DEF BulkOrders
    <3>3. shown' = [shown EXCEPT !.holds = FALSE]
      BY <2>4 DEF Increase!PickPanel
    <3> QED
      BY <1>t, <3>2, <3>3
  <2> QED
    BY <2>1, <2>2, <2>3, <2>4
<1>4. IncreaseTyped'
  BY <1>0, <1>3 DEF IncreaseInv, IncreaseTyped
<1>5. ShownHolds'
  BY <1>0, <1>3 DEF IncreaseInv, ShownHolds
<1>6. AppliedHolds'
  <2>1. /\ shown.applied <= 1 + doubled + faults
        /\ shown.live /\ ~BotLoads => shown.applied <= doubled + faults
    BY DEF IncreaseInv, AppliedHolds
  <2>2. shown'.applied <= 1 + doubled + faults
    BY <1>t, <1>3, <2>1
  <2>3. shown'.live /\ ~BotLoads => shown'.applied <= doubled + faults
    BY <1>t, <1>3, <2>1
  <2> QED
    BY <1>0, <1>2, <2>2, <2>3 DEF AppliedHolds
<1> QED
  BY <1>1, <1>4, <1>5, <1>6 DEF IncreaseInv

LEMMA BeginsIs ==
    ASSUME IncreaseInv, NEW r \in Runs, NEW web \in BOOLEAN, NEW amount \in BulkOrders,
           run[r].pc = "idle", Increase!Begins(r, web, amount), ~web => amount = session
    PROVE  /\ run' \in [Runs -> RunType] /\ run'[r].pc = "load" /\ (run'[r].web <=> web)
           /\ run'[r].order = run'[r].shows
           /\ \A q \in Runs \ {r} : run'[q] = run[q]
           /\ \A q \in Runs : run'[q] = run[q] \/ (~Loaded(run[q]) /\ run'[q].pc = "load")
<1> DEFINE shows == IF ~web /\ shown.holds THEN shown.order ELSE amount
           x == [Increase!NoRun EXCEPT !.pc = "load", !.web = web, !.order = amount, !.shows = shows]
<1>1. run' = [run EXCEPT ![r] = x]
  BY DEF Increase!Begins
<1>2. shows \in BulkOrders /\ shows = amount
  BY DEF IncreaseInv, IncreaseTyped, ShownHolds
<1> HIDE DEF shows
<1>3. x \in RunType /\ x.pc = "load" /\ x.web = web /\ x.order = amount /\ x.shows = shows
  <2>1. /\ Increase!NoRun \in RunType
        /\ DOMAIN Increase!NoRun = {"pc", "web", "shows", "order", "copy", "left", "service", "new"}
    BY NoRunIs DEF Increase!NoRun
  <2> QED
    BY <1>2, <2>1 DEF RunType, IncreasePcs
<1>4. run \in [Runs -> RunType]
  BY DEF IncreaseInv, IncreaseTyped
<1> HIDE DEF x
<1> QED
  BY <1>1, <1>2, <1>3, <1>4 DEF Loaded

LEMMA ApplyKeeps == \A r \in Runs : IncreaseInv /\ Increase!Apply(r) => IncreaseInv'
<1> SUFFICES ASSUME NEW r \in Runs, IncreaseInv, Increase!Apply(r) PROVE IncreaseInv'
  OBVIOUS
<1>0. /\ run[r].pc = "idle" /\ shown.live /\ Increase!Begins(r, FALSE, session)
      /\ shown' = [shown EXCEPT !.applied = @ + 1]
      /\ doubled' = doubled + IF BotLoads THEN 1 ELSE 0
      /\ UNCHANGED <<user, row, due, apart, rights, session, owner, faults>>
  BY DEF Increase!Apply, BotLoads, Increase!Data
<1>t. /\ shown \in [order : BulkOrders, live : BOOLEAN, holds : BOOLEAN, applied : Nat]
      /\ session \in BulkOrders /\ faults \in Nat /\ doubled \in Nat
  BY DEF IncreaseInv, IncreaseTyped
<1>1. /\ run' \in [Runs -> RunType] /\ run'[r].pc = "load" /\ ~run'[r].web
      /\ run'[r].order = run'[r].shows
      /\ \A q \in Runs \ {r} : run'[q] = run[q]
      /\ \A q \in Runs : run'[q] = run[q] \/ (~Loaded(run[q]) /\ run'[q].pc = "load")
  BY <1>0, <1>t, BeginsIs
<1>2. WorkHolds'
  BY <1>0, <1>1, DataKept DEF Increase!Data
<1>3. /\ shown' \in [order : BulkOrders, live : BOOLEAN, holds : BOOLEAN, applied : Nat]
      /\ shown'.holds = shown.holds /\ shown'.order = shown.order
      /\ shown'.applied = shown.applied + 1
  BY <1>0, <1>t
<1>4. doubled' \in Nat /\ (doubled' = IF BotLoads THEN doubled + 1 ELSE doubled)
  BY <1>0, <1>t
<1>5. IncreaseTyped'
  BY <1>0, <1>1, <1>3, <1>4 DEF IncreaseInv, IncreaseTyped
<1>6. ShownHolds'
  <2>1. \A q \in Runs : run'[q].pc # "idle" => run'[q].order = run'[q].shows
    BY <1>1 DEF IncreaseInv, ShownHolds
  <2> QED
    BY <1>0, <1>3, <2>1 DEF IncreaseInv, ShownHolds
<1>7. AppliedHolds'
  <2>1. /\ shown.applied \in Nat /\ shown.applied <= 1 + doubled + faults
        /\ ~BotLoads => shown.applied <= doubled + faults
    BY <1>0, <1>t DEF IncreaseInv, AppliedHolds
  <2>2. shown.applied + 1 <= 1 + doubled' + faults
    <3>1. CASE BotLoads
      BY <1>4, <1>t, <2>1, <3>1
    <3>2. CASE ~BotLoads
      BY <1>4, <1>t, <2>1, <3>2
    <3> QED
      BY <3>1, <3>2
  <2>3. BotLoads'
    BY <1>1 DEF BotLoads
  <2> QED
    BY <1>0, <1>3, <2>2, <2>3 DEF AppliedHolds
<1> QED
  BY <1>2, <1>5, <1>6, <1>7 DEF IncreaseInv

LEMMA ApplyOnWebKeeps ==
    IncreaseAssumptions => \A r \in Runs : IncreaseInv /\ Increase!ApplyOnWeb(r) => IncreaseInv'
<1> SUFFICES ASSUME IncreaseAssumptions, NEW r \in Runs, IncreaseInv, Increase!ApplyOnWeb(r)
             PROVE  IncreaseInv'
  OBVIOUS
<1>0. /\ run[r].pc = "idle"
      /\ UNCHANGED <<user, row, due, apart, rights, session, shown, owner, doubled, faults>>
  BY DEF Increase!ApplyOnWeb, Increase!Data, Increase!Chat
<1>a. PICK v \in Volumes \cup {0}, d \in Days \cup {0} :
         v >= 0 /\ d >= 0 /\ v + d > 0 /\
         Increase!Begins(r, TRUE, [panel |-> "here", volume |-> v, time |-> d])
  BY DEF Increase!ApplyOnWeb
<1>b. [panel |-> "here", volume |-> v, time |-> d] \in BulkOrders
  BY DEF IncreaseAssumptions, BulkOrders, Increase!Panels
<1>1. /\ run' \in [Runs -> RunType] /\ run'[r].web
      /\ run'[r].order = run'[r].shows
      /\ \A q \in Runs \ {r} : run'[q] = run[q]
      /\ \A q \in Runs : run'[q] = run[q] \/ (~Loaded(run[q]) /\ run'[q].pc = "load")
  BY <1>0, <1>a, <1>b, BeginsIs
<1>2. WorkHolds'
  BY <1>0, <1>1, DataKept DEF Increase!Data
<1>5. IncreaseTyped'
  BY <1>0, <1>1 DEF IncreaseInv, IncreaseTyped
<1>6. ShownHolds'
  <2>1. \A q \in Runs : run'[q].pc # "idle" => run'[q].order = run'[q].shows
    BY <1>1 DEF IncreaseInv, ShownHolds
  <2> QED
    BY <1>0, <2>1 DEF IncreaseInv, ShownHolds
<1>7. AppliedHolds'
  <2>1. BotLoads' <=> BotLoads
    BY <1>0, <1>1 DEF BotLoads
  <2> QED
    BY <1>0, <2>1 DEF IncreaseInv, AppliedHolds
<1> QED
  BY <1>2, <1>5, <1>6, <1>7 DEF IncreaseInv

LEMMA BuyKeeps == IncreaseAssumptions /\ IncreaseInv /\ Increase!Buy => IncreaseInv'
<1> SUFFICES ASSUME IncreaseAssumptions, IncreaseInv, Increase!Buy PROVE IncreaseInv'
  OBVIOUS
<1>0. /\ owner = Increase!Free
      /\ UNCHANGED <<row, due, rights, session, shown, run, doubled, faults>>
  BY DEF Increase!Buy, Increase!Chat
<1>1. PICK s \in Services \ Unsynced :
         /\ user' = [user EXCEPT ![s].volume = @ + 1]
         /\ owner' = [service |-> s, limit |-> user[s].volume + 1]
         /\ apart' = apart \cup IF Increase!Here # {} THEN {s} ELSE {}
  BY Zenon DEF Increase!Buy
<1>t. /\ user \in [Services -> Holding] /\ apart \subseteq Services
      /\ \A z \in Services : due[z] \in Holding
  BY DEF IncreaseInv, IncreaseTyped
<1>2. /\ user[s].volume \in Nat /\ user[s].time \in Int
      /\ user[s] = [volume |-> user[s].volume, time |-> user[s].time]
  BY <1>t DEF Holding
<1>3. /\ user' \in [Services -> Holding]
      /\ user'[s] = [volume |-> user[s].volume + 1, time |-> user[s].time]
      /\ \A z \in Services \ {s} : user'[z] = user[z]
  <2> DEFINE new == [volume |-> user[s].volume + 1, time |-> user[s].time]
  <2>1. new \in Holding
    BY <1>2 DEF Holding
  <2>2. [user[s] EXCEPT !.volume = @ + 1] = new
    BY <1>2
  <2>3. user' = [user EXCEPT ![s] = [user[s] EXCEPT !.volume = @ + 1]]
    BY <1>1
  <2> QED
    BY <1>t, <2>1, <2>2, <2>3
<1>4. /\ owner' \in [service : Services, limit : Nat] /\ owner'.service = s
      /\ owner'.limit = user'[s].volume
  BY <1>1, <1>2, <1>3
<1>5. apart \subseteq apart' /\ apart' \subseteq Services
  BY <1>1, <1>t
<1>6. IncreaseTyped'
  BY <1>0, <1>3, <1>4, <1>5 DEF IncreaseInv, IncreaseTyped
<1>7. ShownHolds'
  BY <1>0 DEF IncreaseInv, ShownHolds
<1>8. AppliedHolds'
  <2>1. BotLoads' <=> BotLoads
    BY <1>0 DEF BotLoads
  <2> QED
    BY <1>0, <2>1 DEF IncreaseInv, AppliedHolds
<1>9. WorkHolds'
  <2>0. \A r \in Runs : Loaded(run[r]) => s \in apart'
    BY <1>1 DEF Loaded, Increase!Here, Increase!Working, IncreaseInv, WorkHolds, RunsHere
  <2>1. RunsApart'
    BY <1>0, <1>5 DEF IncreaseInv, WorkHolds, RunsApart
  <2>2. OwnerApart'
    BY <1>0, <1>4, <2>0 DEF OwnerApart
  <2>3. RunsReady'
    BY <1>0 DEF IncreaseInv, WorkHolds, RunsReady
  <2>4. RunHolds'
    <3> SUFFICES ASSUME faults' = 0, NEW r \in Runs, Loaded(run'[r]), NEW z \in Services \ apart'
                 PROVE  RunAgrees(run'[r], z, user'[z], row'[z], due'[z])
      BY DEF RunHolds
    <3>1. z # s
      BY <1>0, <2>0
    <3>2. RunAgrees(run[r], z, user[z], row[z], due[z])
      BY <1>0, <1>5 DEF IncreaseInv, WorkHolds, RunHolds
    <3>3. user'[z] = user[z] /\ row'[z] = row[z] /\ due'[z] = due[z] /\ run'[r] = run[r]
      BY <1>0, <1>3, <3>1
    <3> QED
      BY <3>2, <3>3
  <2>5. RestHolds'
    <3> SUFFICES ASSUME faults' = 0, \A r \in Runs : ~Loaded(run'[r]), NEW z \in Services \ apart'
                 PROVE  RestAgrees(z, owner', user'[z], row'[z], due'[z])
      BY DEF RestHolds
    <3>1. RestAgrees(z, owner, user[z], row[z], due[z])
      BY <1>0, <1>5 DEF IncreaseInv, WorkHolds, RestHolds
    <3>2. user[z] = due[z] /\ row[z] = due[z]
      BY <1>0, <3>1 DEF RestAgrees
    <3>3. CASE z = s
      <4>1. owner' # Increase!Free
        BY <1>4 DEF Increase!Free, IncreaseAssumptions
      <4> QED
        BY <1>0, <1>3, <1>4, <3>2, <3>3, <4>1 DEF RestAgrees
    <3>4. CASE z # s
      BY <1>0, <1>3, <1>4, <3>2, <3>4 DEF RestAgrees
    <3> QED
      BY <3>3, <3>4
  <2>6. RunsHere'
    BY <1>0 DEF IncreaseInv, WorkHolds, RunsHere
  <2> QED
    BY <2>1, <2>2, <2>3, <2>4, <2>5, <2>6 DEF WorkHolds
<1> QED
  BY <1>6, <1>7, <1>8, <1>9 DEF IncreaseInv

LEMMA BuyStoresKeeps == IncreaseInv /\ Increase!BuyStores => IncreaseInv'
<1> SUFFICES ASSUME IncreaseInv, Increase!BuyStores PROVE IncreaseInv'
  OBVIOUS
<1> DEFINE s == owner.service
<1>0. /\ owner # Increase!Free /\ owner' = Increase!Free
      /\ row' = [row EXCEPT ![s].volume = owner.limit]
      /\ due' = [due EXCEPT ![s].volume = @ + 1]
      /\ apart' = apart \cup IF Increase!Here # {} THEN {s} ELSE {}
      /\ UNCHANGED <<user, rights, session, shown, run, doubled, faults>>
  BY DEF Increase!BuyStores, Increase!Chat
<1>t. /\ row \in [Services -> Holding] /\ due \in [Services -> Holding] /\ apart \subseteq Services
      /\ s \in Services /\ owner.limit \in Nat
      /\ user \in [Services -> Holding]
  BY <1>0 DEF IncreaseInv, IncreaseTyped
<1>1. /\ row[s] = [volume |-> row[s].volume, time |-> row[s].time] /\ row[s].time \in Int
      /\ due[s] = [volume |-> due[s].volume, time |-> due[s].time] /\ due[s].time \in Int
      /\ due[s].volume \in Nat
  BY <1>t DEF Holding
<1>2. /\ row' \in [Services -> Holding]
      /\ row'[s] = [volume |-> owner.limit, time |-> row[s].time]
      /\ \A z \in Services \ {s} : row'[z] = row[z]
  <2> DEFINE new == [volume |-> owner.limit, time |-> row[s].time]
  <2>1. new \in Holding
    BY <1>1, <1>t DEF Holding
  <2>2. [row[s] EXCEPT !.volume = owner.limit] = new
    BY <1>1
  <2>3. row' = [row EXCEPT ![s] = [row[s] EXCEPT !.volume = owner.limit]]
    BY <1>0
  <2> QED
    BY <1>t, <2>1, <2>2, <2>3
<1>3. /\ due' \in [Services -> Holding]
      /\ due'[s] = [volume |-> due[s].volume + 1, time |-> due[s].time]
      /\ \A z \in Services \ {s} : due'[z] = due[z]
  <2> DEFINE new == [volume |-> due[s].volume + 1, time |-> due[s].time]
  <2>1. new \in Holding
    BY <1>1 DEF Holding
  <2>2. [due[s] EXCEPT !.volume = @ + 1] = new
    BY <1>1
  <2>3. due' = [due EXCEPT ![s] = [due[s] EXCEPT !.volume = @ + 1]]
    BY <1>0
  <2> QED
    BY <1>t, <2>1, <2>2, <2>3
<1>5. apart \subseteq apart' /\ apart' \subseteq Services
  BY <1>0, <1>t
<1>6. IncreaseTyped'
  BY <1>0, <1>2, <1>3, <1>5 DEF IncreaseInv, IncreaseTyped
<1>7. ShownHolds'
  BY <1>0 DEF IncreaseInv, ShownHolds
<1>8. AppliedHolds'
  <2>1. BotLoads' <=> BotLoads
    BY <1>0 DEF BotLoads
  <2> QED
    BY <1>0, <2>1 DEF IncreaseInv, AppliedHolds
<1>9. WorkHolds'
  <2>1. RunsHere' /\ RunsApart' /\ OwnerApart'
    BY <1>0, <1>5 DEF IncreaseInv, WorkHolds, RunsHere, RunsApart, OwnerApart
  <2>3. RunsReady'
    BY <1>0 DEF IncreaseInv, WorkHolds, RunsReady
  <2>4. RunHolds'
    <3> SUFFICES ASSUME faults' = 0, NEW r \in Runs, Loaded(run'[r]), NEW z \in Services \ apart'
                 PROVE  RunAgrees(run'[r], z, user'[z], row'[z], due'[z])
      BY DEF RunHolds
    <3>1. z # s
      BY <1>0, <1>5 DEF IncreaseInv, WorkHolds, OwnerApart
    <3>2. RunAgrees(run[r], z, user[z], row[z], due[z])
      BY <1>0, <1>5 DEF IncreaseInv, WorkHolds, RunHolds
    <3>3. user'[z] = user[z] /\ row'[z] = row[z] /\ due'[z] = due[z] /\ run'[r] = run[r]
      BY <1>0, <1>2, <1>3, <3>1
    <3> QED
      BY <3>2, <3>3
  <2>5. RestHolds'
    <3> SUFFICES ASSUME faults' = 0, \A r \in Runs : ~Loaded(run'[r]), NEW z \in Services \ apart'
                 PROVE  RestAgrees(z, owner', user'[z], row'[z], due'[z])
      BY DEF RestHolds
    <3>1. RestAgrees(z, owner, user[z], row[z], due[z])
      BY <1>0, <1>5 DEF IncreaseInv, WorkHolds, RestHolds
    <3>3. CASE z = s
      <4>1. row[z] = due[z] /\ owner.limit = due[z].volume + 1
            /\ user[z] = [volume |-> due[z].volume + 1, time |-> due[z].time]
        BY <1>0, <3>1, <3>3 DEF RestAgrees
      <4>2. row'[z] = user[z] /\ due'[z] = user[z] /\ user'[z] = user[z]
        BY <1>0, <1>2, <1>3, <3>3, <4>1
      <4> QED
        BY <1>0, <4>2 DEF RestAgrees
    <3>4. CASE z # s
      BY <1>0, <1>2, <1>3, <3>1, <3>4 DEF RestAgrees
    <3> QED
      BY <3>3, <3>4
  <2> QED
    BY <2>1, <2>3, <2>4, <2>5 DEF WorkHolds
<1> QED
  BY <1>6, <1>7, <1>8, <1>9 DEF IncreaseInv

-----------------------------------------------------------------------------
LEMMA IncreaseBegins == IncreaseAssumptions /\ Increase!Init => IncreaseInv
<1> SUFFICES ASSUME IncreaseAssumptions, Increase!Init PROVE IncreaseInv
  OBVIOUS
<1>1. /\ Limits \in [Services -> Holding] /\ run = [r \in Runs |-> Increase!NoRun]
      /\ owner = Increase!Free /\ apart = {} /\ doubled = 0 /\ faults = 0 /\ session = Increase!Nothing
      /\ shown = [order |-> Increase!Nothing, live |-> FALSE, holds |-> FALSE, applied |-> 0]
      /\ user = Limits /\ row = Limits /\ due = Limits /\ rights \in BOOLEAN
  <2>1. [volume : Nat, time : Nat] \subseteq Holding
    BY DEF Holding
  <2>2. Limits \in [Services -> Holding]
    BY <2>1 DEF IncreaseAssumptions
  <2> QED
    BY <2>2 DEF Increase!Init
<1>2. run \in [Runs -> RunType] /\ \A r \in Runs : run[r] = Increase!NoRun
  BY <1>1, NoRunIs
<1>3. IncreaseTyped
  <2>1. shown \in [order : BulkOrders, live : BOOLEAN, holds : BOOLEAN, applied : Nat]
    BY <1>1, NoRunIs
  <2>2. session \in BulkOrders /\ apart \subseteq Services
    BY <1>1, NoRunIs
  <2> QED
    BY <1>1, <1>2, <2>1, <2>2 DEF IncreaseTyped
<1>4. ShownHolds /\ AppliedHolds
  BY <1>1, <1>2, NoRunIs DEF ShownHolds, AppliedHolds
<1>5. WorkHolds
  <2>1. RestHolds
    BY <1>1 DEF RestHolds, RestAgrees
  <2> QED
    BY <1>2, <2>1, NoRunIs DEF WorkHolds, RunsHere, RunsApart, OwnerApart, RunsReady, RunHolds
<1> QED
  BY <1>3, <1>4, <1>5 DEF IncreaseInv

LEMMA IncreaseKeeps == IncreaseAssumptions /\ IncreaseInv /\ [Increase!Next]_(Increase!vars) => IncreaseInv'
<1> SUFFICES ASSUME IncreaseAssumptions, IncreaseInv, [Increase!Next]_(Increase!vars) PROVE IncreaseInv'
  OBVIOUS
<1>1. CASE Increase!PickPanel \/ Increase!SetAmount \/ Increase!Confirm \/ Increase!Cancel
  BY <1>1, ChatKeeps
<1>2. CASE Increase!Buy
  BY <1>2, BuyKeeps
<1>3. CASE Increase!BuyStores
  BY <1>3, BuyStoresKeeps
<1>4. CASE Increase!Restart
  BY <1>4, IncreaseRestartKeeps
<1>5. ASSUME NEW r \in Runs,
             \/ Increase!Apply(r) \/ Increase!ApplyOnWeb(r) \/ Increase!Load(r) \/ Increase!DryRun(r) \/ Increase!BulkVolume(r) \/ Increase!BulkTime(r)
             \/ Increase!BulkRows(r) \/ Increase!ReadUser(r) \/ Increase!ModifyUser(r) \/ Increase!WriteRow(r) \/ Increase!Finish(r)
      PROVE  IncreaseInv'
  BY <1>5, ApplyKeeps, ApplyOnWebKeeps, LoadKeeps, DryRunKeeps, BulkVolumeKeeps, BulkTimeKeeps,
     BulkRowsKeeps, ReadUserKeeps, ModifyUserKeeps, WriteRowKeeps, IncreaseFinishKeeps
<1>6. CASE UNCHANGED Increase!vars
  <2>1. UNCHANGED <<user, row, rights, session, shown, run, owner, due, apart, doubled, started,
                    bought, faults>>
    BY <1>6 DEF Increase!vars
  <2>2. IncreaseTyped' /\ ShownHolds'
    BY <2>1 DEF IncreaseInv, IncreaseTyped, ShownHolds
  <2>3. AppliedHolds'
    BY <2>1 DEF IncreaseInv, AppliedHolds, BotLoads
  <2>4. WorkHolds'
    BY <2>1 DEF IncreaseInv, WorkHolds, RunsHere, RunsApart, OwnerApart, RunsReady, RunHolds, RestHolds
  <2> QED
    BY <2>2, <2>3, <2>4 DEF IncreaseInv
<1> QED
  BY <1>1, <1>2, <1>3, <1>4, <1>5, <1>6 DEF Increase!Next

\* What a change of all services of a panel promises holds for any number of services, runs
\* and purchases, and any amounts: when all is at rest, user and row of a service hold what
\* the runs counted as done and what its owner bought; a run does what its message showed,
\* on the panel it showed, unless a panel was picked or an amount set since; and a message
\* is applied once, each but for the excuses of BulkKeepsFaith.
THEOREM BulkKeepsFaithAlways ==
    ASSUME IncreaseAssumptions
    PROVE  Increase!Spec => []Increase!BulkKeepsFaith
<1>1. IncreaseInv => Increase!BulkKeepsFaith
  <2> SUFFICES ASSUME IncreaseInv PROVE Increase!BulkKeepsFaith
    OBVIOUS
  <2>1. Increase!IncreaseAddsUp
    <3> SUFFICES ASSUME Increase!AtRest, faults = 0, NEW s \in Services \ apart
                 PROVE  user[s] = row[s] /\ user[s] = due[s]
      BY DEF Increase!IncreaseAddsUp
    <3>1. owner = Increase!Free /\ \A r \in Runs : ~Loaded(run[r])
      BY DEF Increase!AtRest, Increase!Working, Loaded
    <3>2. RestAgrees(s, owner, user[s], row[s], due[s])
      BY <3>1 DEF IncreaseInv, WorkHolds, RestHolds
    <3> QED
      BY <3>1, <3>2 DEF RestAgrees
  <2>2. Increase!AppliesWhatIsShown
    BY DEF IncreaseInv, ShownHolds, Increase!AppliesWhatIsShown, Increase!Working
  <2>3. Increase!AppliedOnce
    BY DEF IncreaseInv, AppliedHolds, Increase!AppliedOnce
  <2> QED
    BY <2>1, <2>2, <2>3 DEF Increase!BulkKeepsFaith
<1>2. Increase!Init => IncreaseInv
  BY IncreaseBegins
<1>3. IncreaseInv /\ [Increase!Next]_(Increase!vars) => IncreaseInv'
  BY IncreaseKeeps
<1> QED
  BY <1>1, <1>2, <1>3, PTL DEF Increase!Spec

-----------------------------------------------------------------------------
(***************************************************************************)
(* Expiration, for any services, page sizes and number of passes.  For a   *)
(* service no renewal crossed and no failure hit, what the pass holds of   *)
(* it is still so, and a notice it was told of is either marked on the row *)
(* or waits in the pass to be.                                             *)
(***************************************************************************)
CONSTANTS Tests, BATCH, FLUSH, GRACE, TERM, MAX_CLOCK
CONSTANT Unlinked
VARIABLES clock, renewal, told, paid, crossed, stray

\* The rows, the users, the pass and the faults have names of the others.
Expiry == INSTANCE Expiration

\* Services are numbers in the order of their codes, and days are whole numbers.
ExpiryAssumptions ==
    Services \subseteq Nat /\ Tests \subseteq Services /\ GRACE \in Nat /\ TERM \in Nat

Grace(s) == IF s \in Tests THEN 0 ELSE GRACE

\* The pass: what it has yet to do is of the page it holds, what waits to be marked was
\* done, and between two pages it holds nothing.
PassOK ==
    /\ job.at <= clock
    /\ job.todo \subseteq job.batch
    /\ job.pc \in {"idle", "list", "notices"} => job.batch = {}
    /\ job.pc # "notify" => \A k \in Expiry!Kinds : job.pending[k] = {}
    /\ \A k \in Expiry!Kinds : job.pending[k] \subseteq job.batch \ job.todo

\* A service that no renewal crossed and no failure hit.
RowOK(s) ==
    /\ row[s].there /\ renewal[s] = "idle" => row[s].expires = paid[s]
    /\ ~row[s].there => renewal[s] = "idle" /\ (s \in user => s \in Unlinked) /\ clock >= paid[s] + Grace(s)
    /\ row[s].there => \A k \in Expiry!Kinds :
           /\ told[s][k] <= 1
           /\ told[s][k] = 1 <=> k \in row[s].noticed \/ s \in job.pending[k]
HeldOK(s) ==
    /\ s \in job.batch => row[s].there /\ renewal[s] = "idle"
    /\ s \in job.batch /\ job.pc = "remove" =>
           clock >= paid[s] + Grace(s) /\ (s \in user => s \in job.todo \cup Unlinked)
    /\ s \in job.todo /\ job.pc = "notify" =>
           job.copy[s] = row[s] /\ Expiry!Kind(row[s]) \notin row[s].noticed

PassPcs == {"idle", "list", "remove", "notices", "notify"}
ServiceRow == [expires : Nat, noticed : SUBSET Expiry!Kinds, there : BOOLEAN]
PassType ==
    [pc : PassPcs, at : Nat, sort : {"tests", "paid"}, batch : SUBSET Services,
     todo : SUBSET Services, copy : [Services -> ServiceRow],
     pending : [Expiry!Kinds -> SUBSET Services]]

ExpiryTyped ==
    /\ clock \in Nat /\ row \in [Services -> ServiceRow] /\ job \in PassType
    /\ renewal \in [Services -> {"idle", "row"}]
    /\ told \in [Services -> [Expiry!Kinds -> Nat]] /\ paid \in [Services -> Nat]

ExpiryInv ==
    /\ ExpiryTyped /\ PassOK
    /\ \A s \in Services : Expiry!Safe(s) => RowOK(s) /\ HeldOK(s)

-----------------------------------------------------------------------------
\* The least of the services left is one of them.
LEMMA MinIsIn ==
    ASSUME NEW S, S \subseteq Nat, S # {}
    PROVE  Expiry!Min(S) \in S
<1> DEFINE R == OpToRel(<, Nat)
<1>1. IsWellFoundedOn(R, Nat)
  BY NatLessThanWellFounded
<1>2. \A x, y \in Nat : y < x => <<y, x>> \in R
  BY DEF OpToRel
<1> HIDE DEF R
<1>3. \E x \in S : \A y \in S : ~ (<<y, x>> \in R)
  BY <1>1, WFMin
<1>4. PICK x \in S : \A y \in S : ~ (<<y, x>> \in R)
  BY <1>3
<1>5. ASSUME NEW y \in S PROVE x =< y
  <2>1. x \in Nat /\ y \in Nat
    OBVIOUS
  <2>2. ~ (<<y, x>> \in R)
    BY <1>4
  <2>3. ~ (y < x)
    BY <1>2, <2>1, <2>2
  <2> QED
    BY <2>1, <2>3
<1>6. \E z \in S : \A y \in S : z =< y
  BY <1>5
<1> QED
  BY <1>6 DEF Expiry!Min

LEMMA MinOfTwo ==
    ASSUME NEW n \in Nat, n <= 1
    PROVE  Expiry!Min({n + 1, 2}) = n + 1
<1>1. \A x \in {n + 1, 2} : (\A y \in {n + 1, 2} : x =< y) <=> x = n + 1
  OBVIOUS
<1> QED
  BY <1>1 DEF Expiry!Min

-----------------------------------------------------------------------------
\* What is known of a pass and of a service.
LEMMA PassHas ==
    ASSUME ExpiryTyped
    PROVE  /\ job.pc \in PassPcs /\ job.at \in Nat /\ job.sort \in {"tests", "paid"}
           /\ job.batch \subseteq Services /\ job.todo \subseteq Services
           /\ job.copy \in [Services -> ServiceRow] /\ job.pending \in [Expiry!Kinds -> SUBSET Services]
           /\ clock \in Nat /\ row \in [Services -> ServiceRow]
           /\ renewal \in [Services -> {"idle", "row"}]
           /\ told \in [Services -> [Expiry!Kinds -> Nat]] /\ paid \in [Services -> Nat]
           /\ \A s \in Services : /\ row[s].expires \in Nat /\ row[s].there \in BOOLEAN
                                 /\ row[s].noticed \subseteq Expiry!Kinds /\ paid[s] \in Nat
                                 /\ row[s] \in ServiceRow
                                 /\ \A k \in Expiry!Kinds : told[s][k] \in Nat
<1>1. \A r \in ServiceRow : r.expires \in Nat /\ r.there \in BOOLEAN /\ r.noticed \subseteq Expiry!Kinds
  BY DEF ServiceRow
<1>2. job \in PassType
  BY DEF ExpiryTyped
<1> QED
  BY <1>1, <1>2 DEF ExpiryTyped, PassType

LEMMA IdleIs ==
    /\ Expiry!IdleJob \in PassType /\ Expiry!IdleJob.pc = "idle" /\ Expiry!IdleJob.at = 0 /\ Expiry!IdleJob.batch = {}
    /\ Expiry!IdleJob.todo = {} /\ Expiry!IdleJob.sort = "tests"
    /\ \A k \in Expiry!Kinds : Expiry!IdleJob.pending[k] = {}
    /\ Expiry!NoRow \in ServiceRow /\ ~Expiry!NoRow.there
<1>1. Expiry!NoRow \in ServiceRow /\ ~Expiry!NoRow.there
  BY DEF Expiry!NoRow, ServiceRow
<1>2. [s \in Services |-> Expiry!NoRow] \in [Services -> ServiceRow]
  BY <1>1
<1>3. [k \in Expiry!Kinds |-> {}] \in [Expiry!Kinds -> SUBSET Services]
  OBVIOUS
<1> QED
  BY <1>1, <1>2, <1>3 DEF Expiry!IdleJob, PassType, PassPcs

\* A pass that goes on, while rows, marks and renewals stay.
LEMMA PassKeeps ==
    ASSUME ExpiryInv, UNCHANGED <<clock, row, renewal, told, paid>>, user' \subseteq user,
           crossed \subseteq crossed', stray \subseteq stray',
           job' \in PassType, PassOK',
           \A s \in Services : Expiry!Safe(s)' =>
               /\ HeldOK(s)'
               /\ \A k \in Expiry!Kinds : s \in job'.pending[k] <=> s \in job.pending[k]
    PROVE  ExpiryInv'
<1>1. ExpiryTyped'
  BY DEF ExpiryInv, ExpiryTyped
<1>2. ASSUME NEW s \in Services, Expiry!Safe(s)' PROVE RowOK(s)'
  <2>1. Expiry!Safe(s)
    BY <1>2 DEF Expiry!Safe
  <2>2. RowOK(s)
    BY <2>1 DEF ExpiryInv
  <2> QED
    BY <1>2, <2>2 DEF RowOK, Grace
<1> QED
  BY <1>1, <1>2 DEF ExpiryInv

LEMMA BeginKeeps ==
    ASSUME ExpiryInv, Expiry!Begin
    PROVE  ExpiryInv'
<1>1. /\ job' = [Expiry!IdleJob EXCEPT !.pc = "list", !.at = clock] /\ job.pc = "idle"
      /\ UNCHANGED <<clock, row, user, renewal, told, paid, crossed, stray, faults>>
  BY DEF Expiry!Begin
<1>2. ExpiryTyped /\ PassOK
  BY DEF ExpiryInv
<1>3. /\ job' \in PassType /\ job'.pc = "list" /\ job'.at = clock /\ job'.batch = {}
      /\ job'.todo = {} /\ \A k \in Expiry!Kinds : job'.pending[k] = {}
  <2>1. clock \in Nat
    BY <1>2 DEF ExpiryTyped
  <2> QED
    BY <1>1, <2>1, IdleIs DEF PassType, PassPcs
<1>4. PassOK'
  BY <1>1, <1>2, <1>3, PassHas DEF PassOK
<1>5. ASSUME NEW s \in Services, Expiry!Safe(s)'
      PROVE  HeldOK(s)' /\ \A k \in Expiry!Kinds : s \in job'.pending[k] <=> s \in job.pending[k]
  BY <1>1, <1>2, <1>3 DEF HeldOK, PassOK
<1> QED
  BY <1>1, <1>3, <1>4, <1>5, PassKeeps

\* What is due is over.
LEMMA DueIsOver ==
    ASSUME ExpiryAssumptions, ExpiryInv, NEW s \in Expiry!Due(job.sort), Expiry!Safe(s), renewal[s] = "idle"
    PROVE  s \in Services /\ row[s].there /\ clock >= paid[s] + Grace(s)
<1>1. ExpiryTyped /\ PassOK
  BY DEF ExpiryInv
<1>2. s \in Services /\ row[s].there
  BY DEF Expiry!Due, ExpiryAssumptions
<1>3. RowOK(s)
  BY <1>2 DEF ExpiryInv
<1>4. row[s].expires = paid[s] /\ paid[s] \in Nat /\ job.at \in Nat /\ clock \in Nat /\ job.at <= clock
  BY <1>1, <1>2, <1>3, PassHas DEF RowOK, PassOK
<1>5. CASE job.sort = "tests"
  <2>1. s \in Tests /\ row[s].expires <= clock
    BY <1>5 DEF Expiry!Due
  <2> QED
    BY <1>2, <1>4, <2>1 DEF Grace
<1>6. CASE job.sort # "tests"
  <2>1. s \notin Tests /\ row[s].expires + GRACE <= job.at
    BY <1>6 DEF Expiry!Due
  <2>2. paid[s] + GRACE <= clock
    BY <1>4, <2>1 DEF ExpiryAssumptions
  <2> QED
    BY <1>2, <1>4, <2>1, <2>2 DEF Grace, ExpiryAssumptions
<1> QED
  BY <1>5, <1>6

LEMMA NextSortIs ==
    ASSUME ExpiryTyped
    PROVE  /\ Expiry!NextSort \in PassType /\ Expiry!NextSort.pc \in {"list", "notices"}
           /\ Expiry!NextSort.at = job.at /\ Expiry!NextSort.batch = {} /\ Expiry!NextSort.todo = job.todo
           /\ Expiry!NextSort.pending = job.pending
<1> DEFINE pc == IF job.sort = "tests" THEN "list" ELSE "notices"
<1>1. pc \in {"list", "notices"} /\ pc \in PassPcs
  BY DEF PassPcs
<1>2. Expiry!NextSort = [job EXCEPT !.sort = "paid", !.batch = {}, !.pc = pc]
  BY DEF Expiry!NextSort
<1> HIDE DEF pc
<1>3. job \in PassType
  BY DEF ExpiryTyped
<1> QED
  BY <1>1, <1>2, <1>3 DEF PassType

LEMMA ListKeeps ==
    ASSUME ExpiryAssumptions, ExpiryInv, Expiry!List
    PROVE  ExpiryInv'
<1> DEFINE found == Expiry!FirstOf(Expiry!Due(job.sort))
<1>1. /\ job.pc = "list"
      /\ job' = IF found = {} THEN Expiry!NextSort
                ELSE [job EXCEPT !.pc = "remove", !.batch = found, !.todo = found]
      /\ crossed' = crossed \cup (found \cap Expiry!Renewing)
      /\ UNCHANGED <<clock, row, user, renewal, told, paid, stray, faults>>
  BY DEF Expiry!List
<1>2. ExpiryTyped /\ PassOK /\ job \in PassType
  BY DEF ExpiryInv, ExpiryTyped
<1>3. found \subseteq Expiry!Due(job.sort) /\ found \subseteq Services
  BY DEF Expiry!FirstOf, Expiry!Due, ExpiryAssumptions
<1> HIDE DEF found
<1>4. job.batch = {} /\ job.todo = {} /\ \A k \in Expiry!Kinds : job.pending[k] = {}
  BY <1>1, <1>2 DEF PassOK
<1>5. CASE found = {}
  <2>1. /\ job' \in PassType /\ job'.pc \in {"list", "notices"} /\ job'.at = job.at
        /\ job'.batch = {} /\ job'.todo = {} /\ job'.pending = job.pending
    BY <1>1, <1>2, <1>4, <1>5, NextSortIs
  <2>2. PassOK'
    BY <1>1, <1>2, <1>4, <2>1 DEF PassOK
  <2>3. \A s \in Services : HeldOK(s)'
    BY <2>1 DEF HeldOK
  <2> QED
    BY <1>1, <2>1, <2>2, <2>3, PassKeeps
<1>6. CASE found # {}
  <2>1. /\ job' \in PassType /\ job'.pc = "remove" /\ job'.at = job.at
        /\ job'.batch = found /\ job'.todo = found /\ job'.pending = job.pending
    BY <1>1, <1>2, <1>3, <1>6 DEF PassType, PassPcs
  <2>2. PassOK'
    BY <1>1, <1>2, <1>4, <2>1 DEF PassOK
  <2>3. ASSUME NEW s \in Services, Expiry!Safe(s)' PROVE HeldOK(s)'
    <3>1. Expiry!Safe(s)
      BY <1>1, <2>3 DEF Expiry!Safe
    <3>2. ASSUME s \in found PROVE row[s].there /\ renewal[s] = "idle" /\ clock >= paid[s] + Grace(s)
      <4>1. renewal[s] = "idle"
        BY <1>1, <2>3, <3>2 DEF Expiry!Safe, Expiry!Renewing
      <4> QED
        BY <1>3, <3>1, <3>2, <4>1, DueIsOver
    <3> QED
      BY <1>1, <2>1, <3>2 DEF HeldOK, Grace
  <2> QED
    BY <1>1, <2>1, <2>2, <2>3, PassKeeps
<1> QED
  BY <1>5, <1>6

LEMMA RemoveUserKeeps ==
    ASSUME ExpiryInv, Expiry!RemoveUser \/ Expiry!RemoveUserFails
    PROVE  ExpiryInv'
<1> DEFINE u == Expiry!Min(job.todo)
<1>1. /\ job.pc = "remove" /\ job' = [job EXCEPT !.todo = @ \ {u}]
      /\ \/ user' = user \ ({u} \ Unlinked) /\ stray' = stray
         \/ user' \in {user, user \ {u}} /\ stray' = stray \cup {u}
      /\ UNCHANGED <<clock, row, renewal, told, paid, crossed>>
  BY DEF Expiry!RemoveUser, Expiry!RemoveUserFails
<1> HIDE DEF u
<1>2. ExpiryTyped /\ PassOK /\ job \in PassType
  BY DEF ExpiryInv, ExpiryTyped
<1>3. /\ job' \in PassType /\ job'.pc = "remove" /\ job'.at = job.at
      /\ job'.batch = job.batch /\ job'.todo = job.todo \ {u} /\ job'.pending = job.pending
  BY <1>1, <1>2 DEF PassType
<1>4. PassOK'
  BY <1>1, <1>2, <1>3 DEF PassOK
<1>5. ASSUME NEW s \in Services, Expiry!Safe(s)' PROVE HeldOK(s)'
  <2>1. Expiry!Safe(s) /\ HeldOK(s)
    BY <1>1, <1>5 DEF Expiry!Safe, ExpiryInv
  <2>2. s = u => (s \in user' => s \in Unlinked)
    BY <1>1, <1>5 DEF Expiry!Safe
  <2> QED
    BY <1>1, <1>3, <2>1, <2>2 DEF HeldOK, Grace
<1> QED
  BY <1>1, <1>3, <1>4, <1>5, PassKeeps

LEMMA AfterDeleteIs ==
    ASSUME ExpiryTyped
    PROVE  /\ Expiry!AfterDelete \in PassType /\ Expiry!AfterDelete.pc \in {"list", "notices"}
           /\ Expiry!AfterDelete.at = job.at /\ Expiry!AfterDelete.batch = {} /\ Expiry!AfterDelete.todo = job.todo
           /\ Expiry!AfterDelete.pending = job.pending
<1>1. LET after == [job EXCEPT !.pc = "list", !.batch = {}]
      IN  /\ after \in PassType /\ after.pc = "list" /\ after.at = job.at /\ after.batch = {}
          /\ after.todo = job.todo /\ after.pending = job.pending
  BY DEF ExpiryTyped, PassType, PassPcs
<1>2. Expiry!AfterDelete \in {Expiry!NextSort, [job EXCEPT !.pc = "list", !.batch = {}]}
  BY DEF Expiry!AfterDelete
<1> QED
  BY <1>1, <1>2, NextSortIs

LEMMA DeleteRowsKeeps ==
    ASSUME ExpiryInv, Expiry!DeleteRows \/ Expiry!DeleteRowsFails
    PROVE  ExpiryInv'
<1>1. /\ job.pc = "remove" /\ job.todo = {} /\ job' = Expiry!AfterDelete
      /\ \/ row' = [s \in Services |-> IF s \in job.batch THEN Expiry!NoRow ELSE row[s]] /\ stray' = stray
         \/ row' = row /\ stray' = stray \cup job.batch
      /\ UNCHANGED <<clock, user, renewal, told, paid, crossed>>
  BY DEF Expiry!DeleteRows, Expiry!DeleteRowsFails
<1>2. ExpiryTyped /\ PassOK
  BY DEF ExpiryInv
<1>3. /\ job' \in PassType /\ job'.pc \in {"list", "notices"} /\ job'.at = job.at
      /\ job'.batch = {} /\ job'.todo = {} /\ job'.pending = job.pending
  BY <1>1, <1>2, AfterDeleteIs
<1>4. PassOK'
  BY <1>1, <1>2, <1>3 DEF PassOK
<1>5. row' \in [Services -> ServiceRow]
  BY <1>1, <1>2, IdleIs DEF ExpiryTyped
<1>6. ExpiryTyped'
  BY <1>1, <1>2, <1>3, <1>5 DEF ExpiryTyped
<1>7. ASSUME NEW s \in Services, Expiry!Safe(s)' PROVE RowOK(s)' /\ HeldOK(s)'
  <2>1. Expiry!Safe(s) /\ HeldOK(s) /\ RowOK(s)
    BY <1>1, <1>7 DEF Expiry!Safe, ExpiryInv
  <2>2. CASE row'[s] = row[s]
    <3>1. RowOK(s)'
      BY <1>1, <1>3, <2>1, <2>2 DEF RowOK, Grace
    <3> QED
      BY <1>3, <3>1 DEF HeldOK
  <2>3. CASE row'[s] # row[s]
    <3>1. s \in job.batch /\ row'[s] = Expiry!NoRow
      BY <1>1, <2>3
    <3>2. renewal[s] = "idle" /\ (s \in user => s \in Unlinked) /\ clock >= paid[s] + Grace(s)
      BY <1>1, <2>1, <3>1 DEF HeldOK
    <3>3. RowOK(s)'
      BY <1>1, <3>1, <3>2, IdleIs DEF RowOK, Grace
    <3> QED
      BY <1>3, <3>3 DEF HeldOK
  <2> QED
    BY <2>2, <2>3
<1> QED
  BY <1>4, <1>6, <1>7 DEF ExpiryInv

LEMMA ListOwedKeeps ==
    ASSUME ExpiryInv, Expiry!ListOwed
    PROVE  ExpiryInv'
<1>1. /\ job.pc = "notices"
      /\ job' = [job EXCEPT !.pc = "notify", !.batch = Expiry!Owed, !.todo = Expiry!Owed, !.copy = row]
      /\ crossed' = crossed \cup (Expiry!Owed \cap Expiry!Renewing)
      /\ UNCHANGED <<clock, row, user, renewal, told, paid, stray>>
  BY DEF Expiry!ListOwed
<1>2. ExpiryTyped /\ PassOK /\ job \in PassType /\ row \in [Services -> ServiceRow]
  BY DEF ExpiryInv, ExpiryTyped
<1>3. Expiry!Owed \subseteq Services
  BY DEF Expiry!Owed
<1>4. /\ job' \in PassType /\ job'.pc = "notify" /\ job'.at = job.at /\ job'.batch = Expiry!Owed
      /\ job'.todo = Expiry!Owed /\ job'.copy = row /\ job'.pending = job.pending
  BY <1>1, <1>2, <1>3 DEF PassType, PassPcs
<1>5. PassOK'
  BY <1>1, <1>2, <1>4 DEF PassOK
<1>6. ASSUME NEW s \in Services, Expiry!Safe(s)' PROVE HeldOK(s)'
  <2>1. ASSUME s \in Expiry!Owed PROVE row[s].there /\ renewal[s] = "idle" /\ Expiry!Kind(row[s]) \notin row[s].noticed
    BY <1>1, <1>6, <2>1 DEF Expiry!Safe, Expiry!Renewing, Expiry!Owed
  <2>2. Expiry!Kind(row[s])' = Expiry!Kind(row[s])
    BY <1>1, <1>4 DEF Expiry!Kind
  <2> QED
    BY <1>1, <1>4, <2>1, <2>2 DEF HeldOK
<1> QED
  BY <1>1, <1>4, <1>5, <1>6, PassKeeps

\* A service that the pass leaves for the next one, as it failed or needs no notice.
LEMMA LeavesKeeps ==
    ASSUME ExpiryInv, job.pc = "notify", NEW s, job' = [job EXCEPT !.todo = @ \ {s}],
           UNCHANGED <<clock, row, user, renewal, told, paid, crossed, stray>>
    PROVE  ExpiryInv'
<1>1. ExpiryTyped /\ PassOK /\ job \in PassType
  BY DEF ExpiryInv, ExpiryTyped
<1>2. /\ job' \in PassType /\ job'.pc = "notify" /\ job'.at = job.at /\ job'.batch = job.batch
      /\ job'.todo = job.todo \ {s} /\ job'.copy = job.copy /\ job'.pending = job.pending
  BY <1>1 DEF PassType
<1>3. PassOK'
  BY <1>1, <1>2 DEF PassOK
<1>4. ASSUME NEW t \in Services, Expiry!Safe(t)' PROVE HeldOK(t)'
  <2>1. HeldOK(t)
    BY <1>4 DEF Expiry!Safe, ExpiryInv
  <2>2. Expiry!Kind(row[t])' = Expiry!Kind(row[t])
    BY <1>2 DEF Expiry!Kind
  <2> QED
    BY <1>2, <2>1, <2>2 DEF HeldOK
<1> QED
  BY <1>2, <1>3, <1>4, PassKeeps

LEMMA NotifyKeeps ==
    ASSUME ExpiryAssumptions, ExpiryInv, Expiry!Notify
    PROVE  ExpiryInv'
<1> DEFINE s == Expiry!Min(job.todo)
           k == Expiry!Kind(job.copy[s])
<1>1. /\ job.pc = "notify" /\ job.todo # {}
      /\ IF s \in Tests /\ k = "ended"
         THEN job' = [job EXCEPT !.todo = @ \ {s}] /\ told' = told
         ELSE /\ job' = [job EXCEPT !.todo = @ \ {s}, !.pending[k] = @ \cup {s}]
              /\ told' = [told EXCEPT ![s][k] = Expiry!Min({@ + 1, 2})]
      /\ UNCHANGED <<clock, row, user, renewal, paid, crossed, stray>>
  BY DEF Expiry!Notify
<1>2. ExpiryTyped /\ PassOK /\ job \in PassType
  BY DEF ExpiryInv, ExpiryTyped
<1>3. s \in job.todo /\ s \in Services
  <2>1. job.todo \subseteq Nat /\ job.todo \subseteq Services
    BY <1>2, PassHas DEF ExpiryAssumptions
  <2> QED
    BY <1>1, <2>1, MinIsIn
<1>4. k \in Expiry!Kinds
  BY DEF Expiry!Kind, Expiry!Kinds
<1> HIDE DEF s, k
<1>5. CASE job' = [job EXCEPT !.todo = @ \ {s}] /\ told' = told
  BY <1>1, <1>5, LeavesKeeps
<1>6. CASE /\ job' = [job EXCEPT !.todo = @ \ {s}, !.pending[k] = @ \cup {s}]
           /\ told' = [told EXCEPT ![s][k] = Expiry!Min({@ + 1, 2})]
  <2> DEFINE p == [job.pending EXCEPT ![k] = @ \cup {s}]
             n == Expiry!Min({told[s][k] + 1, 2})
             t == [told[s] EXCEPT ![k] = n]
  <2>1. p \in [Expiry!Kinds -> SUBSET Services]
    BY <1>2, <1>3, <1>4, PassHas
  <2>2. job' = [job EXCEPT !.todo = @ \ {s}, !.pending = p]
    BY <1>6
  <2>3. /\ p[k] = job.pending[k] \cup {s}
        /\ \A l \in Expiry!Kinds : l # k => p[l] = job.pending[l]
    BY <1>2, <1>4, PassHas
  <2> HIDE DEF p
  <2>4. /\ job' \in PassType /\ job'.pc = "notify" /\ job'.at = job.at /\ job'.batch = job.batch
        /\ job'.todo = job.todo \ {s} /\ job'.copy = job.copy /\ job'.pending = p
    BY <1>1, <1>2, <2>1, <2>2 DEF PassType
  <2>5. PassOK'
    BY <1>1, <1>2, <1>3, <1>4, <2>3, <2>4 DEF PassOK
  <2>6. told' = [told EXCEPT ![s] = t]
    BY <1>6
  <2>7. told[s] \in [Expiry!Kinds -> Nat] /\ told[s][k] \in Nat
    BY <1>2, <1>3, <1>4, PassHas
  <2>8. n \in Nat
    <3>1. {told[s][k] + 1, 2} \subseteq Nat /\ {told[s][k] + 1, 2} # {}
      BY <2>7
    <3> QED
      BY <3>1, MinIsIn
  <2>9. told[s][k] <= 1 => n = told[s][k] + 1
    BY <2>7, MinOfTwo
  <2> HIDE DEF n
  <2>10. t \in [Expiry!Kinds -> Nat] /\ t[k] = n /\ \A l \in Expiry!Kinds : l # k => t[l] = told[s][l]
    BY <1>4, <2>7, <2>8
  <2> HIDE DEF t
  <2>11. /\ told' \in [Services -> [Expiry!Kinds -> Nat]] /\ told'[s] = t
         /\ \A r \in Services : r # s => told'[r] = told[r]
    BY <1>2, <1>3, <2>6, <2>10 DEF ExpiryTyped
  <2>12. ExpiryTyped'
    BY <1>1, <1>2, <2>4, <2>11 DEF ExpiryTyped
  <2>13. ASSUME NEW r \in Services, Expiry!Safe(r)' PROVE RowOK(r)' /\ HeldOK(r)'
    <3>1. Expiry!Safe(r) /\ HeldOK(r) /\ RowOK(r)
      BY <1>1, <2>13 DEF Expiry!Safe, ExpiryInv
    <3>2. Expiry!Kind(row[r])' = Expiry!Kind(row[r])
      BY <1>1, <2>4 DEF Expiry!Kind
    <3>3. HeldOK(r)'
      BY <1>1, <2>4, <3>1, <3>2 DEF HeldOK
    <3>4. CASE r # s
      <4>1. \A l \in Expiry!Kinds : (r \in p[l] <=> r \in job.pending[l]) /\ told'[r][l] = told[r][l]
        BY <2>3, <2>11, <3>4
      <4>2. RowOK(r)'
        BY <1>1, <2>4, <3>1, <4>1 DEF RowOK, Grace
      <4> QED
        BY <3>3, <4>2
    <3>5. CASE r = s
      <4>1. job.copy[s] = row[s] /\ k \notin row[s].noticed
        BY <1>1, <1>3, <3>1, <3>5 DEF HeldOK, k
      <4>2. \A l \in Expiry!Kinds : s \notin job.pending[l]
        BY <1>2, <1>3 DEF PassOK
      <4>3. row[s].there
        BY <1>2, <1>3, <3>1, <3>5 DEF HeldOK, PassOK
      <4>4. told[s][k] <= 1 /\ told[s][k] # 1
        BY <1>4, <3>1, <3>5, <4>1, <4>2, <4>3 DEF RowOK
      <4>5. told'[s][k] = 1
        BY <2>7, <2>9, <2>10, <2>11, <4>4
      <4>6. ASSUME NEW l \in Expiry!Kinds
            PROVE  told'[s][l] <= 1 /\ (told'[s][l] = 1 <=> l \in row[s].noticed \/ s \in p[l])
        <5>1. CASE l = k
          BY <2>3, <4>5, <5>1
        <5>2. CASE l # k
          <6>1. told'[s][l] = told[s][l] /\ p[l] = job.pending[l]
            BY <2>3, <2>10, <2>11, <5>2
          <6> QED
            BY <3>1, <3>5, <4>3, <6>1 DEF RowOK
        <5> QED
          BY <5>1, <5>2
      <4>7. RowOK(r)'
        BY <1>1, <2>4, <3>1, <3>5, <4>3, <4>6 DEF RowOK, Grace
      <4> QED
        BY <3>3, <4>7
    <3> QED
      BY <3>4, <3>5
  <2> QED
    BY <2>5, <2>12, <2>13 DEF ExpiryInv
<1> QED
  BY <1>1, <1>5, <1>6

LEMMA NotifyFailsKeeps ==
    ASSUME ExpiryInv, Expiry!NotifyFails
    PROVE  ExpiryInv'
<1>1. /\ job.pc = "notify" /\ job' = [job EXCEPT !.todo = @ \ {Expiry!Min(job.todo)}]
      /\ UNCHANGED <<clock, row, user, renewal, told, paid, crossed, stray>>
  BY DEF Expiry!NotifyFails
<1> QED
  BY <1>1, LeavesKeeps

\* What is marked after a flush was pending before, and no service left to do is marked.
LEMMA FlushKeeps ==
    ASSUME ExpiryInv, Expiry!FlushMarks \/ Expiry!FlushFails
    PROVE  ExpiryInv'
<1> DEFINE Marked(s) == [row[s] EXCEPT !.noticed = @ \cup {k \in Expiry!Kinds : s \in job.pending[k]}]
           none == [k \in Expiry!Kinds |-> {}]
<1>1. /\ job.pc = "notify"
      /\ \/ /\ row' = [s \in Services |-> IF row[s].there THEN Marked(s) ELSE row[s]]
            /\ stray' = stray
         \/ row' = row /\ stray' = stray \cup Expiry!Pending
      /\ job' = (IF job.todo = {} THEN Expiry!IdleJob ELSE [job EXCEPT !.pending = none])
      /\ UNCHANGED <<clock, user, renewal, told, paid, crossed>>
  BY DEF Expiry!FlushMarks, Expiry!FlushFails, Expiry!Flushing, Expiry!Flushed
<1>2. ExpiryTyped /\ PassOK /\ job \in PassType
  BY DEF ExpiryInv, ExpiryTyped
<1>3. none \in [Expiry!Kinds -> SUBSET Services] /\ \A k \in Expiry!Kinds : none[k] = {}
  OBVIOUS
<1> HIDE DEF none
<1>4. /\ job' \in PassType /\ \A k \in Expiry!Kinds : job'.pending[k] = {}
      /\ \/ job'.pc = "idle" /\ job'.at = 0 /\ job'.batch = {} /\ job'.todo = {}
         \/ job'.pc = "notify" /\ job'.at = job.at /\ job'.batch = job.batch
            /\ job'.todo = job.todo /\ job'.copy = job.copy
  <2>1. CASE job.todo = {}
    BY <1>1, <2>1, IdleIs
  <2>2. CASE job.todo # {}
    <3>1. job' = [job EXCEPT !.pending = none]
      BY <1>1, <2>2
    <3> QED
      BY <1>1, <1>2, <1>3, <3>1 DEF PassType
  <2> QED
    BY <2>1, <2>2
<1>5. PassOK'
  BY <1>1, <1>2, <1>4, PassHas DEF PassOK
<1>6. ASSUME NEW s \in Services
      PROVE  /\ Marked(s) \in ServiceRow /\ Marked(s).there = row[s].there
             /\ Marked(s).expires = row[s].expires
             /\ Marked(s).noticed = row[s].noticed \cup {k \in Expiry!Kinds : s \in job.pending[k]}
  <2> DEFINE m == row[s].noticed \cup {k \in Expiry!Kinds : s \in job.pending[k]}
  <2>1. m \in SUBSET Expiry!Kinds /\ row[s] \in ServiceRow
    BY <1>2, PassHas
  <2>2. Marked(s) = [row[s] EXCEPT !.noticed = m]
    OBVIOUS
  <2> HIDE DEF m
  <2>3. Marked(s) \in ServiceRow /\ Marked(s).there = row[s].there
        /\ Marked(s).expires = row[s].expires /\ Marked(s).noticed = m
    BY <2>1, <2>2 DEF ServiceRow
  <2> QED
    BY <2>3 DEF m
<1> HIDE DEF Marked
<1>7. row' \in [Services -> ServiceRow]
  BY <1>1, <1>2, <1>6 DEF ExpiryTyped
<1>8. ExpiryTyped'
  BY <1>1, <1>2, <1>4, <1>7 DEF ExpiryTyped
<1>9. ASSUME NEW s \in Services, Expiry!Safe(s)' PROVE RowOK(s)' /\ HeldOK(s)'
  <2>1. Expiry!Safe(s) /\ HeldOK(s) /\ RowOK(s)
    BY <1>1, <1>9 DEF Expiry!Safe, ExpiryInv
  <2>2. /\ row'[s].there = row[s].there /\ row'[s].expires = row[s].expires
        /\ row[s].there => \A k \in Expiry!Kinds :
               k \in row'[s].noticed <=> k \in row[s].noticed \/ s \in job.pending[k]
    <3>1. CASE row' = row /\ stray' = stray \cup Expiry!Pending
      <4>1. s \notin Expiry!Pending
        BY <1>9, <3>1 DEF Expiry!Safe
      <4>2. \A k \in Expiry!Kinds : s \notin job.pending[k]
        BY <4>1 DEF Expiry!Pending, Expiry!Kinds
      <4> QED
        BY <3>1, <4>2
    <3>2. CASE row' = [t \in Services |-> IF row[t].there THEN Marked(t) ELSE row[t]]
      BY <1>6, <3>2
    <3> QED
      BY <1>1, <3>1, <3>2
  <2>3. RowOK(s)'
    BY <1>1, <1>4, <2>1, <2>2 DEF RowOK, Grace
  <2>4. HeldOK(s)'
    <3>1. CASE job'.batch = {} /\ job'.todo = {}
      BY <3>1 DEF HeldOK
    <3>2. CASE job'.pc = "notify" /\ job'.at = job.at /\ job'.batch = job.batch
               /\ job'.todo = job.todo /\ job'.copy = job.copy
      <4>1. ASSUME s \in job.todo PROVE row'[s] = row[s]
        <5>1. \A k \in Expiry!Kinds : s \notin job.pending[k]
          BY <1>2, <4>1 DEF PassOK
        <5>2. {k \in Expiry!Kinds : s \in job.pending[k]} = {}
          BY <5>1
        <5>3. Marked(s) = row[s]
          <6>1. row[s] \in ServiceRow
            BY <1>2, PassHas
          <6>2. Marked(s) = [row[s] EXCEPT !.noticed = @ \cup {}]
            BY <5>2 DEF Marked
          <6>3. row[s].noticed \cup {} = row[s].noticed
            OBVIOUS
          <6> QED
            BY <6>1, <6>2, <6>3 DEF ServiceRow
        <5> QED
          BY <1>1, <5>3
      <4>2. ASSUME s \in job.todo PROVE Expiry!Kind(row[s])' = Expiry!Kind(row[s])
        BY <3>2, <4>1, <4>2 DEF Expiry!Kind
      <4> QED
        BY <1>1, <2>1, <2>2, <3>2, <4>1, <4>2 DEF HeldOK
    <3> QED
      BY <1>4, <3>1, <3>2
  <2> QED
    BY <2>3, <2>4
<1> QED
  BY <1>5, <1>8, <1>9 DEF ExpiryInv

-----------------------------------------------------------------------------
(* Renewals, time and restarts.                                            *)

LEMMA RenewOnPanelKeeps ==
    ASSUME ExpiryAssumptions, ExpiryInv, NEW s \in Services, Expiry!RenewOnPanel(s)
    PROVE  ExpiryInv'
<1> DEFINE to == IF s \in user THEN "row" ELSE "idle"
           day == IF s \in user THEN clock + TERM ELSE paid[s]
<1>1. /\ renewal[s] = "idle" /\ row[s].there
      /\ renewal' = [renewal EXCEPT ![s] = to] /\ paid' = [paid EXCEPT ![s] = day]
      /\ crossed' = (IF s \in job.batch THEN crossed \cup {s} ELSE crossed)
      /\ UNCHANGED <<clock, row, user, job, told, stray>>
  BY DEF Expiry!RenewOnPanel, Expiry!Held
<1>2. ExpiryTyped /\ PassOK
  BY DEF ExpiryInv
<1>3. to \in {"idle", "row"} /\ day \in Nat
  BY <1>2, PassHas DEF ExpiryAssumptions
<1>4. /\ to = "idle" => day = paid[s]
  OBVIOUS
<1> HIDE DEF to, day
<1>5. /\ ExpiryTyped' /\ renewal'[s] = to /\ paid'[s] = day
      /\ \A t \in Services : t # s => renewal'[t] = renewal[t] /\ paid'[t] = paid[t]
  BY <1>1, <1>2, <1>3 DEF ExpiryTyped
<1>6. PassOK'
  BY <1>1, <1>2 DEF PassOK
<1>7. ASSUME NEW t \in Services, Expiry!Safe(t)' PROVE RowOK(t)' /\ HeldOK(t)'
  <2>1. Expiry!Safe(t) /\ HeldOK(t) /\ RowOK(t)
    BY <1>1, <1>7 DEF Expiry!Safe, ExpiryInv
  <2>2. Expiry!Kind(row[t])' = Expiry!Kind(row[t])
    BY <1>1 DEF Expiry!Kind
  <2>3. CASE t # s
    BY <1>1, <1>5, <2>1, <2>2, <2>3 DEF RowOK, HeldOK, Grace
  <2>4. CASE t = s
    <3>1. s \notin job.batch
      BY <1>1, <1>7, <2>4 DEF Expiry!Safe
    <3>2. RowOK(s)'
      BY <1>1, <1>4, <1>5, <2>1, <2>4 DEF RowOK, Grace
    <3>3. HeldOK(s)'
      BY <1>1, <1>2, <3>1 DEF HeldOK, PassOK
    <3> QED
      BY <2>4, <3>2, <3>3
  <2> QED
    BY <2>3, <2>4
<1> QED
  BY <1>5, <1>6, <1>7 DEF ExpiryInv

LEMMA RenewRowKeeps ==
    ASSUME ExpiryInv, NEW s \in Services, Expiry!RenewRow(s)
    PROVE  ExpiryInv'
<1> DEFINE r == IF row[s].there THEN Expiry!Renewed(s) ELSE row[s]
<1>1. /\ renewal[s] = "row" /\ renewal' = [renewal EXCEPT ![s] = "idle"]
      /\ row' = [row EXCEPT ![s] = r] /\ told' = [told EXCEPT ![s] = Expiry!Untold]
      /\ crossed' = (IF s \in job.batch THEN crossed \cup {s} ELSE crossed)
      /\ UNCHANGED <<clock, user, job, paid, stray>>
  BY DEF Expiry!RenewRow, Expiry!Held
<1>2. ExpiryTyped /\ PassOK /\ row[s] \in ServiceRow /\ paid[s] \in Nat
  BY PassHas DEF ExpiryInv
<1>3. /\ Expiry!Renewed(s) \in ServiceRow /\ Expiry!Renewed(s).there = row[s].there
      /\ Expiry!Renewed(s).expires = paid[s] /\ Expiry!Renewed(s).noticed = {}
  BY <1>2 DEF Expiry!Renewed, ServiceRow
<1>4. r \in ServiceRow /\ r.there = row[s].there
  BY <1>2, <1>3
<1>5. row[s].there => r = Expiry!Renewed(s)
  OBVIOUS
<1> HIDE DEF r
<1>6. Expiry!Untold \in [Expiry!Kinds -> Nat] /\ \A k \in Expiry!Kinds : Expiry!Untold[k] = 0
  BY DEF Expiry!Untold
<1>7. /\ ExpiryTyped' /\ renewal'[s] = "idle" /\ row'[s] = r /\ told'[s] = Expiry!Untold
      /\ \A t \in Services : t # s => /\ renewal'[t] = renewal[t] /\ row'[t] = row[t]
                                     /\ told'[t] = told[t]
  BY <1>1, <1>2, <1>4, <1>6 DEF ExpiryTyped
<1>8. PassOK'
  BY <1>1, <1>2 DEF PassOK
<1>9. ASSUME NEW t \in Services, Expiry!Safe(t)' PROVE RowOK(t)' /\ HeldOK(t)'
  <2>1. Expiry!Safe(t) /\ HeldOK(t) /\ RowOK(t)
    BY <1>1, <1>9 DEF Expiry!Safe, ExpiryInv
  <2>3. CASE t # s
    <3>1. Expiry!Kind(row[t])' = Expiry!Kind(row[t])
      BY <1>1, <1>7, <2>3 DEF Expiry!Kind
    <3> QED
      BY <1>1, <1>7, <2>1, <2>3, <3>1 DEF RowOK, HeldOK, Grace
  <2>4. CASE t = s
    <3>1. s \notin job.batch
      BY <1>1, <1>9, <2>4 DEF Expiry!Safe
    <3>2. row[s].there
      BY <1>1, <2>1, <2>4 DEF RowOK
    <3>3. \A k \in Expiry!Kinds : s \notin job.pending[k]
      BY <1>2, <3>1 DEF PassOK
    <3>4. RowOK(s)'
      <4>1. row'[s].expires = paid[s] /\ row'[s].noticed = {} /\ row'[s].there
        BY <1>3, <1>5, <1>7, <3>2
      <4>2. \A k \in Expiry!Kinds : told'[s][k] = 0
        BY <1>6, <1>7
      <4> QED
        BY <1>1, <1>7, <3>3, <4>1, <4>2 DEF RowOK
    <3>5. HeldOK(s)'
      BY <1>1, <1>2, <3>1 DEF HeldOK, PassOK
    <3> QED
      BY <2>4, <3>4, <3>5
  <2> QED
    BY <2>3, <2>4
<1> QED
  BY <1>7, <1>8, <1>9 DEF ExpiryInv

LEMMA RenewRowFailsKeeps ==
    ASSUME ExpiryInv, NEW s \in Services, Expiry!RenewRowFails(s)
    PROVE  ExpiryInv'
<1>1. /\ renewal' = [renewal EXCEPT ![s] = "idle"] /\ stray' = stray \cup {s}
      /\ UNCHANGED <<clock, row, user, job, told, paid, crossed>>
  BY DEF Expiry!RenewRowFails
<1>2. ExpiryTyped /\ PassOK
  BY DEF ExpiryInv
<1>3. ExpiryTyped' /\ PassOK'
  BY <1>1, <1>2 DEF ExpiryTyped, PassOK
<1>4. ASSUME NEW t \in Services, Expiry!Safe(t)' PROVE RowOK(t)' /\ HeldOK(t)'
  <2>1. Expiry!Safe(t) /\ HeldOK(t) /\ RowOK(t) /\ t # s
    BY <1>1, <1>4 DEF Expiry!Safe, ExpiryInv
  <2>2. renewal'[t] = renewal[t]
    BY <1>1, <1>2, <2>1 DEF ExpiryTyped
  <2>3. Expiry!Kind(row[t])' = Expiry!Kind(row[t])
    BY <1>1 DEF Expiry!Kind
  <2> QED
    BY <1>1, <2>1, <2>2, <2>3 DEF RowOK, HeldOK, Grace
<1> QED
  BY <1>3, <1>4 DEF ExpiryInv

LEMMA TickKeeps ==
    ASSUME ExpiryAssumptions, ExpiryInv, Expiry!Tick
    PROVE  ExpiryInv'
<1>1. /\ clock' = clock + 1
      /\ UNCHANGED <<row, user, job, renewal, told, paid, crossed, stray>>
  BY DEF Expiry!Tick
<1>2. ExpiryTyped /\ PassOK /\ clock \in Nat /\ job.at \in Nat
  BY PassHas DEF ExpiryInv
<1>3. ExpiryTyped' /\ PassOK'
  BY <1>1, <1>2 DEF ExpiryTyped, PassOK
<1>4. ASSUME NEW s \in Services, Expiry!Safe(s)' PROVE RowOK(s)' /\ HeldOK(s)'
  <2>1. Expiry!Safe(s) /\ HeldOK(s) /\ RowOK(s)
    BY <1>1, <1>4 DEF Expiry!Safe, ExpiryInv
  <2>2. paid[s] + Grace(s) \in Nat
    BY <1>2, PassHas DEF Grace, ExpiryAssumptions
  <2>3. clock >= paid[s] + Grace(s) => clock' >= paid[s] + Grace(s)
    BY <1>1, <1>2, <2>2
  <2>4. Expiry!Kind(row[s])' = Expiry!Kind(row[s]) /\ Grace(s)' = Grace(s)
    BY <1>1 DEF Expiry!Kind, Grace
  <2> QED
    BY <1>1, <2>1, <2>3, <2>4 DEF RowOK, HeldOK
<1> QED
  BY <1>3, <1>4 DEF ExpiryInv

LEMMA ExpiryRestartKeeps ==
    ASSUME ExpiryInv, Expiry!Restart
    PROVE  ExpiryInv'
<1>1. /\ job' = Expiry!IdleJob /\ renewal' = [s \in Services |-> "idle"]
      /\ stray \subseteq stray' /\ Expiry!Pending \subseteq stray'
      /\ {s \in Services : renewal[s] = "row"} \subseteq stray'
      /\ UNCHANGED <<clock, row, user, told, paid, crossed>>
  BY DEF Expiry!Restart
<1>2. ExpiryTyped /\ PassOK /\ clock \in Nat
  BY PassHas DEF ExpiryInv
<1>3. ExpiryTyped'
  BY <1>1, <1>2, IdleIs DEF ExpiryTyped
<1>4. PassOK'
  BY <1>1, <1>2, IdleIs DEF PassOK
<1>5. ASSUME NEW s \in Services, Expiry!Safe(s)' PROVE RowOK(s)' /\ HeldOK(s)'
  <2>1. Expiry!Safe(s) /\ HeldOK(s) /\ RowOK(s)
    BY <1>1, <1>5 DEF Expiry!Safe, ExpiryInv
  <2>2. renewal[s] = "idle" /\ renewal'[s] = "idle"
    BY <1>1, <1>2, <1>5 DEF Expiry!Safe, ExpiryTyped
  <2>3. \A k \in Expiry!Kinds : s \notin job.pending[k]
    BY <1>1, <1>5 DEF Expiry!Safe, Expiry!Pending, Expiry!Kinds
  <2> QED
    BY <1>1, <2>1, <2>2, <2>3, IdleIs DEF RowOK, HeldOK, Grace
<1> QED
  BY <1>3, <1>4, <1>5 DEF ExpiryInv

-----------------------------------------------------------------------------
LEMMA ExpiryInitOK ==
    ASSUME ExpiryAssumptions, Expiry!Init
    PROVE  ExpiryInv
<1> DEFINE r == [expires |-> TERM, noticed |-> {}, there |-> TRUE]
<1>1. r \in ServiceRow
  BY DEF ServiceRow, ExpiryAssumptions
<1>2. Expiry!Untold \in [Expiry!Kinds -> Nat] /\ \A k \in Expiry!Kinds : Expiry!Untold[k] = 0
  BY DEF Expiry!Untold
<1>3. ExpiryTyped
  BY <1>1, <1>2, IdleIs DEF Expiry!Init, ExpiryTyped, ExpiryAssumptions
<1>4. PassOK
  BY IdleIs DEF Expiry!Init, PassOK
<1>5. \A s \in Services : RowOK(s) /\ HeldOK(s)
  BY <1>2, IdleIs DEF Expiry!Init, RowOK, HeldOK
<1> QED
  BY <1>3, <1>4, <1>5 DEF ExpiryInv

LEMMA ExpiryNextKeeps ==
    ASSUME ExpiryAssumptions, ExpiryInv, [Expiry!Next]_(Expiry!vars)
    PROVE  ExpiryInv'
<1>1. CASE UNCHANGED Expiry!vars
  BY <1>1 DEF Expiry!vars, ExpiryInv, ExpiryTyped, PassOK, RowOK, HeldOK, Expiry!Safe, Expiry!Kind,
     Grace
<1>2. CASE Expiry!JobStep
  BY <1>2, BeginKeeps, ListKeeps, RemoveUserKeeps, DeleteRowsKeeps, ListOwedKeeps,
     NotifyKeeps, NotifyFailsKeeps, FlushKeeps DEF Expiry!JobStep
<1>3. CASE \E s \in Services : Expiry!RenewOnPanel(s) \/ Expiry!RenewRow(s) \/ Expiry!RenewRowFails(s)
  BY <1>3, RenewOnPanelKeeps, RenewRowKeeps, RenewRowFailsKeeps
<1>4. CASE Expiry!Tick \/ Expiry!Restart
  BY <1>4, TickKeeps, ExpiryRestartKeeps
<1> QED
  BY <1>1, <1>2, <1>3, <1>4 DEF Expiry!Next

\* A service goes only after its term and grace, and with its user unless its row has no
\* panel_userid; and a row is marked once its owner was told, unless a renewal crossed the
\* pass or a call failed in the middle, for any services, page sizes and number of passes,
\* and whichever rows have no panel_userid: src/app/jobs/services/expiration.py.
THEOREM ServicesEndInTimeAlways ==
    ASSUME ExpiryAssumptions
    PROVE  Expiry!Spec => []Expiry!ServicesEndInTime
<1>1. ExpiryInv => Expiry!ServicesEndInTime
  <2> SUFFICES ASSUME ExpiryInv PROVE Expiry!GoneIsOver /\ Expiry!MarkedIsTold
    BY DEF Expiry!ServicesEndInTime
  <2>1. Expiry!GoneIsOver
    BY DEF Expiry!GoneIsOver, ExpiryInv, RowOK, Grace
  <2>2. Expiry!MarkedIsTold
    BY DEF Expiry!MarkedIsTold, ExpiryInv, RowOK
  <2> QED
    BY <2>1, <2>2
<1> QED
  BY <1>1, ExpiryInitOK, ExpiryNextKeeps, PTL DEF Expiry!Spec
=============================================================================
