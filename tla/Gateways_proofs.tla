--------------------------- MODULE Gateways_proofs ---------------------------
(***************************************************************************)
(* Proofs about the gateways other than the crypto wallets, for any number *)
(* of payments, callbacks and button presses: IrGateway first, then, as    *)
(* the instances Ton and Star, TonPays and Stars.  The argument about      *)
(* IrGateway rests on what a running verify_payment may still rely on when *)
(* it acts on its copies: "verified" and "failed" at the gateway and the   *)
(* age of a payment never change back (Lasts), so what it was told about   *)
(* its payment stays true, however late it acts.                           *)
(***************************************************************************)
EXTENDS IrGateway, TLAPS

\* worker is a function to records.  What its batch holds does not matter.
IsWorker ==
    \E S, O, E :
        worker \in [Workers ->
            [pc : {"idle", "ask", "answered", "closing"}, todo : S, expired : E,
             canceled : BOOLEAN, outcome : O, close : FAILED_STATUSES \union {"none"}]]

TypeOK ==
    /\ status \in [Payments -> Statuses]
    /\ credits \in [Payments -> Nat]
    /\ old \in [Payments -> BOOLEAN]
    /\ remote \in [Payments -> RemoteStatuses]
    /\ creation \in [Payments -> {"none", "counted", "inserted", "requested", "over"}]
    /\ IsWorker

\* What w was told about its payment, read before it or decided for it still holds.
Trusts(w) ==
    Current(w) \in Payments =>
        /\ worker[w].outcome = "paid" => remote[Current(w)] = "verified"
        /\ worker[w].outcome = "failed" => remote[Current(w)] = "failed"
        /\ worker[w].expired = TRUE => old[Current(w)]
        /\ worker[w].close = "failed" => remote[Current(w)] = "failed"
        /\ worker[w].close = "expired" => old[Current(w)]

Decided(w) == At(w, "closing") => worker[w].close \in FAILED_STATUSES

\* A payment is unknown to the gateway until it is asked for it, and is not open
\* before its row is inserted.
Early(p) ==
    /\ creation[p] \in {"none", "counted"} => ~Pending(p) /\ credits[p] = 0
    /\ creation[p] \in {"none", "counted", "inserted"} => remote[p] = "none"

Counted(p) ==
    \/ credits[p] = 0
    \/ credits[p] = 1 /\ ~Pending(p) /\ remote[p] = "verified"

\* A payment closed without a credit is old, was called canceled, or can never be
\* paid any more: PaidLostOnlyByAgeOrClaim alone would not survive a late buyer.
Kept(p) ==
    status[p] \in FAILED_STATUSES /\ credits[p] = 0
        => old[p] \/ status[p] = "canceled" \/ remote[p] = "failed"

PaymentInv(p) == Early(p) /\ Counted(p) /\ Kept(p)
WorkerInv(w) == Trusts(w) /\ Decided(w)

IInv ==
    /\ TypeOK
    /\ \A p \in Payments : PaymentInv(p)
    /\ \A w \in Workers : WorkerInv(w)

\* What a worker relies on is not taken back.
Lasts ==
    \A p \in Payments :
        /\ remote[p] = "verified" => remote'[p] = "verified"
        /\ remote[p] = "failed" => remote'[p] = "failed"
        /\ old[p] => old'[p]

-----------------------------------------------------------------------------
\* The invariant holds initially.
LEMMA InitInv == Init => IInv
    <1> SUFFICES ASSUME Init PROVE IInv
        OBVIOUS
    <1>1. worker \in [Workers ->
            [pc : {"idle", "ask", "answered", "closing"}, todo : {<<>>}, expired : {FALSE},
             canceled : BOOLEAN, outcome : {"none"}, close : FAILED_STATUSES \union {"none"}]]
        BY DEF Init, IdleWorker
    <1>2. IsWorker
        BY <1>1 DEF IsWorker
    <1>3. TypeOK
        BY <1>2 DEF Init, TypeOK, Statuses, RemoteStatuses, FAILED_STATUSES
    <1>4. \A p \in Payments : PaymentInv(p)
        BY DEF Init, PaymentInv, Early, Counted, Kept, Pending, FAILED_STATUSES
    <1>5. \A w \in Workers : WorkerInv(w)
        BY DEF Init, WorkerInv, Trusts, Decided, At, IdleWorker, FAILED_STATUSES
    <1> QED BY <1>3, <1>4, <1>5 DEF IInv

\* A worker that takes no step keeps what it trusts in.
LEMMA OtherWorkers ==
    ASSUME Lasts, NEW w, WorkerInv(w), worker'[w] = worker[w]
    PROVE  WorkerInv(w)'
    BY DEF Lasts, WorkerInv, Trusts, Decided, At, Current

\* A step that leaves the workers alone, and takes nothing back, keeps what they
\* trust in.
LEMMA WorkersKept ==
    ASSUME IInv, Lasts, UNCHANGED worker
    PROVE  IsWorker' /\ \A w \in Workers : WorkerInv(w)'
    <1>1. IsWorker'
        BY DEF IInv, TypeOK, IsWorker, Workers
    <1>2. \A w \in Workers : WorkerInv(w)'
        BY OtherWorkers DEF IInv
    <1> QED BY <1>1, <1>2

\* The record of a verify_payment that begins.
LEMMA Begun ==
    ASSUME NEW batch, NEW e, NEW claimed
    PROVE  [IdleWorker EXCEPT !.pc = "ask", !.todo = batch, !.expired = e, !.canceled = claimed]
             \in [pc : {"ask"}, todo : {batch}, expired : {e}, canceled : {claimed},
                  outcome : {"none"}, close : {"none"}]
    BY DEF IdleWorker

\* A worker that begins with a payment has read only the payment's age.
LEMMA BeginKeeps ==
    ASSUME IInv, Lasts, NEW w \in Workers, NEW batch, NEW claimed \in BOOLEAN,
           Begin(w, batch, claimed)
    PROVE  IsWorker' /\ \A v \in Workers : WorkerInv(v)'
    <1> DEFINE begun == [IdleWorker EXCEPT !.pc = "ask", !.todo = batch,
                                           !.expired = old[Head(batch)], !.canceled = claimed]
    <1>1. worker' = [worker EXCEPT ![w] = begun]
        BY DEF Begin
    <1>2. begun \in [pc : {"ask"}, todo : {batch}, expired : {old[Head(batch)]},
                     canceled : {claimed}, outcome : {"none"}, close : {"none"}]
        BY Begun
    <1> HIDE DEF begun
    <1>3. PICK S, O, E :
            worker \in [Workers ->
                [pc : {"idle", "ask", "answered", "closing"}, todo : S, expired : E,
                 canceled : BOOLEAN, outcome : O, close : FAILED_STATUSES \union {"none"}]]
        BY DEF IInv, TypeOK, IsWorker
    <1>4. worker' \in [Workers ->
                [pc : {"idle", "ask", "answered", "closing"}, todo : S \union {batch},
                 expired : E \union {old[Head(batch)]}, canceled : BOOLEAN,
                 outcome : O \union {"none"}, close : FAILED_STATUSES \union {"none"}]]
        BY <1>1, <1>2, <1>3
    <1>5. IsWorker'
        BY <1>4 DEF IsWorker, Workers
    <1>6. worker'[w] = begun
        BY <1>1, <1>3
    <1>7. WorkerInv(w)'
        BY <1>2, <1>6 DEF Lasts, WorkerInv, Trusts, Decided, At, Current
    <1>8. ASSUME NEW v \in Workers \ {w} PROVE WorkerInv(v)'
        BY <1>1, <1>3, OtherWorkers DEF IInv
    <1> QED BY <1>5, <1>7, <1>8

\* A worker that returns is idle or begins with the rest of its batch.
LEMMA ReturnKeeps ==
    ASSUME IInv, NEW w \in Workers, Return(w)
    PROVE  /\ IsWorker' /\ (\A v \in Workers : WorkerInv(v)')
           /\ UNCHANGED <<old, remote, creation>>
    <1>1. UNCHANGED <<old, remote, creation>> /\ Lasts
        BY DEF Return, Lasts
    <1>2. CASE Tail(worker[w].todo) # <<>>
        BY <1>1, <1>2, BeginKeeps DEF Return
    <1>3. CASE Tail(worker[w].todo) = <<>>
        <2>1. worker' = [worker EXCEPT ![w] = IdleWorker]
            BY <1>3 DEF Return
        <2>2. PICK S, O, E :
                worker \in [Workers ->
                    [pc : {"idle", "ask", "answered", "closing"}, todo : S, expired : E,
                     canceled : BOOLEAN, outcome : O, close : FAILED_STATUSES \union {"none"}]]
            BY DEF IInv, TypeOK, IsWorker
        <2>3. worker' \in [Workers ->
                    [pc : {"idle", "ask", "answered", "closing"}, todo : S \union {<<>>},
                     expired : E \union {FALSE}, canceled : BOOLEAN,
                     outcome : O \union {"none"}, close : FAILED_STATUSES \union {"none"}]]
            BY <2>1, <2>2 DEF IdleWorker
        <2>4. IsWorker'
            BY <2>3 DEF IsWorker, Workers
        <2>5. WorkerInv(w)'
            BY <2>1, <2>2 DEF IdleWorker, WorkerInv, Trusts, Decided, At, Current
        <2>6. ASSUME NEW v \in Workers \ {w} PROVE WorkerInv(v)'
            BY <1>1, <2>1, <2>2, OtherWorkers DEF IInv
        <2> QED BY <1>1, <2>4, <2>5, <2>6
    <1> QED BY <1>2, <1>3

-----------------------------------------------------------------------------
\* create_deposit keeps the invariant.
LEMMA CreatingKeeps ==
    ASSUME IInv, NEW p \in Payments, Creating(p)
    PROVE  IInv'
    <1>1. UNCHANGED <<credits, old, worker>>
        BY DEF Creating, Creates, CountOpen, InsertRow, GatewayAccepts, GatewayRefuses,
               StoreAuthority, CreationDies
    <1>2. /\ status' \in [Payments -> Statuses] /\ remote' \in [Payments -> RemoteStatuses]
          /\ creation' \in [Payments -> {"none", "counted", "inserted", "requested", "over"}]
        BY DEF IInv, TypeOK, Creating, Creates, CountOpen, InsertRow, GatewayAccepts,
               GatewayRefuses, StoreAuthority, CreationDies, Statuses, RemoteStatuses
    <1>3. \A q \in Payments \ {p} :
            status'[q] = status[q] /\ remote'[q] = remote[q] /\ creation'[q] = creation[q]
        BY DEF IInv, TypeOK, Creating, Creates, CountOpen, InsertRow, GatewayAccepts,
               GatewayRefuses, StoreAuthority, CreationDies
    <1>4. PaymentInv(p)'
        <2>1. PaymentInv(p) /\ status[p] \in Statuses /\ credits[p] \in Nat
            BY DEF IInv, TypeOK
        <2>2. CASE CountOpen(p) \/ StoreAuthority(p) \/ CreationDies(p)
            BY <1>1, <2>1, <2>2
               DEF IInv, TypeOK, CountOpen, StoreAuthority, CreationDies, Creates, PaymentInv,
                   Early, Counted, Kept, Pending
        <2>3. CASE InsertRow(p) \/ GatewayRefuses(p)
            BY <1>1, <2>1, <2>3
               DEF IInv, TypeOK, InsertRow, GatewayRefuses, Creates, PaymentInv, Early, Counted,
                   Kept, Pending, FAILED_STATUSES
        <2>4. CASE GatewayAccepts(p)
            BY <1>1, <2>1, <2>4
               DEF IInv, TypeOK, GatewayAccepts, Creates, PaymentInv, Early, Counted, Kept, Pending
        <2> QED BY <2>2, <2>3, <2>4 DEF Creating
    <1>5. ASSUME NEW q \in Payments \ {p} PROVE PaymentInv(q)'
        BY <1>1, <1>3 DEF IInv, PaymentInv, Early, Counted, Kept, Pending
    <1>6. Lasts
        <2>1. remote[p] = "verified" \/ remote[p] = "failed" => remote'[p] = remote[p]
            BY DEF IInv, PaymentInv, Early, TypeOK, Creating, Creates, CountOpen, InsertRow,
                   GatewayAccepts, GatewayRefuses, StoreAuthority, CreationDies
        <2> QED BY <1>1, <1>3, <2>1 DEF Lasts
    <1>7. IsWorker' /\ \A w \in Workers : WorkerInv(w)'
        BY <1>1, <1>6, WorkersKept
    <1>8. TypeOK'
        BY <1>1, <1>2, <1>7 DEF IInv, TypeOK
    <1> QED BY <1>4, <1>5, <1>7, <1>8 DEF IInv

\* The answer of the gateway: a worker holds "paid" or "failed" only if it is so.
LEMMA AnswerKeeps ==
    ASSUME IInv, NEW w \in Workers, Verify(w) \/ VerifyFails(w) \/ VerifyRefused(w)
    PROVE  IInv'
    <1> DEFINE p == Current(w)
    <1>1. UNCHANGED <<rowVars, old, creation>>
        BY DEF Verify, VerifyFails, VerifyRefused, Receive
    <1>2. \/ UNCHANGED remote
          \/ remote[p] \in {"paid", "verified"} /\ remote' = [remote EXCEPT ![p] = "verified"]
        BY DEF Verify, VerifyFails, VerifyRefused
    <1>3. PICK o : worker' = [worker EXCEPT ![w].pc = "answered", ![w].outcome = o]
        BY DEF Verify, VerifyFails, VerifyRefused, Receive
    <1>4. PICK S, O, E :
            worker \in [Workers ->
                [pc : {"idle", "ask", "answered", "closing"}, todo : S, expired : E,
                 canceled : BOOLEAN, outcome : O, close : FAILED_STATUSES \union {"none"}]]
        BY DEF IInv, TypeOK, IsWorker
    <1>5. /\ worker'[w].todo = worker[w].todo /\ worker'[w].expired = worker[w].expired
          /\ worker'[w].close = worker[w].close /\ worker'[w].pc = "answered"
          /\ worker'[w].outcome = o
        BY <1>3, <1>4
    <1>6. \A v \in Workers \ {w} : worker'[v] = worker[v]
        BY <1>3, <1>4
    <1>7. IsWorker'
        <2>1. worker' \in [Workers ->
                [pc : {"idle", "ask", "answered", "closing"}, todo : S, expired : E,
                 canceled : BOOLEAN, outcome : O \union {o},
                 close : FAILED_STATUSES \union {"none"}]]
            BY <1>3, <1>4
        <2> QED BY <2>1 DEF IsWorker, Workers
    <1>8. Lasts
        BY <1>1, <1>2 DEF Lasts, IInv, TypeOK
    <1>9. \/ o = "paid" /\ (p \in Payments => remote'[p] = "verified")
          \/ o = remote[p] /\ remote[p] \notin {"paid", "verified"} /\ UNCHANGED remote
          \/ o \in {"error", "unpaid"}
        <2>1. CASE Verify(w)
            <3>1. CASE remote[p] \in {"paid", "verified"}
                <4>1. worker' = [worker EXCEPT ![w].pc = "answered", ![w].outcome = "paid"]
                    BY <2>1, <3>1 DEF Verify, Receive
                <4>2. worker'[w].outcome = "paid"
                    BY <1>4, <4>1
                <4>3. p \in Payments => remote'[p] = "verified"
                    BY <2>1, <3>1 DEF Verify, IInv, TypeOK
                <4> QED BY <1>5, <4>2, <4>3
            <3>2. CASE remote[p] \notin {"paid", "verified"}
                <4>1. /\ worker' = [worker EXCEPT ![w].pc = "answered", ![w].outcome = remote[p]]
                      /\ UNCHANGED remote
                    BY <2>1, <3>2 DEF Verify, Receive
                <4>2. worker'[w].outcome = remote[p]
                    BY <1>4, <4>1
                <4> QED BY <1>5, <3>2, <4>1, <4>2
            <3> QED BY <3>1, <3>2
        <2>2. CASE VerifyFails(w)
            <3>1. worker' = [worker EXCEPT ![w].pc = "answered", ![w].outcome = "error"]
                BY <2>2 DEF VerifyFails, Receive
            <3>2. worker'[w].outcome = "error"
                BY <1>4, <3>1
            <3> QED BY <1>5, <3>2
        <2>3. CASE VerifyRefused(w)
            <3>1. worker' = [worker EXCEPT ![w].pc = "answered", ![w].outcome = "unpaid"]
                BY <2>3 DEF VerifyRefused, Receive
            <3>2. worker'[w].outcome = "unpaid"
                BY <1>4, <3>1
            <3> QED BY <1>5, <3>2
        <2> QED BY <2>1, <2>2, <2>3
    <1>10. WorkerInv(w)'
        <2>1. Current(w)' = p
            BY <1>5 DEF Current
        <2>2. Trusts(w)
            BY DEF IInv, WorkerInv
        <2>3. Trusts(w)'
            BY <1>5, <1>8, <1>9, <2>1, <2>2 DEF Trusts, Lasts, Current
        <2>4. Decided(w)'
            BY <1>5 DEF Decided, At
        <2> QED BY <2>3, <2>4 DEF WorkerInv
    <1>11. ASSUME NEW v \in Workers PROVE WorkerInv(v)'
        BY <1>6, <1>8, <1>10, OtherWorkers DEF IInv
    <1>12. TypeOK'
        BY <1>1, <1>2, <1>7 DEF IInv, TypeOK, rowVars, RemoteStatuses
    <1>13. ASSUME NEW q \in Payments PROVE PaymentInv(q)'
        <2>1. PaymentInv(q)
            BY DEF IInv
        <2>2. \/ remote'[q] = remote[q]
              \/ remote[q] \in {"paid", "verified"} /\ remote'[q] = "verified"
            BY <1>2 DEF IInv, TypeOK
        <2> QED BY <1>1, <2>1, <2>2
                DEF rowVars, PaymentInv, Early, Counted, Kept, Pending
    <1> QED BY <1>11, <1>12, <1>13 DEF IInv

\* The transaction that credits looks at the status again: only an open payment is
\* credited, and the answer it rests on is that of the gateway.
LEMMA CreditKeeps ==
    ASSUME IInv, NEW w \in Workers, Credit(w)
    PROVE  IInv'
    <1> DEFINE p == Current(w)
    <1>1. Says(w, "paid") /\ Return(w)
        BY DEF Credit
    <1>2. /\ IsWorker' /\ (\A v \in Workers : WorkerInv(v)')
          /\ UNCHANGED <<old, remote, creation>>
        BY <1>1, ReturnKeeps
    <1>3. CASE ~Pending(p)
        <2>1. UNCHANGED rowVars
            BY <1>3 DEF Credit
        <2>2. TypeOK'
            BY <1>2, <2>1 DEF IInv, TypeOK, rowVars
        <2>3. \A q \in Payments : PaymentInv(q)'
            BY <1>2, <2>1 DEF IInv, rowVars, PaymentInv, Early, Counted, Kept, Pending
        <2> QED BY <1>2, <2>2, <2>3 DEF IInv
    <1>4. CASE Pending(p)
        <2>1. /\ status' = [status EXCEPT ![p] = "completed"]
              /\ credits' = [credits EXCEPT ![p] = @ + 1]
            BY <1>4 DEF Credit
        <2>2. TypeOK'
            <3>1. status' \in [Payments -> Statuses]
                BY <2>1 DEF IInv, TypeOK, Statuses
            <3>2. credits \in [Payments -> Nat]
                BY DEF IInv, TypeOK
            <3>3. credits' \in [Payments -> Nat]
                <4>1. CASE p \in Payments
                    <5>1. credits[p] + 1 \in Nat
                        BY <3>2, <4>1
                    <5> QED BY <2>1, <3>2, <5>1
                <4>2. CASE p \notin Payments
                    <5>1. credits' = credits
                        BY <2>1, <3>2, <4>2
                    <5> QED BY <3>2, <5>1
                <4> QED BY <4>1, <4>2
            <3> QED BY <1>2, <3>1, <3>3 DEF IInv, TypeOK
        <2>3. ASSUME NEW q \in Payments PROVE PaymentInv(q)'
            <3>1. PaymentInv(q) /\ credits[q] \in Nat
                BY DEF IInv, TypeOK
            <3>2. CASE q # p
                BY <1>2, <2>1, <3>1, <3>2
                   DEF IInv, TypeOK, PaymentInv, Early, Counted, Kept, Pending
            <3>3. CASE q = p
                <4>1. status'[q] = "completed" /\ credits'[q] = credits[q] + 1
                    BY <2>1, <3>3 DEF IInv, TypeOK
                <4>2. remote[q] = "verified"
                    BY <1>1, <3>3 DEF IInv, WorkerInv, Trusts, Says
                <4>3. credits[q] = 0 /\ creation[q] \notin {"none", "counted", "inserted"}
                    BY <1>4, <3>1, <3>3, <4>2 DEF PaymentInv, Early, Counted
                <4> QED BY <1>2, <4>1, <4>2, <4>3
                        DEF PaymentInv, Early, Counted, Kept, Pending, FAILED_STATUSES
            <3> QED BY <3>2, <3>3
        <2> QED BY <1>2, <2>2, <2>3 DEF IInv
    <1> QED BY <1>3, <1>4

\* A close that was decided is justified: by the gateway's word, by the payment's
\* age or by the claim of a return URL.
LEMMA CloseReadsKeeps ==
    ASSUME IInv, NEW w \in Workers, CloseReads(w)
    PROVE  IInv'
    <1>1. UNCHANGED rowVars
        BY DEF CloseReads
    <1>2. CASE ~Pending(Current(w))
        <2>1. Return(w)
            BY <1>2 DEF CloseReads
        <2>2. /\ IsWorker' /\ (\A v \in Workers : WorkerInv(v)')
              /\ UNCHANGED <<old, remote, creation>>
            BY <2>1, ReturnKeeps
        <2> QED BY <1>1, <2>2
                DEF IInv, TypeOK, rowVars, PaymentInv, Early, Counted, Kept, Pending
    <1>3. CASE Pending(Current(w))
        <2>1. /\ worker' = [worker EXCEPT ![w].pc = "closing", ![w].close = ClosesAs(w)]
              /\ UNCHANGED <<old, remote, creation>> /\ ClosesAs(w) # "none"
            BY <1>3 DEF CloseReads
        <2>2. PICK S, O, E :
                worker \in [Workers ->
                    [pc : {"idle", "ask", "answered", "closing"}, todo : S, expired : E,
                     canceled : BOOLEAN, outcome : O, close : FAILED_STATUSES \union {"none"}]]
            BY DEF IInv, TypeOK, IsWorker
        <2>3. ClosesAs(w) \in FAILED_STATUSES
            BY <2>1 DEF ClosesAs, FAILED_STATUSES
        <2>4. worker' \in [Workers ->
                    [pc : {"idle", "ask", "answered", "closing"}, todo : S, expired : E,
                     canceled : BOOLEAN, outcome : O, close : FAILED_STATUSES \union {"none"}]]
            BY <2>1, <2>2, <2>3
        <2>5. IsWorker'
            BY <2>4 DEF IsWorker, Workers
        <2>6. /\ worker'[w].todo = worker[w].todo /\ worker'[w].expired = worker[w].expired
              /\ worker'[w].outcome = worker[w].outcome /\ worker'[w].close = ClosesAs(w)
            BY <2>1, <2>2
        <2>7. WorkerInv(w)'
            <3>1. Current(w)' = Current(w)
                BY <2>6 DEF Current
            <3>2. Trusts(w)
                BY DEF IInv, WorkerInv
            <3>3. ClosesAs(w) = "failed" => worker[w].outcome = "failed"
                BY DEF ClosesAs
            <3>4. ClosesAs(w) = "expired" => worker[w].expired = TRUE
                BY DEF ClosesAs
            <3>5. Trusts(w)'
                BY <2>1, <2>6, <3>1, <3>2, <3>3, <3>4 DEF Trusts
            <3>6. Decided(w)'
                BY <2>3, <2>6 DEF Decided
            <3> QED BY <3>5, <3>6 DEF WorkerInv
        <2>8. Lasts
            BY <2>1 DEF Lasts
        <2>9. ASSUME NEW v \in Workers PROVE WorkerInv(v)'
            BY <2>1, <2>2, <2>7, <2>8, OtherWorkers DEF IInv
        <2>10. TypeOK'
            BY <1>1, <2>1, <2>5 DEF IInv, TypeOK, rowVars
        <2>11. \A q \in Payments : PaymentInv(q)'
            BY <1>1, <2>1 DEF IInv, rowVars, PaymentInv, Early, Counted, Kept, Pending
        <2> QED BY <2>9, <2>10, <2>11 DEF IInv
    <1> QED BY <1>2, <1>3

\* The write of a close may come late, but not without its reason.
LEMMA CloseWritesKeeps ==
    ASSUME IInv, NEW w \in Workers, CloseWrites(w)
    PROVE  IInv'
    <1> DEFINE p == Current(w)
    <1>1. /\ At(w, "closing") /\ Return(w) /\ UNCHANGED credits
          /\ status' = [status EXCEPT ![p] = worker[w].close]
        BY DEF CloseWrites
    <1>2. /\ IsWorker' /\ (\A v \in Workers : WorkerInv(v)')
          /\ UNCHANGED <<old, remote, creation>>
        BY <1>1, ReturnKeeps
    <1>3. worker[w].close \in FAILED_STATUSES /\ Trusts(w)
        BY <1>1 DEF IInv, WorkerInv, Decided
    <1>4. TypeOK'
        BY <1>1, <1>2, <1>3 DEF IInv, TypeOK, Statuses
    <1>5. ASSUME NEW q \in Payments PROVE PaymentInv(q)'
        <2>1. PaymentInv(q)
            BY DEF IInv
        <2>2. CASE q # p
            BY <1>1, <1>2, <2>1, <2>2 DEF IInv, TypeOK, PaymentInv, Early, Counted, Kept, Pending
        <2>3. CASE q = p
            <3>1. status'[q] = worker[w].close
                BY <1>1, <2>3 DEF IInv, TypeOK
            <3>2. /\ worker[w].close = "failed" => remote[q] = "failed"
                  /\ worker[w].close = "expired" => old[q]
                BY <1>3, <2>3 DEF Trusts
            <3> QED BY <1>1, <1>2, <1>3, <2>1, <3>1, <3>2
                    DEF PaymentInv, Early, Counted, Kept, Pending, FAILED_STATUSES
        <2> QED BY <2>2, <2>3
    <1> QED BY <1>2, <1>4, <1>5 DEF IInv

-----------------------------------------------------------------------------
\* Every step keeps the invariant.
LEMMA NextInv == IInv /\ [Next]_vars => IInv'
    <1> SUFFICES ASSUME IInv, [Next]_vars PROVE IInv'
        OBVIOUS
    <1>1. ASSUME NEW w \in Workers, Return(w), UNCHANGED <<status, credits>> PROVE IInv'
        BY <1>1, ReturnKeeps DEF IInv, TypeOK, PaymentInv, Early, Counted, Kept, Pending
    <1>2. ASSUME NEW w \in Workers, NEW batch, NEW claimed \in BOOLEAN, Begin(w, batch, claimed),
                 UNCHANGED <<rowVars, old, remote, creation>>
          PROVE  IInv'
        <2>1. Lasts
            BY <1>2 DEF Lasts
        <2>2. IsWorker' /\ \A v \in Workers : WorkerInv(v)'
            BY <1>2, <2>1, BeginKeeps
        <2> QED BY <1>2, <2>2
                DEF IInv, TypeOK, rowVars, PaymentInv, Early, Counted, Kept, Pending
    <1>3. ASSUME NEW p \in Payments, Creating(p) PROVE IInv'
        BY <1>3, CreatingKeeps
    <1>4. ASSUME NEW p \in Payments, BuyerActs(p) PROVE IInv'
        <2>1. UNCHANGED <<rowVars, old, creation, worker>>
            BY <1>4 DEF BuyerActs
        <2>2. /\ remote[p] = "unpaid" /\ remote'[p] \in {"paid", "failed"}
              /\ \A q \in Payments \ {p} : remote'[q] = remote[q]
              /\ remote' \in [Payments -> RemoteStatuses]
            BY <1>4 DEF BuyerActs, IInv, TypeOK, RemoteStatuses
        <2>3. Lasts
            BY <2>1, <2>2 DEF Lasts
        <2>4. IsWorker' /\ \A w \in Workers : WorkerInv(w)'
            BY <2>1, <2>3, WorkersKept
        <2>5. TypeOK'
            BY <2>1, <2>2, <2>4 DEF IInv, TypeOK, rowVars
        <2>6. ASSUME NEW q \in Payments \ {p} PROVE PaymentInv(q)'
            BY <2>1, <2>2 DEF IInv, rowVars, PaymentInv, Early, Counted, Kept, Pending
        <2> QED BY <2>1, <2>2, <2>4, <2>5, <2>6
                DEF IInv, rowVars, PaymentInv, Early, Counted, Kept, Pending
    <1>5. ASSUME NEW p \in Payments, Age(p) PROVE IInv'
        <2>1. UNCHANGED <<rowVars, remote, creation, worker>> /\ old' = [old EXCEPT ![p] = TRUE]
            BY <1>5 DEF Age
        <2>2. \A q \in Payments : old[q] => old'[q]
            BY <2>1 DEF IInv, TypeOK
        <2>3. Lasts
            BY <2>1, <2>2 DEF Lasts
        <2>4. IsWorker' /\ \A w \in Workers : WorkerInv(w)'
            BY <2>1, <2>3, WorkersKept
        <2>5. TypeOK'
            BY <2>1, <2>4 DEF IInv, TypeOK, rowVars
        <2> QED BY <2>1, <2>2, <2>4, <2>5
                DEF IInv, rowVars, PaymentInv, Early, Counted, Kept, Pending
    <1>6. ASSUME NEW v \in Visitors, NEW p \in Payments, Visit(v, p) PROVE IInv'
        <2>1. v \in Workers
            BY DEF Workers
        <2> QED BY <1>2, <1>6, <2>1 DEF Visit
    <1>7. CASE ListOpen
        <2>1. Poller \in Workers
            BY DEF Workers
        <2> QED BY <1>2, <1>7, <2>1 DEF ListOpen
    <1>8. ASSUME NEW w \in Workers, Verifying(w) PROVE IInv'
        <2>1. CASE Bump(w)
            BY <1>1, <2>1 DEF Bump
        <2> QED BY <1>8, <2>1, AnswerKeeps, CreditKeeps, CloseReadsKeeps, CloseWritesKeeps
                DEF Verifying
    <1>9. ASSUME NEW w \in Workers, DbError(w) PROVE IInv'
        BY <1>1, <1>9 DEF DbError, rowVars
    <1>10. CASE UNCHANGED vars
        <2>1. Lasts
            BY <1>10 DEF vars, Lasts
        <2>2. IsWorker' /\ \A w \in Workers : WorkerInv(w)'
            BY <1>10, <2>1, WorkersKept DEF vars
        <2> QED BY <1>10, <2>2
                DEF vars, rowVars, IInv, TypeOK, PaymentInv, Early, Counted, Kept, Pending
    <1> QED BY <1>3, <1>4, <1>5, <1>6, <1>7, <1>8, <1>9, <1>10 DEF Next

\* IInv is an invariant of the gateway payments.
THEOREM Inductive == Spec => []IInv
    BY InitInv, NextInv, PTL DEF Spec

\* However callback, button and poller race, no payment is credited twice.
THEOREM CreditedAtMostOnceAlways == Spec => []CreditedAtMostOnce
    <1>1. IInv => CreditedAtMostOnce
        BY DEF IInv, PaymentInv, Counted, CreditedAtMostOnce
    <1> QED BY <1>1, Inductive, PTL

\* A payment is credited only when the gateway itself has verified it.
THEOREM OnlyVerifiedIsCreditedAlways == Spec => []OnlyVerifiedIsCredited
    <1>1. IInv => OnlyVerifiedIsCredited
        BY DEF IInv, PaymentInv, Counted, OnlyVerifiedIsCredited
    <1> QED BY <1>1, Inductive, PTL

\* A payment the buyer made is closed without a credit only when it is old, or when
\* a return URL claimed that the buyer canceled.
THEOREM PaidLostOnlyByAgeOrClaimAlways == Spec => []PaidLostOnlyByAgeOrClaim
    <1>1. IInv => PaidLostOnlyByAgeOrClaim
        BY DEF IInv, PaymentInv, Kept, PaidLostOnlyByAgeOrClaim
    <1> QED BY <1>1, Inductive, PTL

-----------------------------------------------------------------------------
(***************************************************************************)
(* TonPays.  What is said of the gateway's answers is weaker than in       *)
(* IrGateway, because rows are re-opened by stale answers: a final answer  *)
(* is the gateway's status for good, and a row is closed without a credit  *)
(* only after a rejection or a day.  A variable that IrGateway has too     *)
(* stands here for that of TonPays, later for that of Stars.               *)
(***************************************************************************)
CONSTANTS Invoices, Custom, Hooks, MAX_OPEN_INVOICES
VARIABLES issued, receipt

Ton == INSTANCE TonPays

\* A worker is a record, whatever the batch it copied.
Pcs == {"idle", "ask", "answered", "applying"}
WorkerOf(todos, copies, answers) == [pc : Pcs, todo : todos, copy : copies, answer : answers]
Shaped(f) == \E todos, copies, answers : f \in [Ton!Workers -> WorkerOf(todos, copies, answers)]

\* The type, but for sequences: what the poller selects is of no concern here.
TonRows ==
    /\ status \in [Invoices -> Ton!Statuses] /\ issued \in [Invoices -> BOOLEAN]
    /\ credits \in [Invoices -> Nat] /\ old \in [Invoices -> BOOLEAN]
    /\ remote \in [Invoices -> Ton!RemoteStatuses]
    /\ creation \in [Invoices -> {"none", "counted", "inserted", "ordered", "over"}]
    /\ Shaped(worker)

\* The gateway knows an invoice once it was ordered there, the row its number later.
NotOrdered ==
    \A i \in Invoices : creation[i] \in {"none", "counted", "inserted"} =>
        remote[i] = "none" /\ ~issued[i]

\* A final answer is the gateway's status for good.
AnswersLast ==
    \A w \in Ton!Workers :
        Ton!Applying(w) /\ Ton!Current(w) \in Invoices /\ Ton!Answer(w) \in {"completed", "rejected"} =>
            remote[Ton!Current(w)] = Ton!Answer(w)

\* A row is closed without a credit after a rejection or for its age.
ClosedFor(i) == old[i] \/ remote[i] = "rejected"
ClosedWithCause ==
    \A i \in Invoices : issued[i] /\ ~Ton!Open(i) /\ credits[i] = 0 => ClosedFor(i)

TonInv == TonRows /\ NotOrdered /\ AnswersLast /\ ClosedWithCause /\ Ton!NeverCreditedUnpaid

-----------------------------------------------------------------------------
\* The rows stay right whatever a step does to the workers, if the gateway and the age
\* of no invoice change.
RowsRight == NotOrdered /\ ClosedWithCause /\ Ton!NeverCreditedUnpaid

LEMMA WorkerMoves ==
    ASSUME TonInv, NEW w \in Ton!Workers, NEW todos, NEW copies, NEW answers,
           NEW new \in WorkerOf(todos, copies, answers),
           worker' = [worker EXCEPT ![w] = new],
           new.pc \in {"answered", "applying"} /\ Head(new.todo) \in Invoices
               /\ new.answer \in {"completed", "rejected"}
               => remote[Head(new.todo)] = new.answer,
           UNCHANGED remote
    PROVE  Shaped(worker') /\ AnswersLast'
    <1>1. PICK todos0, copies0, answers0 : worker \in [Ton!Workers -> WorkerOf(todos0, copies0, answers0)]
        BY DEF TonInv, TonRows, Shaped
    <1>2. worker' \in [Ton!Workers -> WorkerOf(todos \cup todos0, copies \cup copies0, answers \cup answers0)]
        <2> DEFINE W == WorkerOf(todos \cup todos0, copies \cup copies0, answers \cup answers0)
        <2>1. new \in W
            BY DEF WorkerOf
        <2>2. \A x \in Ton!Workers : worker[x] \in W
            BY <1>1 DEF WorkerOf
        <2> HIDE DEF W
        <2>3. worker' \in [Ton!Workers -> W]
            BY <1>1, <2>1, <2>2
        <2> QED BY <2>3 DEF W
    <1>3. Shaped(worker')
        BY <1>2 DEF Shaped
    <1>4. worker'[w] = new /\ \A x \in Ton!Workers : x # w => worker'[x] = worker[x]
        BY <1>1
    <1>5. AnswersLast'
        BY <1>4 DEF TonInv, AnswersLast, Ton!Applying, Ton!Current, Ton!Answer
    <1> QED BY <1>3, <1>5

\* The row of one invoice is written, with a status that its history explains.
LEMMA StatusStored ==
    ASSUME TonInv, NEW i, NEW s \in Ton!Statuses,
           i \in Invoices => s \in Ton!OPEN_STATUSES \/ ~issued[i] \/ ClosedFor(i),
           status' = [status EXCEPT ![i] = s],
           UNCHANGED <<issued, credits, old, remote, creation>>
    PROVE  status' \in [Invoices -> Ton!Statuses] /\ RowsRight'
    <1>1. /\ status' \in [Invoices -> Ton!Statuses]
          /\ \A x \in Invoices : x # i => status'[x] = status[x]
          /\ i \in Invoices => status'[i] = s
        BY DEF TonInv, TonRows
    <1>2. NotOrdered' /\ Ton!NeverCreditedUnpaid'
        BY DEF TonInv, NotOrdered, Ton!NeverCreditedUnpaid
    <1>3. ClosedWithCause'
        BY <1>1 DEF TonInv, ClosedWithCause, ClosedFor, Ton!Open
    <1> QED BY <1>1, <1>2, <1>3 DEF RowsRight

LEMMA RowsKept ==
    ASSUME TonInv, UNCHANGED <<status, issued, credits, old, remote, creation>>
    PROVE  RowsRight' /\ status' \in [Invoices -> Ton!Statuses]
    BY DEF TonInv, TonRows, RowsRight, NotOrdered, ClosedWithCause, ClosedFor, Ton!Open,
           Ton!NeverCreditedUnpaid

LEMMA TonWorkersKept ==
    ASSUME TonInv, UNCHANGED <<worker, remote>>
    PROVE  Shaped(worker') /\ AnswersLast'
    <1>1. Shaped(worker')
        BY DEF TonInv, TonRows
    <1>2. AnswersLast'
        BY DEF TonInv, AnswersLast, Ton!Applying, Ton!Current, Ton!Answer
    <1> QED BY <1>1, <1>2

LEMMA Together ==
    ASSUME status' \in [Invoices -> Ton!Statuses], issued' \in [Invoices -> BOOLEAN],
           credits' \in [Invoices -> Nat], old' \in [Invoices -> BOOLEAN],
           remote' \in [Invoices -> Ton!RemoteStatuses],
           creation' \in [Invoices -> {"none", "counted", "inserted", "ordered", "over"}],
           Shaped(worker'), AnswersLast', RowsRight'
    PROVE  TonInv'
    BY DEF TonInv, TonRows, RowsRight

-----------------------------------------------------------------------------
(* Creation.                                                               *)

LEMMA CreatingStep ==
    ASSUME TonInv, NEW i \in Invoices, Ton!Creating(i)
    PROVE  TonInv'
    <1> USE DEF TonInv, TonRows
    <1>1. UNCHANGED <<worker, old>>
        BY DEF Ton!Creating, Ton!CountOpen, Ton!InsertRow, Ton!GatewayIssues, Ton!GatewayRefuses,
           Ton!StoreInvoiceId, Ton!rowVars
    <1>2. CASE Ton!CountOpen(i)
        <2>1. /\ creation[i] = "none" /\ creation' = [creation EXCEPT ![i] = "counted"]
              /\ UNCHANGED <<status, issued, credits, remote>>
            BY <1>2 DEF Ton!CountOpen
        <2>2. RowsRight'
            BY <1>1, <2>1 DEF RowsRight, NotOrdered, ClosedWithCause, ClosedFor, Ton!Open,
               Ton!NeverCreditedUnpaid
        <2> QED BY <1>1, <2>1, <2>2, TonWorkersKept, Together
    <1>3. CASE Ton!InsertRow(i)
        <2>1. /\ creation[i] = "counted" /\ creation' = [creation EXCEPT ![i] = "inserted"]
              /\ status' = [status EXCEPT ![i] = "pending"]
              /\ UNCHANGED <<issued, credits, remote>>
            BY <1>3 DEF Ton!InsertRow, Ton!UpdateStatus
        <2>2. status' \in [Invoices -> Ton!Statuses]
            BY <2>1 DEF Ton!Statuses, Ton!OPEN_STATUSES
        <2>3. RowsRight'
            BY <1>1, <2>1
               DEF RowsRight, NotOrdered, ClosedWithCause, ClosedFor, Ton!Open, Ton!OPEN_STATUSES, Ton!NeverCreditedUnpaid
        <2> QED BY <1>1, <2>1, <2>2, <2>3, TonWorkersKept, Together
    <1>4. CASE Ton!GatewayIssues(i)
        <2>1. /\ creation[i] = "inserted" /\ creation' = [creation EXCEPT ![i] = "ordered"]
              /\ remote' = [remote EXCEPT ![i] = "pending"]
              /\ UNCHANGED <<status, issued, credits>>
            BY <1>4 DEF Ton!GatewayIssues, Ton!rowVars
        <2>2. remote' \in [Invoices -> Ton!RemoteStatuses] /\ remote[i] = "none" /\ ~issued[i]
              /\ \A x \in Invoices : x # i => remote'[x] = remote[x]
            BY <2>1 DEF Ton!RemoteStatuses, Ton!OPEN_STATUSES, NotOrdered
        <2>3. RowsRight'
            BY <1>1, <2>1, <2>2
               DEF RowsRight, NotOrdered, ClosedWithCause, ClosedFor, Ton!Open, Ton!NeverCreditedUnpaid
        <2>4. AnswersLast' /\ Shaped(worker')
            BY <1>1, <2>2 DEF AnswersLast, Ton!Applying, Ton!Current, Ton!Answer
        <2> QED BY <1>1, <2>1, <2>2, <2>3, <2>4, Together
    <1>5. CASE Ton!GatewayRefuses(i)
        <2>1. /\ creation[i] = "inserted" /\ creation' = [creation EXCEPT ![i] = "over"]
              /\ status' = [status EXCEPT ![i] = "absent"]
              /\ UNCHANGED <<issued, credits, remote>>
            BY <1>5 DEF Ton!GatewayRefuses
        <2>2. status' \in [Invoices -> Ton!Statuses]
            BY <2>1 DEF Ton!Statuses
        <2>3. RowsRight'
            BY <1>1, <2>1 DEF RowsRight, NotOrdered, ClosedWithCause, ClosedFor, Ton!Open,
               Ton!NeverCreditedUnpaid
        <2> QED BY <1>1, <2>1, <2>2, <2>3, TonWorkersKept, Together
    <1>6. CASE Ton!StoreInvoiceId(i)
        <2>1. /\ creation[i] = "ordered" /\ creation' = [creation EXCEPT ![i] = "over"]
              /\ status' = [status EXCEPT ![i] = "pending"]
              /\ issued' = [issued EXCEPT ![i] = TRUE]
              /\ UNCHANGED <<credits, remote>>
            BY <1>6 DEF Ton!StoreInvoiceId
        <2>2. status' \in [Invoices -> Ton!Statuses]
            BY <2>1 DEF Ton!Statuses, Ton!OPEN_STATUSES
        <2>3. RowsRight'
            BY <1>1, <2>1
               DEF RowsRight, NotOrdered, ClosedWithCause, ClosedFor, Ton!Open, Ton!OPEN_STATUSES, Ton!NeverCreditedUnpaid
        <2> QED BY <1>1, <2>1, <2>2, <2>3, TonWorkersKept, Together
    <1> QED BY <1>2, <1>3, <1>4, <1>5, <1>6 DEF Ton!Creating

-----------------------------------------------------------------------------
(* A refresh.                                                              *)

LEMMA StartStep ==
    ASSUME TonInv, NEW w \in Ton!Workers, NEW batch, Ton!Start(w, batch),
           UNCHANGED <<status, issued, credits, old, remote, creation>>
    PROVE  TonInv'
    <1> DEFINE new == [pc |-> "ask", todo |-> batch, answer |-> "none",
                       copy |-> [i \in Invoices |->
                                   IF Ton!Contains(batch, i) THEN status[i] ELSE "absent"]]
               copies == {new.copy}
    <1>1. /\ new \in WorkerOf({batch}, copies, {"none"})
          /\ new.pc = "ask" /\ worker' = [worker EXCEPT ![w] = new]
        BY DEF Ton!Start, WorkerOf, Pcs
    <1> HIDE DEF new, copies
    <1> QED BY <1>1, WorkerMoves, RowsKept, Together DEF TonInv, TonRows

LEMMA ReceiveStep ==
    ASSUME TonInv, NEW w \in Ton!Workers, NEW answer, Ton!Receive(w, answer),
           answer \in {remote[Ton!Current(w)], "error"}
    PROVE  TonInv'
    <1> DEFINE new == [worker[w] EXCEPT !.pc = "answered", !.answer = answer]
    <1>1. /\ worker' = [worker EXCEPT ![w].pc = "answered", ![w].answer = answer]
          /\ UNCHANGED <<status, issued, credits, old, remote, creation>>
        BY DEF Ton!Receive, Ton!rowVars
    <1>2. PICK todos, copies, answers : worker \in [Ton!Workers -> WorkerOf(todos, copies, answers)]
        BY DEF TonInv, TonRows, Shaped
    <1>3. worker[w] \in WorkerOf(todos, copies, answers)
        BY <1>2
    <1>4. /\ new \in WorkerOf(todos, copies, {answer})
          /\ new.pc = "answered" /\ new.todo = worker[w].todo /\ new.answer = answer
        BY <1>3 DEF WorkerOf, Pcs
    <1>5. worker' = [worker EXCEPT ![w] = new]
        BY <1>1, <1>2
    <1> HIDE DEF new
    <1>6. new.answer \in {"completed", "rejected"} => remote[Head(new.todo)] = new.answer
        BY <1>4 DEF Ton!Current
    <1> QED BY <1>1, <1>4, <1>5, <1>6, WorkerMoves, RowsKept, Together DEF TonInv, TonRows

LEMMA StoreFinalAmountStep ==
    ASSUME TonInv, NEW w \in Ton!Workers, Ton!StoreFinalAmount(w)
    PROVE  TonInv'
    <1> DEFINE c == [worker[w].copy EXCEPT ![Ton!Current(w)] = status[Ton!Current(w)]]
               new == [worker[w] EXCEPT !.pc = "applying", !.copy = c]
    <1>1. /\ worker' = [worker EXCEPT ![w].pc = "applying",
                                      ![w].copy[Ton!Current(w)] = status[Ton!Current(w)]]
          /\ worker[w].pc = "answered"
          /\ UNCHANGED <<status, issued, credits, old, remote, creation>>
        BY DEF Ton!StoreFinalAmount, Ton!At
    <1>2. PICK todos, copies, answers : worker \in [Ton!Workers -> WorkerOf(todos, copies, answers)]
        BY DEF TonInv, TonRows, Shaped
    <1>3. worker[w] \in WorkerOf(todos, copies, answers)
        BY <1>2
    <1>4. worker' = [worker EXCEPT ![w] = new]
        BY <1>1, <1>2
    <1> HIDE DEF c
    <1>5. /\ new \in WorkerOf(todos, {c}, answers)
          /\ new.todo = worker[w].todo /\ new.answer = worker[w].answer
        BY <1>3 DEF WorkerOf, Pcs
    <1> HIDE DEF new
    <1>6. Head(new.todo) \in Invoices /\ new.answer \in {"completed", "rejected"}
          => remote[Head(new.todo)] = new.answer
        BY <1>1, <1>5 DEF TonInv, AnswersLast, Ton!Applying, Ton!Current, Ton!Answer
    <1> QED BY <1>1, <1>4, <1>5, <1>6, WorkerMoves, RowsKept, Together DEF TonInv, TonRows

\* A worker that returns applies no answer.
LEMMA ReturnStep ==
    ASSUME TonInv, NEW w \in Ton!Workers, Ton!Return(w)
    PROVE  Shaped(worker') /\ AnswersLast' /\ UNCHANGED <<old, remote, creation>>
    <1> DEFINE c == [worker[w].copy EXCEPT ![Ton!Current(w)] = "absent"]
               next == [worker[w] EXCEPT !.pc = "ask", !.todo = Tail(worker[w].todo),
                                         !.answer = "none", !.copy = c]
    <1>1. PICK todos, copies, answers : worker \in [Ton!Workers -> WorkerOf(todos, copies, answers)]
        BY DEF TonInv, TonRows, Shaped
    <1>2. worker[w] \in WorkerOf(todos, copies, answers) /\ UNCHANGED <<old, remote, creation>>
        BY <1>1 DEF Ton!Return
    <1>3. CASE Len(worker[w].todo) = 1
        <2>1. worker' = [worker EXCEPT ![w] = Ton!IdleWorker]
            BY <1>3 DEF Ton!Return
        <2>2. Ton!IdleWorker.pc = "idle" /\ Ton!IdleWorker \in WorkerOf({Ton!IdleWorker.todo}, {Ton!IdleWorker.copy}, {Ton!IdleWorker.answer})
            BY DEF Ton!IdleWorker, WorkerOf, Pcs
        <2> QED BY <1>2, <2>1, <2>2, WorkerMoves
    <1>4. CASE Len(worker[w].todo) # 1
        <2>1. worker' = [worker EXCEPT ![w] = next]
            BY <1>4 DEF Ton!Return
        <2> HIDE DEF c
        <2>2. next \in WorkerOf({Tail(worker[w].todo)}, {c}, {"none"}) /\ next.pc = "ask"
            BY <1>2 DEF WorkerOf, Pcs
        <2> HIDE DEF next
        <2> QED BY <1>2, <2>1, <2>2, WorkerMoves
    <1> QED BY <1>3, <1>4

LEMMA CreditStep ==
    ASSUME TonInv, NEW w \in Ton!Workers, Ton!Credit(w)
    PROVE  TonInv'
    <1> DEFINE i == Ton!Current(w)
    <1>1. Ton!Applying(w) /\ Ton!Answer(w) = "completed" /\ Ton!Return(w)
        BY DEF Ton!Credit
    <1>2. Shaped(worker') /\ AnswersLast' /\ UNCHANGED <<old, remote, creation>>
        BY <1>1, ReturnStep
    <1>3. CASE Ton!Open(i) /\ i \in Invoices
        <2>1. /\ status' = [status EXCEPT ![i] = "completed"]
              /\ credits' = [credits EXCEPT ![i] = @ + 1] /\ UNCHANGED issued
            BY <1>3 DEF Ton!Credit
        <2>2. /\ status' \in [Invoices -> Ton!Statuses] /\ credits' \in [Invoices -> Nat]
              /\ credits'[i] = credits[i] + 1 /\ credits[i] \in Nat
              /\ \A x \in Invoices : x # i => status'[x] = status[x] /\ credits'[x] = credits[x]
            BY <1>3, <2>1 DEF TonInv, TonRows, Ton!Statuses
        <2>3. remote[i] = "completed"
            BY <1>1, <1>3 DEF TonInv, AnswersLast
        <2>4. RowsRight'
            <3>1. NotOrdered'
                BY <1>2, <2>1 DEF TonInv, NotOrdered
            <3>2. ClosedWithCause'
                BY <1>2, <2>1, <2>2 DEF TonInv, ClosedWithCause, ClosedFor, Ton!Open
            <3>3. Ton!NeverCreditedUnpaid'
                BY <1>2, <2>2, <2>3 DEF TonInv, Ton!NeverCreditedUnpaid
            <3> QED BY <3>1, <3>2, <3>3 DEF RowsRight
        <2> QED BY <1>2, <2>1, <2>2, <2>4, Together DEF TonInv, TonRows
    <1>4. CASE ~(Ton!Open(i) /\ i \in Invoices)
        <2>1. UNCHANGED <<status, issued, credits>>
            <3>1. CASE Ton!Open(i)
                <4>1. /\ i \notin Invoices /\ status' = [status EXCEPT ![i] = "completed"]
                      /\ credits' = [credits EXCEPT ![i] = @ + 1] /\ UNCHANGED issued
                    BY <1>4, <3>1 DEF Ton!Credit
                <4> QED BY <4>1 DEF TonInv, TonRows
            <3>2. CASE ~Ton!Open(i)
                BY <3>2 DEF Ton!Credit, Ton!rowVars
            <3> QED BY <3>1, <3>2
        <2> QED BY <1>2, <2>1, RowsKept, Together DEF TonInv, TonRows
    <1> QED BY <1>3, <1>4

LEMMA WaitStep ==
    ASSUME TonInv, NEW w \in Ton!Workers, Ton!Wait(w) \/ Ton!RefreshFails(w)
    PROVE  TonInv'
    <1>1. Ton!Applying(w) /\ Ton!Return(w)
        BY DEF Ton!Wait, Ton!CloseAsReported, Ton!CloseOld, Ton!StoreStatus, Ton!Bump,
           Ton!RefreshFails
    <1>2. Shaped(worker') /\ AnswersLast' /\ UNCHANGED <<old, remote, creation>>
        BY <1>1, ReturnStep
    <1>3. CASE Ton!Bump(w) \/ Ton!RefreshFails(w)
        <2>1. UNCHANGED <<status, issued, credits>>
            BY <1>3 DEF Ton!Bump, Ton!RefreshFails, Ton!rowVars
        <2> QED BY <1>2, <2>1, RowsKept, Together DEF TonInv, TonRows
    <1>4. CASE Ton!CloseAsReported(w) \/ Ton!CloseOld(w) \/ Ton!StoreStatus(w)
        <2>1. PICK s \in Ton!Statuses :
                /\ status' = [status EXCEPT ![Ton!Current(w)] = s] /\ UNCHANGED <<issued, credits>>
                /\ Ton!Current(w) \in Invoices => s \in Ton!OPEN_STATUSES \/ ClosedFor(Ton!Current(w))
            <3>1. CASE Ton!CloseAsReported(w)
                <4>1. status' = [status EXCEPT ![Ton!Current(w)] = "rejected"] /\ UNCHANGED <<issued, credits>>
                    BY <3>1 DEF Ton!CloseAsReported, Ton!UpdateStatus
                <4>2. Ton!Current(w) \in Invoices => remote[Ton!Current(w)] = "rejected"
                    BY <1>1, <3>1 DEF Ton!CloseAsReported, TonInv, AnswersLast
                <4> QED BY <4>1, <4>2 DEF ClosedFor, Ton!Statuses
            <3>2. CASE Ton!CloseOld(w)
                BY <3>2 DEF Ton!CloseOld, Ton!UpdateStatus, ClosedFor, Ton!Statuses
            <3>3. CASE Ton!StoreStatus(w)
                <4>1. Ton!Answer(w) \in Ton!OPEN_STATUSES
                    BY <3>3 DEF Ton!StoreStatus, Ton!NothingFinal, Ton!Changed
                <4>2. status' = [status EXCEPT ![Ton!Current(w)] = Ton!Answer(w)] /\ UNCHANGED <<issued, credits>>
                    BY <3>3 DEF Ton!StoreStatus, Ton!UpdateStatus
                <4> QED BY <4>1, <4>2 DEF Ton!Statuses
            <3> QED BY <1>4, <3>1, <3>2, <3>3
        <2>2. status' \in [Invoices -> Ton!Statuses] /\ RowsRight'
            BY <1>2, <2>1, StatusStored
        <2> QED BY <1>2, <2>1, <2>2, Together DEF TonInv, TonRows
    <1> QED BY <1>3, <1>4 DEF Ton!Wait

-----------------------------------------------------------------------------
(* Receipts, the gateway and the clock.                                    *)

\* An invoice that is open at the gateway moves on there.
LEMMA RemoteMoves ==
    ASSUME TonInv, NEW i \in Invoices, remote[i] \in Ton!OPEN_STATUSES,
           NEW s \in {"processing", "completed", "rejected"},
           remote' = [remote EXCEPT ![i] = s],
           UNCHANGED <<status, issued, credits, old, creation, worker>>
    PROVE  TonInv'
    <1>1. /\ remote' \in [Invoices -> Ton!RemoteStatuses] /\ remote'[i] = s
          /\ remote[i] \notin {"none", "completed", "rejected"}
          /\ \A x \in Invoices : x # i => remote'[x] = remote[x]
        BY DEF TonInv, TonRows, Ton!RemoteStatuses, Ton!OPEN_STATUSES
    <1>2. NotOrdered' /\ ClosedWithCause' /\ Ton!NeverCreditedUnpaid'
        BY <1>1 DEF TonInv, NotOrdered, ClosedWithCause, ClosedFor, Ton!Open,
           Ton!NeverCreditedUnpaid
    <1>3. AnswersLast'
        BY <1>1 DEF TonInv, AnswersLast, Ton!Applying, Ton!Current, Ton!Answer
    <1>4. Shaped(worker')
        BY DEF TonInv, TonRows
    <1> QED BY <1>1, <1>2, <1>3, <1>4, Together DEF TonInv, TonRows, RowsRight

LEMMA OutsideStep ==
    ASSUME TonInv, NEW i \in Invoices,
           Ton!UploadReceipt(i) \/ Ton!StoreReceipt(i) \/ Ton!GatewayMoves(i) \/ Ton!Age(i) \/ Ton!CreationDies(i)
           \/ Ton!ReceiptDies(i)
    PROVE  TonInv'
    <1>1. CASE Ton!UploadReceipt(i) \/ Ton!GatewayMoves(i)
        <2>1. /\ remote[i] \in Ton!OPEN_STATUSES
              /\ \E s \in {"processing", "completed", "rejected"} : remote' = [remote EXCEPT ![i] = s]
              /\ UNCHANGED <<status, issued, credits, old, creation, worker>>
            BY <1>1 DEF Ton!UploadReceipt, Ton!GatewayMoves, Ton!rowVars
        <2> QED BY <2>1, RemoteMoves
    <1>2. CASE Ton!StoreReceipt(i)
        <2>1. /\ status' = [status EXCEPT ![i] = "processing"]
              /\ UNCHANGED <<issued, credits, old, remote, creation, worker>>
            BY <1>2 DEF Ton!StoreReceipt, Ton!UpdateStatus
        <2>2. "processing" \in Ton!Statuses /\ "processing" \in Ton!OPEN_STATUSES
            BY DEF Ton!Statuses, Ton!OPEN_STATUSES
        <2>3. status' \in [Invoices -> Ton!Statuses] /\ RowsRight'
            BY <2>1, <2>2, StatusStored
        <2> QED BY <2>1, <2>3, TonWorkersKept, Together DEF TonInv, TonRows
    <1>3. CASE Ton!Age(i)
        <2>1. /\ old' = [old EXCEPT ![i] = TRUE]
              /\ UNCHANGED <<status, issued, credits, remote, creation, worker>>
            BY <1>3 DEF Ton!Age, Ton!rowVars
        <2>2. old' \in [Invoices -> BOOLEAN] /\ \A x \in Invoices : old[x] => old'[x]
            BY <2>1 DEF TonInv, TonRows
        <2>3. RowsRight'
            BY <2>1, <2>2
               DEF TonInv, RowsRight, NotOrdered, ClosedWithCause, ClosedFor, Ton!Open, Ton!NeverCreditedUnpaid
        <2> QED BY <2>1, <2>2, <2>3, TonWorkersKept, Together DEF TonInv, TonRows
    <1>4. CASE Ton!CreationDies(i)
        <2>1. /\ creation' = [creation EXCEPT ![i] = "over"]
              /\ UNCHANGED <<status, issued, credits, old, remote, worker>>
            BY <1>4 DEF Ton!CreationDies, Ton!rowVars
        <2>2. creation' \in [Invoices -> {"none", "counted", "inserted", "ordered", "over"}]
              /\ \A x \in Invoices : creation'[x] \in {creation[x], "over"}
            BY <2>1 DEF TonInv, TonRows
        <2>3. RowsRight'
            BY <2>1, <2>2
               DEF TonInv, RowsRight, NotOrdered, ClosedWithCause, ClosedFor, Ton!Open, Ton!NeverCreditedUnpaid
        <2> QED BY <2>1, <2>2, <2>3, TonWorkersKept, Together DEF TonInv, TonRows
    <1>5. CASE Ton!ReceiptDies(i)
        <2>1. UNCHANGED <<status, issued, credits, old, remote, creation, worker>>
            BY <1>5 DEF Ton!ReceiptDies, Ton!rowVars
        <2> QED BY <2>1, RowsKept, TonWorkersKept, Together DEF TonInv, TonRows
    <1> QED BY <1>1, <1>2, <1>3, <1>4, <1>5

LEMMA TonStep ==
    ASSUME TonInv, [Ton!Next]_(Ton!vars)
    PROVE  TonInv'
    <1>1. ASSUME NEW i \in Invoices,
                 \/ Ton!Creating(i) \/ Ton!UploadReceipt(i) \/ Ton!StoreReceipt(i)
                 \/ Ton!GatewayMoves(i) \/ Ton!Age(i) \/ Ton!CreationDies(i) \/ Ton!ReceiptDies(i)
          PROVE  TonInv'
        BY <1>1, CreatingStep, OutsideStep
    <1>2. ASSUME NEW h \in Hooks, NEW i \in Invoices, Ton!Load(h, i)
          PROVE  TonInv'
        <2>1. Ton!Start(h, <<i>>) /\ UNCHANGED <<status, issued, credits, old, remote, creation>>
            BY <1>2 DEF Ton!Load, Ton!rowVars
        <2> QED BY <2>1, StartStep DEF Ton!Workers
    <1>3. ASSUME NEW w \in Ton!Workers, Ton!Refreshing(w)
          PROVE  TonInv'
        <2>1. CASE Ton!Ask(w)
            BY <2>1, ReceiveStep DEF Ton!Ask
        <2>2. CASE Ton!AskFails(w)
            BY <2>2, ReceiveStep DEF Ton!AskFails
        <2>3. CASE Ton!Apply(w)
            BY <2>3, CreditStep, WaitStep DEF Ton!Apply
        <2> QED BY <1>3, <2>1, <2>2, <2>3, StoreFinalAmountStep, WaitStep DEF Ton!Refreshing
    <1>4. CASE Ton!ListOpen
        <2>1. PICK batch : Ton!Start(Poller, batch)
            BY <1>4 DEF Ton!ListOpen
        <2>2. UNCHANGED <<status, issued, credits, old, remote, creation>>
            BY <1>4 DEF Ton!ListOpen, Ton!rowVars
        <2> QED BY <2>1, <2>2, StartStep DEF Ton!Workers
    <1>5. CASE UNCHANGED Ton!vars
        <2>1. UNCHANGED <<status, issued, credits, old, remote, creation, worker>>
            BY <1>5 DEF Ton!vars, Ton!rowVars
        <2> QED BY <2>1, RowsKept, TonWorkersKept, Together DEF TonInv, TonRows
    <1> QED BY <1>1, <1>2, <1>3, <1>4, <1>5 DEF Ton!Next

LEMMA TonInit ==
    ASSUME Ton!Init
    PROVE  TonInv
    <1>1. /\ status = [i \in Invoices |-> "absent"] /\ issued = [i \in Invoices |-> FALSE]
          /\ credits = [i \in Invoices |-> 0] /\ old = [i \in Invoices |-> FALSE]
          /\ remote = [i \in Invoices |-> "none"] /\ creation = [i \in Invoices |-> "none"]
          /\ worker = [w \in Ton!Workers |-> Ton!IdleWorker]
        BY DEF Ton!Init
    <1>2. TonRows
        <2>1. worker \in [Ton!Workers -> WorkerOf({Ton!IdleWorker.todo}, {Ton!IdleWorker.copy}, {Ton!IdleWorker.answer})]
            BY <1>1 DEF WorkerOf, Pcs, Ton!IdleWorker
        <2>2. Shaped(worker)
            BY <2>1 DEF Shaped
        <2> QED BY <1>1, <2>2 DEF TonRows, Ton!Statuses, Ton!RemoteStatuses
    <1>3. AnswersLast
        BY <1>1 DEF AnswersLast, Ton!Applying, Ton!IdleWorker
    <1> QED BY <1>1, <1>2, <1>3 DEF TonInv, NotOrdered, ClosedWithCause, Ton!NeverCreditedUnpaid

\* Whatever the poller, webhooks, check buttons and receipts do to one another's rows:
\* only what the gateway itself reports as paid is credited, and a paid invoice is
\* closed without a credit only when it is more than a day old (tonpays.py).
THEOREM TonPaysKeepFaith == Ton!Spec => [](Ton!NeverCreditedUnpaid /\ Ton!PaidLostOnlyByAge)
    <1>1. Ton!Init => TonInv
        BY TonInit
    <1>2. TonInv /\ [Ton!Next]_(Ton!vars) => TonInv'
        BY TonStep
    <1>3. TonInv => Ton!NeverCreditedUnpaid /\ Ton!PaidLostOnlyByAge
        BY DEF TonInv, ClosedWithCause, ClosedFor, Ton!PaidLostOnlyByAge
    <1> QED BY <1>1, <1>2, <1>3, PTL DEF Ton!Spec

-----------------------------------------------------------------------------
(***************************************************************************)
(* Stars.  What the job copied is old and what it wrote over stays         *)
(* expired, so that a refused charge has a reason that lasts.              *)
(***************************************************************************)
CONSTANT MAX_FAULTS
VARIABLES payment, job, hidden, faults

Star == INSTANCE Stars

StarsTypeOK ==
    /\ status \in [Invoices -> {"absent", "pending", "approved", "expired"}]
    /\ old \in [Invoices -> BOOLEAN]
    /\ credits \in [Invoices -> Nat]
    /\ payment \in [Payments ->
         [pc : {"none", "allowed", "charged", "told", "credited", "refused", "lost"},
          invoice : Invoices \cup {"none"}, late : BOOLEAN]]
    /\ job \in SUBSET Invoices /\ hidden \in SUBSET Invoices

\* A payment is of an invoice that was made, and what was late is old.
PaymentsKnown ==
    \A p \in Payments : payment[p].pc # "none" =>
        /\ payment[p].invoice \in Invoices
        /\ status[payment[p].invoice] # "absent"
        /\ payment[p].late => old[payment[p].invoice]

\* What the job copied is old, and what it wrote over stays expired.
JobKnown ==
    /\ \A i \in job : old[i] /\ status[i] # "absent"
    /\ \A i \in hidden : status[i] = "expired" /\ credits[i] = 1
    /\ \A i \in Invoices : status[i] = "expired" => old[i]

StarsInv == StarsTypeOK /\ PaymentsKnown /\ JobKnown /\ Star!StarsKeepFaith

\* Payments that are refused were so for a reason that lasts.
LEMMA ReasonsLast ==
    ASSUME StarsInv, UNCHANGED payment, credits' = credits,
           \A i \in Invoices : old[i] => old'[i]
    PROVE  Star!ChargedIsCredited'
    <1>1. ASSUME NEW p \in Payments, Star!At(p, "refused")
          PROVE  payment[p].invoice \in Invoices
        BY <1>1 DEF StarsInv, PaymentsKnown, Star!At
    <1> QED BY <1>1 DEF StarsInv, Star!StarsKeepFaith, Star!ChargedIsCredited, Star!At

LEMMA CreateStep ==
    ASSUME StarsInv, NEW i \in Invoices, Star!Create(i)
    PROVE  StarsInv'
    <1> USE DEF StarsInv, Star!Create
    <1>1. status' \in [Invoices -> {"absent", "pending", "approved", "expired"}]
          /\ status'[i] = "pending" /\ \A x \in Invoices : x # i => status'[x] = status[x]
        BY DEF StarsTypeOK
    <1>2. StarsTypeOK'
        BY <1>1 DEF StarsTypeOK
    <1>3. PaymentsKnown'
        BY <1>1 DEF PaymentsKnown
    <1>4. JobKnown'
        BY <1>1 DEF JobKnown, StarsTypeOK
    <1>5. Star!StatusTellsCredit'
        BY <1>1 DEF Star!StarsKeepFaith, Star!StatusTellsCredit
    <1>6. Star!ChargedIsCredited'
        BY ReasonsLast
    <1> QED BY <1>2, <1>3, <1>4, <1>5, <1>6 DEF Star!StarsKeepFaith

LEMMA AgeStep ==
    ASSUME StarsInv, NEW i \in Invoices, Star!Age(i)
    PROVE  StarsInv'
    <1> USE DEF StarsInv, Star!Age
    <1>1. old' \in [Invoices -> BOOLEAN] /\ \A x \in Invoices : old[x] => old'[x]
        BY DEF StarsTypeOK
    <1>2. StarsTypeOK'
        BY <1>1 DEF StarsTypeOK
    <1>3. PaymentsKnown'
        BY <1>1 DEF PaymentsKnown
    <1>4. JobKnown'
        BY <1>1 DEF JobKnown, StarsTypeOK
    <1>5. Star!StatusTellsCredit'
        BY DEF Star!StarsKeepFaith, Star!StatusTellsCredit
    <1>6. Star!ChargedIsCredited'
        BY <1>1, ReasonsLast
    <1> QED BY <1>2, <1>3, <1>4, <1>5, <1>6 DEF Star!StarsKeepFaith

\* A payment that is on its way changes nothing else.
LEMMA PaymentMoves ==
    ASSUME StarsInv, NEW p \in Payments,
           NEW new \in [pc : {"none", "allowed", "charged", "told", "credited", "refused", "lost"},
                        invoice : Invoices \cup {"none"}, late : BOOLEAN],
           payment' = [payment EXCEPT ![p] = new],
           new.pc # "refused",
           new.invoice \in Invoices, status[new.invoice] # "absent", new.late => old[new.invoice],
           UNCHANGED <<status, old, credits, job, hidden>>
    PROVE  StarsInv'
    <1> USE DEF StarsInv
    <1>1. /\ payment'[p] = new /\ \A x \in Payments : x # p => payment'[x] = payment[x]
          /\ StarsTypeOK'
        BY DEF StarsTypeOK
    <1>2. PaymentsKnown'
        BY <1>1 DEF PaymentsKnown
    <1>3. JobKnown' /\ Star!StatusTellsCredit'
        BY DEF JobKnown, Star!StarsKeepFaith, Star!StatusTellsCredit
    <1>4. Star!ChargedIsCredited'
        BY <1>1 DEF Star!StarsKeepFaith, Star!ChargedIsCredited, Star!At
    <1> QED BY <1>1, <1>2, <1>3, <1>4 DEF Star!StarsKeepFaith

LEMMA PrecheckoutStep ==
    ASSUME StarsInv, NEW p \in Payments, NEW i \in Invoices, Star!Precheckout(p, i)
    PROVE  StarsInv'
    <1> DEFINE new == [pc |-> "allowed", invoice |-> i, late |-> FALSE]
    <1>1. /\ payment' = [payment EXCEPT ![p] = new] /\ status[i] = "pending"
          /\ UNCHANGED <<status, old, credits, job, hidden>>
        BY DEF Star!Precheckout
    <1>2. /\ new \in [pc : {"none", "allowed", "charged", "told", "credited", "refused", "lost"},
                      invoice : Invoices \cup {"none"}, late : BOOLEAN]
          /\ new.pc = "allowed" /\ new.invoice = i /\ new.late = FALSE
        OBVIOUS
    <1> HIDE DEF new
    <1> QED BY <1>1, <1>2, PaymentMoves

LEMMA WayStep ==
    ASSUME StarsInv, NEW p \in Payments, Star!Charge(p) \/ Star!Deliver(p) \/ Star!HandlerFails(p)
    PROVE  StarsInv'
    <1>1. /\ payment[p] \in [pc : {"none", "allowed", "charged", "told", "credited", "refused", "lost"},
                             invoice : Invoices \cup {"none"}, late : BOOLEAN]
          /\ payment \in [Payments ->
                [pc : {"none", "allowed", "charged", "told", "credited", "refused", "lost"},
                 invoice : Invoices \cup {"none"}, late : BOOLEAN]]
          /\ old \in [Invoices -> BOOLEAN]
        BY DEF StarsInv, StarsTypeOK
    <1>2. payment[p].pc # "none" /\ UNCHANGED <<status, old, credits, job, hidden>>
        BY DEF Star!Charge, Star!Deliver, Star!HandlerFails, Star!At
    <1>3. /\ payment[p].invoice \in Invoices /\ status[payment[p].invoice] # "absent"
          /\ payment[p].late => old[payment[p].invoice]
        BY <1>2 DEF StarsInv, PaymentsKnown
    <1>4. CASE Star!Charge(p) \/ Star!HandlerFails(p)
        <2>1. PICK pc \in {"charged", "lost"} : payment' = [payment EXCEPT ![p].pc = pc]
            BY <1>4 DEF Star!Charge, Star!HandlerFails, Star!Goes
        <2> DEFINE new == [payment[p] EXCEPT !.pc = pc]
        <2>2. /\ new \in [pc : {"none", "allowed", "charged", "told", "credited", "refused", "lost"},
                          invoice : Invoices \cup {"none"}, late : BOOLEAN]
              /\ new.pc = pc /\ new.invoice = payment[p].invoice /\ new.late = payment[p].late
            BY <1>1
        <2>3. payment' = [payment EXCEPT ![p] = new]
            BY <1>1, <2>1
        <2> HIDE DEF new
        <2> QED BY <1>2, <1>3, <2>2, <2>3, PaymentMoves
    <1>5. CASE Star!Deliver(p)
        <2> DEFINE new == [payment[p] EXCEPT !.pc = "told", !.late = old[payment[p].invoice]]
        <2>1. payment' = [payment EXCEPT ![p].pc = "told", ![p].late = old[payment[p].invoice]]
            BY <1>5 DEF Star!Deliver
        <2>2. /\ new \in [pc : {"none", "allowed", "charged", "told", "credited", "refused", "lost"},
                          invoice : Invoices \cup {"none"}, late : BOOLEAN]
              /\ new.pc = "told" /\ new.invoice = payment[p].invoice
              /\ new.late = old[payment[p].invoice]
            BY <1>1, <1>3
        <2>3. payment' = [payment EXCEPT ![p] = new]
            BY <1>1, <2>1
        <2> HIDE DEF new
        <2> QED BY <1>2, <1>3, <2>2, <2>3, PaymentMoves
    <1> QED BY <1>4, <1>5

LEMMA ApproveStep ==
    ASSUME StarsInv, NEW p \in Payments, Star!Approve(p)
    PROVE  StarsInv'
    <1> DEFINE i == payment[p].invoice
               credit == status[i] = "pending" /\ ~payment[p].late
               pc == IF credit THEN "credited" ELSE "refused"
    <1>1. /\ payment[p].pc = "told"
          /\ status' = [status EXCEPT ![i] = IF @ # "pending" THEN @
                                             ELSE IF credit THEN "approved" ELSE "expired"]
          /\ credits' = [credits EXCEPT ![i] = @ + IF credit THEN 1 ELSE 0]
          /\ payment' = [payment EXCEPT ![p].pc = pc]
          /\ UNCHANGED <<old, job, hidden>>
        BY DEF Star!Approve, Star!At, Star!Goes
    <1>2. i \in Invoices /\ status[i] # "absent" /\ (payment[p].late => old[i])
        BY <1>1 DEF StarsInv, PaymentsKnown
    <1>3. /\ pc \in {"credited", "refused"} /\ (pc = "refused" <=> ~credit)
          /\ payment'[p].pc = pc
          /\ \A x \in Payments : /\ payment'[x].invoice = payment[x].invoice
                                 /\ payment'[x].late = payment[x].late
                                 /\ x # p => payment'[x] = payment[x]
          /\ payment' \in [Payments ->
                [pc : {"none", "allowed", "charged", "told", "credited", "refused", "lost"},
                 invoice : Invoices \cup {"none"}, late : BOOLEAN]]
        <2>1. pc \in {"credited", "refused"} /\ (pc = "refused" <=> ~credit)
            OBVIOUS
        <2> HIDE DEF pc
        <2> QED BY <1>1, <2>1 DEF StarsInv, StarsTypeOK
    <1>4. /\ \A x \in Invoices : x # i => status'[x] = status[x] /\ credits'[x] = credits[x]
          /\ credit => status'[i] = "approved" /\ credits'[i] = credits[i] + 1
          /\ ~credit => credits'[i] = credits[i]
          /\ ~credit /\ status[i] # "pending" => status'[i] = status[i]
          /\ ~credit /\ status[i] = "pending" => status'[i] = "expired" /\ payment[p].late
        <2>1. DOMAIN status = Invoices /\ DOMAIN credits = Invoices /\ credits[i] \in Nat
            BY <1>2 DEF StarsInv, StarsTypeOK
        <2> QED BY <1>1, <1>2, <2>1
    <1>5. /\ status' \in [Invoices -> {"absent", "pending", "approved", "expired"}]
          /\ credits' \in [Invoices -> Nat]
        <2>1. DOMAIN status' = Invoices /\ DOMAIN credits' = Invoices
              /\ status' = [x \in Invoices |-> status'[x]]
              /\ credits' = [x \in Invoices |-> credits'[x]]
            BY <1>1 DEF StarsInv, StarsTypeOK
        <2>2. \A x \in Invoices : /\ status'[x] \in {"absent", "pending", "approved", "expired"}
                                  /\ credits'[x] \in Nat
            BY <1>2, <1>4 DEF StarsInv, StarsTypeOK
        <2> QED BY <2>1, <2>2
    <1> HIDE DEF pc
    <1>6. StarsTypeOK'
        BY <1>1, <1>3, <1>5 DEF StarsInv, StarsTypeOK
    <1>7. PaymentsKnown'
        BY <1>1, <1>2, <1>3, <1>4 DEF StarsInv, PaymentsKnown
    <1>8. JobKnown'
        BY <1>1, <1>2, <1>4 DEF StarsInv, JobKnown, StarsTypeOK
    <1>9. Star!StatusTellsCredit'
        <2>1. credit => credits[i] = 0 /\ i \notin hidden
            BY <1>2 DEF StarsInv, StarsTypeOK, Star!StarsKeepFaith, Star!StatusTellsCredit, JobKnown
        <2> QED BY <1>1, <1>2, <1>4, <2>1 DEF StarsInv, Star!StarsKeepFaith,
                   Star!StatusTellsCredit, JobKnown
    <1>10. Star!ChargedIsCredited'
        <2>1. ~credit => credits'[i] = 1 \/ old'[i]
            <3>1. CASE status[i] = "pending"
                BY <1>1, <1>2, <1>4, <3>1
            <3>2. CASE status[i] = "expired"
                BY <1>1, <1>2, <3>2 DEF StarsInv, JobKnown
            <3>3. CASE status[i] = "approved"
                BY <1>2, <1>4, <3>3 DEF StarsInv, Star!StarsKeepFaith, Star!StatusTellsCredit,
                   JobKnown
            <3> QED BY <1>2, <3>1, <3>2, <3>3 DEF StarsInv, StarsTypeOK
        <2>2. ASSUME NEW x \in Payments, payment'[x].pc = "refused"
              PROVE  credits'[payment'[x].invoice] = 1 \/ old'[payment'[x].invoice]
            <3>1. CASE x = p
                BY <1>3, <2>1, <2>2, <3>1
            <3>2. CASE x # p
                <4>1. /\ payment[x].pc = "refused" /\ payment[x].invoice \in Invoices
                      /\ credits[payment[x].invoice] = 1 \/ old[payment[x].invoice]
                    BY <1>3, <2>2, <3>2
                       DEF StarsInv, PaymentsKnown, Star!StarsKeepFaith, Star!ChargedIsCredited, Star!At
                <4>2. credit => credits[i] = 0
                    BY <1>2 DEF StarsInv, StarsTypeOK, Star!StarsKeepFaith, Star!StatusTellsCredit,
                       JobKnown
                <4>3. credits[payment[x].invoice] = 1 => credits'[payment[x].invoice] = 1
                    BY <1>2, <1>4, <4>1, <4>2
                <4> QED BY <1>1, <1>3, <4>1, <4>3
            <3> QED BY <3>1, <3>2
        <2> QED BY <2>2 DEF Star!ChargedIsCredited, Star!At
    <1> QED BY <1>6, <1>7, <1>8, <1>9, <1>10 DEF StarsInv, Star!StarsKeepFaith

LEMMA JobStep ==
    ASSUME StarsInv, Star!JobLists \/ Star!JobWrites
    PROVE  StarsInv'
    <1> USE DEF StarsInv
    <1>1. CASE Star!JobLists
        <2>1. job' = {i \in Invoices : status[i] = "pending" /\ old[i]}
              /\ UNCHANGED <<status, old, credits, payment, hidden>>
            BY <1>1 DEF Star!JobLists
        <2>2. StarsTypeOK' /\ PaymentsKnown' /\ JobKnown'
            BY <2>1 DEF StarsTypeOK, PaymentsKnown, JobKnown
        <2> QED BY <2>1, <2>2 DEF Star!StarsKeepFaith, Star!StatusTellsCredit,
                   Star!ChargedIsCredited, Star!At
    <1>2. CASE Star!JobWrites
        <2>1. /\ status' = [i \in Invoices |-> IF i \in job THEN "expired" ELSE status[i]]
              /\ hidden' = hidden \cup {i \in job : status[i] = "approved"}
              /\ job' = {} /\ UNCHANGED <<old, credits, payment>>
            BY <1>2 DEF Star!JobWrites
        <2>2. StarsTypeOK'
            BY <2>1 DEF StarsTypeOK
        <2>3. PaymentsKnown'
            BY <2>1 DEF PaymentsKnown
        <2>4. Star!StatusTellsCredit'
            BY <2>1 DEF StarsTypeOK, Star!StarsKeepFaith, Star!StatusTellsCredit
        <2>5. JobKnown'
            BY <2>1 DEF StarsTypeOK, Star!StarsKeepFaith, Star!StatusTellsCredit, JobKnown
        <2>6. Star!ChargedIsCredited'
            BY <2>1, ReasonsLast
        <2> QED BY <2>2, <2>3, <2>4, <2>5, <2>6 DEF Star!StarsKeepFaith
    <1> QED BY <1>1, <1>2

\* However many people pay the link of an invoice and however the job's copies cross
\* their payments: an invoice is credited at most once, its status tells whether it was
\* unless the job wrote over it, and a charge is refused only where another one was
\* credited or the invoice had come of age (payment.py, stars.py).
THEOREM StarsKeepFaithAlways == Star!Spec => []Star!StarsKeepFaith
    <1>1. Star!Init => StarsInv
        BY DEF Star!Init, Star!NoPayment, StarsInv, StarsTypeOK, PaymentsKnown, JobKnown,
           Star!StarsKeepFaith,
               Star!StatusTellsCredit, Star!ChargedIsCredited, Star!At
    <1>2. StarsInv /\ [Star!Next]_(Star!vars) => StarsInv'
        <2> SUFFICES ASSUME StarsInv, [Star!Next]_(Star!vars) PROVE StarsInv'
            OBVIOUS
        <2>1. CASE UNCHANGED Star!vars
            BY <2>1 DEF Star!vars, StarsInv, StarsTypeOK, PaymentsKnown, JobKnown,
               Star!StarsKeepFaith,
                        Star!StatusTellsCredit, Star!ChargedIsCredited, Star!At
        <2>2. CASE Star!Next
            BY <2>2, CreateStep, AgeStep, PrecheckoutStep, WayStep, ApproveStep, JobStep
               DEF Star!Next
        <2> QED BY <2>1, <2>2
    <1>3. StarsInv => Star!StarsKeepFaith
        BY DEF StarsInv
    <1> QED BY <1>1, <1>2, <1>3, PTL DEF Star!Spec
=============================================================================
