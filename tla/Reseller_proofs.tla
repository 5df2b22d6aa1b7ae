---------------------------- MODULE Reseller_proofs ----------------------------
(***************************************************************************)
(* Proofs about reseller accounts: ResellerBilling first, for any number   *)
(* of requests, any price and any caps, with and without debt, then, as    *)
(* the instance Term, ResellerTerm.                                        *)
(***************************************************************************)
EXTENDS ResellerBilling, FiniteSetTheorems, TLAPS

JobSteps == {"idle", "listSuspended", "weigh", "activate", "revive", "list", "debit", "patch",
             "ledger", "meter", "charge", "cap", "capped", "suspend", "suspended"}
Ops == {"pause", "resume", "lock", "unlock", "cap", "forgive"}

\* The request ends without having written the row.
Ends(c) == CallFails(c) \/ StoreFails(c) \/ Resync(c)

AccountType == [mode : Modes, status : Statuses, last : Nat, carry : 0..(Unit - 1),
                billed : Nat, basis : Nat, cap : Nat, total : Nat]
AdminType == [enabled : BOOLEAN, used : Nat, counter : Nat]
JobType == [pc : JobSteps, now : Nat, last : Nat, carry : Nat, billed : Nat,
            moved : BOOLEAN, cap : Nat, used : Nat, counter : Nat]
CallType == [pc : {"idle", "panel", "store"}, op : Ops \cup {"resync"}, status : Statuses,
             value : Nat, to : Statuses, billed : Nat, used : Nat, counter : Nat]
MeterType == [consumed : Nat, charged : Nat, forgiven : Nat, rewound : Nat, paid : Nat]

TypeInv ==
    /\ account \in AccountType /\ admin \in AdminType
    /\ wallet \in Int /\ clock \in Nat /\ ledger \in Nat /\ faults \in Nat
    /\ job \in JobType /\ calls \in [Callers -> CallType] /\ meter \in MeterType
    /\ apart \in BOOLEAN /\ outdated \subseteq Callers \cup {"job"}

-----------------------------------------------------------------------------
(* Types.                                                                  *)

\* Prices are whole tomans, none of them negative.
LEMMA PricesAreNat ==
    /\ \A n \in Nat : UsageCharge(n) \in Nat
    /\ \A n \in Int : Max0(n) \in Nat /\ Max0(n) >= n /\ (n <= 0 => Max0(n) = 0)
    /\ \A used, billed \in Nat : UsageDelta(used, billed) \in Nat
    <1>1. ASSUME NEW n \in Nat PROVE UsageCharge(n) \in Nat
        <2>1. n * Rate \in Nat
            BY PricesAssumption
        <2>2. ASSUME NEW m \in Nat PROVE RoundHalfEven(m, Unit) \in Nat
            <3>1. m \div Unit \in Nat
                BY PricesAssumption
            <3> QED BY <3>1 DEF RoundHalfEven
        <2> QED BY <2>1, <2>2 DEF UsageCharge
    <1> QED BY <1>1 DEF Max0, UsageDelta

\* So are the minutes of a run, what is left over and what they cost.
LEMMA HourlyIsNat ==
    ASSUME TypeInv
    PROVE  /\ Elapsed \in Nat /\ HourlyExact \div Unit \in Nat
           /\ HourlyExact % Unit \in Nat /\ HourlyExact % Unit < Unit
           /\ Debited \in Nat
    <1>1. Elapsed \in Nat
        BY DEF TypeInv, JobType, Elapsed, Max0
    <1>2. HourlyExact \in Nat
        <2>1. Rate * Elapsed \in Nat
            BY <1>1, PricesAssumption
        <2> QED BY <2>1 DEF HourlyExact, TypeInv, JobType
    <1> QED BY <1>1, <1>2, PricesAssumption DEF Debited

\* What is owed is a number.
LEMMA UnbilledIsInt ==
    ASSUME NEW row, NEW adm, NEW t \in Int,
           row.last \in Int, row.billed \in Int, adm.used \in Int
    PROVE  Unbilled(row, adm, t) \in Int
    BY DEF Unbilled

LEMMA IdleTyped == IdleJob \in JobType /\ IdleCall \in CallType
    BY DEF IdleJob, IdleCall, JobType, CallType, JobSteps, Ops, Statuses

LEMMA InitTyped == Init => TypeInv
    <1> SUFFICES ASSUME Init PROVE TypeInv
        OBVIOUS
    <1>1. account \in AccountType
        BY PricesAssumption DEF Init, AccountType, Statuses
    <1>2. admin \in AdminType /\ meter \in MeterType
        BY DEF Init, AdminType, MeterType
    <1>3. job \in JobType /\ calls \in [Callers -> CallType]
        BY IdleTyped DEF Init
    <1>4. wallet \in Int
        BY DEF Init
    <1>5. /\ clock \in Nat /\ ledger \in Nat /\ faults \in Nat
          /\ apart \in BOOLEAN /\ outdated \subseteq Callers \cup {"job"}
        BY DEF Init
    <1> QED BY <1>1, <1>2, <1>3, <1>4, <1>5 DEF TypeInv

LEMMA MarksTyped ==
    ASSUME TypeInv, NEW w \in Callers \cup {"job"},
           MarkWrite(w) \/ LeaveApart(w) \/ MarkCopy(w) \/ UNCHANGED marks
    PROVE  apart' \in BOOLEAN /\ outdated' \subseteq Callers \cup {"job"}
    <1>1. InFlight \subseteq Callers \cup {"job"}
        BY DEF InFlight
    <1>2. CASE MarkWrite(w)
        <2>1. (w \in outdated) \in BOOLEAN
            OBVIOUS
        <2> QED BY <1>1, <1>2, <2>1 DEF MarkWrite
    <1>3. CASE LeaveApart(w)
        BY <1>1, <1>3 DEF LeaveApart
    <1>4. CASE MarkCopy(w) \/ UNCHANGED marks
        BY <1>4 DEF TypeInv, MarkCopy, marks
    <1> QED BY <1>2, <1>3, <1>4

LEMMA WriteTyped ==
    ASSUME TypeInv, NEW w \in Callers \cup {"job"},
           (\E s \in Statuses : WriteStatus(w, s)) \/ ResetBillingClock(w)
    PROVE  account' \in AccountType /\ apart' \in BOOLEAN /\ outdated' \subseteq Callers \cup {"job"}
    <1>1. account' \in AccountType
        BY DEF TypeInv, AccountType, WriteStatus, ResetBillingClock, Statuses
    <1> QED BY <1>1, MarksTyped DEF WriteStatus, ResetBillingClock

\* What the run does to its own record.
LEMMA JobRecordTyped ==
    ASSUME TypeInv, JobStep
    PROVE  job' \in JobType
    <1> USE DEF TypeInv
    <1>1. ASSUME NEW pc \in JobSteps, job' = [job EXCEPT !.pc = pc] PROVE job' \in JobType
        BY <1>1 DEF JobType
    <1>2. CASE JobStart \/ JobMeter
        BY <1>2 DEF JobStart, JobMeter, JobType, JobSteps, AdminType
    <1>3. ASSUME NEW pc \in JobSteps, job' = Copied(pc) PROVE job' \in JobType
        <2>1. /\ account.last \in Nat /\ account.carry \in Nat /\ account.billed \in Nat
              /\ account.cap \in Nat
            BY PricesAssumption DEF AccountType
        <2> QED BY <1>3, <2>1 DEF Copied, JobType
    <1>4. CASE JobListSuspended \/ JobList
        BY <1>1, <1>3, <1>4, IdleTyped DEF JobListSuspended, JobList, JobSteps
    <1>5. CASE JobWeigh \/ JobActivate \/ JobRevive \/ JobPatch \/ JobPatchFails
        BY <1>1, <1>5 DEF JobWeigh, JobActivate, JobSwitches, JobRevive, JobPatch, JobPatchFails,
                          JobSteps
    <1>6. CASE JobDebit \/ JobCharge \/ JobCap \/ JobSuspend
        BY <1>1, <1>6, IdleTyped DEF JobDebit, JobCharge, RecordUsageCharge, JobCap, JobSuspend,
                                     JobSwitches, JobSteps
    <1>7. CASE \/ JobWeighFails \/ JobLedger \/ JobLedgerFails \/ JobMeterFails \/ JobUnderCap
               \/ JobCapped \/ JobSuspended \/ JobStoreFails
        BY <1>1, <1>7, IdleTyped DEF JobWeighFails, JobLedger, JobLedgerFails, JobMeterFails,
                               JobUnderCap, JobCapped, JobSuspended, JobStoreFails, JobSwitchedOff,
                               JobSteps
    <1> QED BY <1>2, <1>4, <1>5, <1>6, <1>7 DEF JobStep

\* The row, the wallet, the ledger and the history.
LEMMA BilledTyped ==
    ASSUME TypeInv, NEW charge \in Nat, PatchBillingState(charge)
    PROVE  account' \in AccountType /\ meter' \in MeterType
    <1> DEFINE gain == Unbilled(Patched(charge), admin, clock) - Unbilled(account, admin, clock)
    <1>1. /\ job.last \in Nat /\ Elapsed \in Nat /\ HourlyExact % Unit \in 0..(Unit - 1)
        BY HourlyIsNat, PricesAssumption DEF TypeInv, JobType
    <1>2. Patched(charge) \in AccountType
        <2> DEFINE last == job.last + Elapsed
                   carry == HourlyExact % Unit
                   total == account.total + charge
        <2>1. last \in Nat /\ carry \in 0..(Unit - 1) /\ total \in Nat
            BY <1>1 DEF TypeInv, AccountType
        <2>2. Patched(charge) = [account EXCEPT !.last = last, !.carry = carry, !.total = total]
            BY DEF Patched, TypeInv, AccountType
        <2> HIDE DEF last, carry, total
        <2> QED BY <2>1, <2>2 DEF TypeInv, AccountType
    <1>3. gain \in Int
        BY <1>2, UnbilledIsInt DEF TypeInv, AccountType, AdminType
    <1> HIDE DEF gain
    <1>4. Max0(gain) \in Nat
        BY <1>3, PricesAreNat
    <1>5. meter' = [meter EXCEPT !.rewound = @ + Max0(gain)]
        BY DEF PatchBillingState, gain
    <1> QED BY <1>2, <1>4, <1>5 DEF PatchBillingState, TypeInv, MeterType

LEMMA ChargeTyped ==
    ASSUME TypeInv, RecordUsageCharge
    PROVE  /\ account' \in AccountType /\ meter' \in MeterType
           /\ wallet' \in Int /\ ledger' \in Nat
    <1> DEFINE delta == UsageDelta(job.used, job.billed)
               charge == UsageCharge(delta)
               row == [account EXCEPT !.billed = job.used, !.basis = job.counter,
                                      !.total = @ + charge]
               gain == delta + Unbilled(row, admin, clock) - Unbilled(account, admin, clock)
    <1>1. delta \in Nat
        BY PricesAreNat DEF TypeInv, JobType
    <1>2. charge \in Nat
        BY <1>1, PricesAreNat
    <1> HIDE DEF delta, charge
    <1>3. row \in AccountType
        <2> DEFINE total == account.total + charge
        <2>1. total \in Nat /\ job.used \in Nat /\ job.counter \in Nat
            BY <1>2 DEF TypeInv, AccountType, JobType
        <2>2. row = [account EXCEPT !.billed = job.used, !.basis = job.counter, !.total = total]
            BY DEF TypeInv, AccountType
        <2> HIDE DEF total, row
        <2> QED BY <2>1, <2>2 DEF TypeInv, AccountType
    <1> HIDE DEF row
    <1>4. gain \in Int
        <2>1. Unbilled(row, admin, clock) \in Int /\ Unbilled(account, admin, clock) \in Int
            BY <1>3, UnbilledIsInt DEF TypeInv, AccountType, AdminType
        <2> QED BY <1>1, <2>1
    <1> HIDE DEF gain
    <1>5. \/ UNCHANGED <<wallet, account, ledger, meter>>
          \/ /\ wallet' = wallet - charge /\ account' = row /\ ledger' = ledger + charge
             /\ meter' = [meter EXCEPT !.charged = @ + delta, !.paid = @ + charge,
                            !.rewound = @ + IF ~job.moved THEN 0 ELSE Max0(gain)]
        BY DEF RecordUsageCharge, delta, charge, row, gain
    <1>6. CASE UNCHANGED <<wallet, account, ledger, meter>>
        BY <1>6 DEF TypeInv
    <1>7. CASE ~ UNCHANGED <<wallet, account, ledger, meter>>
        <2>1. (IF ~job.moved THEN 0 ELSE Max0(gain)) \in Nat
            BY <1>4, PricesAreNat
        <2> DEFINE more == IF ~job.moved THEN 0 ELSE Max0(gain)
        <2> HIDE DEF more
        <2>2. /\ wallet' = wallet - charge /\ account' = row /\ ledger' = ledger + charge
              /\ meter' = [meter EXCEPT !.charged = @ + delta, !.paid = @ + charge,
                             !.rewound = @ + more]
            BY <1>5, <1>7 DEF more
        <2>3. more \in Nat
            BY <2>1 DEF more
        <2>4. meter' \in MeterType
            <3> DEFINE a == meter.charged + delta
                       b == meter.paid + charge
                       c == meter.rewound + more
            <3>1. a \in Nat /\ b \in Nat /\ c \in Nat
                BY <1>1, <1>2, <2>3 DEF TypeInv, MeterType
            <3>2. meter' = [meter EXCEPT !.charged = a, !.paid = b, !.rewound = c]
                BY <2>2 DEF TypeInv, MeterType
            <3> HIDE DEF a, b, c
            <3> QED BY <3>1, <3>2 DEF TypeInv, MeterType
        <2>5. wallet' \in Int /\ ledger' \in Nat
            BY <1>2, <2>2 DEF TypeInv
        <2> QED BY <1>3, <2>2, <2>4, <2>5
    <1> QED BY <1>6, <1>7

LEMMA JobTyped == TypeInv /\ JobStep => TypeInv'
    <1> SUFFICES ASSUME TypeInv, JobStep PROVE TypeInv'
        OBVIOUS
    <1>1. job' \in JobType
        BY JobRecordTyped
    <1>2. ASSUME UNCHANGED <<account, wallet, clock, ledger, calls, meter, faults>>,
                 admin' \in AdminType, MarkCopy("job") \/ UNCHANGED marks
          PROVE  TypeInv'
        BY <1>1, <1>2, MarksTyped DEF TypeInv
    <1>3. CASE JobStart \/ JobListSuspended \/ JobWeigh \/ JobWeighFails \/ JobList
               \/ JobMeter \/ JobMeterFails \/ JobUnderCap
        <2>1. admin' \in AdminType
            BY <1>3 DEF JobStart, JobListSuspended, JobWeigh, JobWeighFails, JobList, JobMeter,
                        JobMeterFails, JobUnderCap, TypeInv
        <2> QED BY <1>2, <1>3, <2>1
                DEF JobStart, JobListSuspended, JobWeigh, JobWeighFails, JobList, JobMeter,
                    JobMeterFails, JobUnderCap
    <1>4. CASE JobActivate \/ JobCap \/ JobSuspend
        <2>1. admin' \in AdminType
            BY <1>4 DEF JobActivate, JobCap, JobSuspend, JobSwitches, TypeInv, AdminType
        <2> QED BY <1>2, <1>4, <2>1 DEF JobActivate, JobCap, JobSuspend, JobSwitches
    <1>5. CASE JobRevive \/ JobCapped \/ JobSuspended
        <2>1. (\E s \in Statuses : WriteStatus("job", s)) \/ ResetBillingClock("job")
            BY <1>5 DEF JobRevive, JobCapped, JobSuspended, JobSwitchedOff, Statuses
        <2> QED BY <1>1, <1>5, <2>1, WriteTyped
                DEF JobRevive, JobCapped, JobSuspended, JobSwitchedOff, TypeInv
    <1>11. CASE JobStoreFails
        BY <1>1, <1>11, MarksTyped DEF JobStoreFails, TypeInv
    <1>6. CASE JobDebit
        <2> DEFINE charge == HourlyExact \div Unit
        <2>1. charge \in Nat /\ Elapsed \in Nat
            BY HourlyIsNat
        <2>2. CASE PatchBillingState(0) /\ UNCHANGED wallet
            BY <1>1, <1>6, <2>2, BilledTyped DEF JobDebit, TypeInv, marks
        <2>3. CASE UNCHANGED <<account, wallet, meter>>
            BY <1>1, <1>6, <2>3 DEF JobDebit, TypeInv, marks
        <2>4. CASE /\ UNCHANGED account /\ wallet' = wallet - charge
                   /\ meter' = [meter EXCEPT !.charged = @ + Elapsed, !.paid = @ + charge]
            <3> HIDE DEF charge
            <3>1. meter' \in MeterType
                <4> DEFINE a == meter.charged + Elapsed
                           b == meter.paid + charge
                <4>1. a \in Nat /\ b \in Nat
                    BY <2>1 DEF TypeInv, MeterType
                <4>2. meter' = [meter EXCEPT !.charged = a, !.paid = b]
                    BY <2>4
                <4> HIDE DEF a, b
                <4> QED BY <4>1, <4>2 DEF TypeInv, MeterType
            <3>2. wallet' \in Int
                BY <2>1, <2>4 DEF TypeInv
            <3> QED BY <1>1, <1>6, <2>4, <3>1, <3>2 DEF JobDebit, TypeInv, marks
        <2> QED BY <1>6, <2>2, <2>3, <2>4 DEF JobDebit
    <1>7. CASE JobPatch
        BY <1>1, <1>7, HourlyIsNat, BilledTyped DEF JobPatch, TypeInv, marks
    <1>8. CASE JobPatchFails
        BY <1>1, <1>8, HourlyIsNat DEF JobPatchFails, LosesDebit, TypeInv, MeterType, marks
    <1>9. CASE JobLedger \/ JobLedgerFails
        BY <1>1, <1>9, HourlyIsNat DEF JobLedger, JobLedgerFails, TypeInv, marks
    <1>10. CASE JobCharge
        BY <1>1, <1>10, ChargeTyped DEF JobCharge, TypeInv, marks
    <1> QED BY <1>3, <1>4, <1>5, <1>6, <1>7, <1>8, <1>9, <1>10, <1>11 DEF JobStep

LEMMA Ended ==
    ASSUME TypeInv, NEW c \in Callers, Ends(c)
    PROVE  /\ calls[c].pc # "idle" /\ calls' = [calls EXCEPT ![c] = IdleCall] /\ calls'[c] = IdleCall
           /\ UNCHANGED <<account, wallet, clock, ledger, job, meter, faults>>
           /\ admin'.used = admin.used /\ admin'.counter = admin.counter /\ admin' \in AdminType
           /\ MarkWrite(c) \/ LeaveApart(c) \/ UNCHANGED marks
    <1>1. /\ calls[c].pc # "idle" /\ calls' = [calls EXCEPT ![c] = IdleCall]
          /\ UNCHANGED <<account, wallet, clock, ledger, job, meter, faults>>
          /\ MarkWrite(c) \/ LeaveApart(c) \/ UNCHANGED marks
        BY DEF Ends, CallFails, StoreFails, Resync, marks
    <1>2. CASE UNCHANGED admin
        BY <1>1, <1>2 DEF TypeInv
    <1>3. CASE Resync(c)
        <2> DEFINE on == calls[c].status = "active"
        <2>1. admin' = [admin EXCEPT !.enabled = on] /\ on \in BOOLEAN
            BY <1>3 DEF Resync
        <2> HIDE DEF on
        <2>2. admin'.used = admin.used /\ admin'.counter = admin.counter /\ admin' \in AdminType
            BY <2>1 DEF TypeInv, AdminType
        <2> QED BY <1>1, <2>2 DEF TypeInv
    <1> QED BY <1>1, <1>2, <1>3 DEF Ends, CallFails, StoreFails, TypeInv

LEMMA CallTyped ==
    ASSUME TypeInv, NEW c \in Callers, Request(c) \/ Call(c) \/ Ends(c) \/ Store(c)
    PROVE  TypeInv'
    <1>1. calls[c] \in CallType
        BY DEF TypeInv
    <1>2. CASE Request(c)
        <2>1. PICK op \in Ops \cup {"resync"}, v \in Caps :
                calls' = [calls EXCEPT ![c] =
                  [@ EXCEPT !.pc = "panel", !.op = op, !.status = account.status,
                            !.value = v, !.billed = account.billed]]
            BY <1>2 DEF Request, Ops
        <2>2. [calls[c] EXCEPT !.pc = "panel", !.op = op, !.status = account.status,
                               !.value = v, !.billed = account.billed] \in CallType
            BY <1>1, PricesAssumption DEF TypeInv, CallType, AccountType
        <2> QED BY <1>2, <2>1, <2>2, MarksTyped DEF Request, TypeInv
    <1>3. CASE Call(c)
        <2>1. Target(calls[c]) \in Statuses
            BY <1>1 DEF Target, CapTarget, CallType, Ops, Statuses
        <2> DEFINE call == [calls[c] EXCEPT !.pc = "store", !.to = Target(calls[c]),
                                            !.used = admin.used, !.counter = admin.counter]
        <2>2. call \in CallType
            BY <1>1, <2>1 DEF TypeInv, CallType, AdminType
        <2>3. calls' = [calls EXCEPT ![c] = call] /\ admin' \in AdminType
            BY <1>3 DEF Call, TypeInv, AdminType
        <2> HIDE DEF call
        <2> QED BY <1>3, <2>2, <2>3 DEF Call, TypeInv, marks
    <1>4. CASE Ends(c)
        BY <1>4, Ended, IdleTyped, MarksTyped DEF TypeInv
    <1>5. CASE Store(c)
        <2> DEFINE call == calls[c]
        <2>1. calls' \in [Callers -> CallType] /\ UNCHANGED <<admin, wallet, clock, ledger, faults>>
            BY <1>5, IdleTyped DEF Store, TypeInv
        <2>2. call.op \in Ops /\ call.to \in Statuses /\ call.value \in Nat /\ call.used \in Nat
              /\ call.counter \in Nat
            BY <1>1, <1>5 DEF CallType, Store
        <2>3. CASE call.op \in {"pause", "lock", "resume", "unlock"}
            <3>1. WriteStatus(c, call.to) \/ ResetBillingClock(c)
                BY <1>5, <2>3 DEF Store
            <3>2. UNCHANGED <<job, meter>>
                BY <1>5, <2>3 DEF Store
            <3> QED BY <2>1, <2>2, <3>1, <3>2, WriteTyped DEF TypeInv
        <2>4. CASE call.op = "cap"
            <3>1. /\ account' = [account EXCEPT !.cap = call.value,
                       !.status = IF call.to # call.status THEN call.to ELSE @]
                  /\ MarkWrite(c) \/ UNCHANGED marks
                  /\ UNCHANGED <<job, meter>>
                BY <1>5, <2>4 DEF Store
            <3>2. account' \in AccountType
                BY <2>2, <3>1 DEF TypeInv, AccountType
            <3> QED BY <2>1, <3>1, <3>2, MarksTyped DEF TypeInv
        <2>5. CASE call.op = "forgive"
            <3> DEFINE row == [account EXCEPT !.billed = call.used, !.basis = call.counter]
                       gain == Unbilled(row, admin, clock) - Unbilled(account, admin, clock)
            <3>1. Forgive(call)
                BY <1>5, <2>5 DEF Store
            <3>2. row \in AccountType
                BY <2>2 DEF TypeInv, AccountType
            <3>3. gain \in Int
                <4> HIDE DEF row
                <4>1. Unbilled(row, admin, clock) \in Int /\ Unbilled(account, admin, clock) \in Int
                    BY <3>2, UnbilledIsInt DEF TypeInv, AccountType, AdminType
                <4> QED BY <4>1
            <3> HIDE DEF gain
            <3>4. Max0(gain) \in Nat /\ Max0(-gain) \in Nat
                BY <3>3, PricesAreNat
            <3>5. /\ account' = row /\ UNCHANGED marks
                  /\ meter' = [meter EXCEPT !.forgiven = @ + Max0(-gain), !.rewound = @ + Max0(gain)]
                  /\ job' = [job EXCEPT !.moved = job.pc \in {"meter", "charge"}]
                BY <3>1 DEF Forgive, gain
            <3>6. job' \in JobType /\ meter' \in MeterType
                <4>1. job' \in JobType
                    <5> DEFINE moved == job.pc \in {"meter", "charge"}
                    <5>1. moved \in BOOLEAN
                        OBVIOUS
                    <5>2. job' = [job EXCEPT !.moved = moved]
                        BY <3>5
                    <5> HIDE DEF moved
                    <5> QED BY <5>1, <5>2 DEF TypeInv, JobType
                <4>2. meter' \in MeterType
                    <5> DEFINE m == Max0(gain)
                               n == Max0(-gain)
                    <5> HIDE DEF m, n
                    <5>1. meter' = [meter EXCEPT !.forgiven = @ + n, !.rewound = @ + m]
                        BY <3>5 DEF m, n
                    <5>2. m \in Nat /\ n \in Nat
                        BY <3>4 DEF m, n
                    <5> DEFINE a == meter.forgiven + n
                               b == meter.rewound + m
                    <5>3. a \in Nat /\ b \in Nat
                        BY <5>2 DEF TypeInv, MeterType
                    <5>4. meter' = [meter EXCEPT !.forgiven = a, !.rewound = b]
                        BY <5>1
                    <5> HIDE DEF a, b
                    <5> QED BY <5>3, <5>4 DEF TypeInv, MeterType
                <4> QED BY <4>1, <4>2
            <3> HIDE DEF row
            <3> QED BY <2>1, <3>2, <3>5, <3>6 DEF TypeInv, marks
        <2> QED BY <2>2, <2>3, <2>4, <2>5 DEF Ops
    <1> QED BY <1>2, <1>3, <1>4, <1>5

LEMMA WorldTyped ==
    ASSUME TypeInv, Tick \/ Traffic \/ PanelReset \/ TopUp \/ Restart \/ UNCHANGED vars
    PROVE  TypeInv'
    <1>1. CASE Tick \/ TopUp
        BY <1>1 DEF Tick, TopUp, TypeInv, MeterType, marks
    <1>2. CASE Traffic \/ PanelReset
        <2>1. meter' \in MeterType
            BY <1>2 DEF Traffic, PanelReset, TypeInv, MeterType
        <2>2. admin' \in AdminType
            <3> DEFINE used == admin.used + 1
                       counter == admin.counter + 1
            <3>1. used \in Nat /\ counter \in Nat
                BY DEF TypeInv, AdminType
            <3>2. \/ admin' = [admin EXCEPT !.used = used]
                  \/ admin' = [admin EXCEPT !.used = 0, !.counter = counter]
                BY <1>2 DEF Traffic, PanelReset
            <3> HIDE DEF used, counter
            <3>3. CASE admin' = [admin EXCEPT !.used = used]
                BY <3>1, <3>3 DEF TypeInv, AdminType
            <3>4. CASE admin' = [admin EXCEPT !.used = 0, !.counter = counter]
                BY <3>1, <3>4 DEF TypeInv, AdminType
            <3> QED BY <3>2, <3>3, <3>4
        <2> QED BY <1>2, <2>1, <2>2 DEF Traffic, PanelReset, TypeInv, marks
    <1>3. CASE Restart
        <2>1. meter' \in MeterType
            BY <1>3, HourlyIsNat DEF Restart, LosesDebit, TypeInv, MeterType
        <2> QED BY <1>3, <2>1, IdleTyped DEF Restart, TypeInv
    <1>4. CASE UNCHANGED vars
        BY <1>4 DEF vars, TypeInv, marks
    <1> QED BY <1>1, <1>2, <1>3, <1>4

LEMMA NextTyped == TypeInv /\ [Next]_vars => TypeInv'
    BY JobTyped, CallTyped, WorldTyped DEF Next, Ends

\* The row, the panel admin, the run, the requests and the history keep their types.
THEOREM BillingTypeCorrect == Spec => []BillingTypeOK
    <1>1. TypeInv => BillingTypeOK
        BY PricesAssumption
           DEF TypeInv, AccountType, AdminType, JobType, CallType, MeterType, BillingTypeOK
    <1> QED BY InitTyped, NextTyped, <1>1, PTL DEF Spec

-----------------------------------------------------------------------------
\* What an account is billed by does not change, and the run and the requests work
\* on it accordingly.
ModesKept ==
    /\ job.pc \in {"debit", "patch", "ledger"} => account.mode = "hourly"
    /\ job.pc \in {"meter", "charge", "cap", "capped"} => account.mode = "usage"
    /\ \A c \in Callers :
         calls[c].pc # "idle" /\ calls[c].op \in {"cap", "forgive"} => account.mode = "usage"

\* From where to where each step takes the run.
LEMMA Positions ==
    ASSUME TypeInv
    PROVE  /\ JobStart => job.pc = "idle" /\ job'.pc = "listSuspended"
           /\ JobListSuspended => job.pc = "listSuspended" /\ job'.pc \in {"weigh", "list"}
           /\ JobWeigh => job.pc = "weigh" /\ job'.pc \in {"activate", "list"}
           /\ JobWeighFails => job.pc = "weigh" /\ job'.pc = "idle"
           /\ JobActivate => job.pc = "activate" /\ job'.pc \in {"revive", "list"}
           /\ JobRevive => job.pc = "revive" /\ job'.pc = "list"
           /\ JobList => job.pc = "list" /\ job'.pc \in {"idle", "debit", "meter"}
           /\ JobDebit => job.pc = "debit" /\ job'.pc \in {"idle", "patch", "suspend"}
           /\ JobPatch \/ JobPatchFails => job.pc = "patch" /\ job'.pc = "ledger"
           /\ JobLedger \/ JobLedgerFails => job.pc = "ledger" /\ job'.pc = "idle"
           /\ JobMeter => job.pc = "meter" /\ job'.pc = "charge"
           /\ JobMeterFails => job.pc = "meter" /\ job'.pc = "idle"
           /\ JobCharge => job.pc = "charge" /\ job'.pc \in {"idle", "suspend", "cap"}
           /\ JobUnderCap => job.pc = "cap" /\ job'.pc = "idle"
           /\ JobCap => job.pc = "cap" /\ job'.pc \in {"idle", "capped"}
           /\ JobSuspend => job.pc = "suspend" /\ job'.pc \in {"idle", "suspended"}
           /\ JobCapped => job.pc = "capped" /\ job'.pc = "idle"
           /\ JobSuspended => job.pc = "suspended" /\ job'.pc = "idle"
           /\ JobStoreFails => /\ job.pc \in {"revive", "capped", "suspended"}
                               /\ job'.pc \in {"list", "idle"}
    <1>1. IdleJob.pc = "idle"
        BY DEF IdleJob
    <1>2. \A pc : [job EXCEPT !.pc = pc].pc = pc /\ Copied(pc).pc = pc
        BY DEF Copied, TypeInv, JobType
    <1>3. JobStart => job.pc = "idle" /\ job'.pc = "listSuspended"
        BY DEF JobStart, TypeInv, JobType
    <1>4. JobMeter => job.pc = "meter" /\ job'.pc = "charge"
        BY DEF JobMeter, TypeInv, JobType
    <1>5. JobListSuspended => job.pc = "listSuspended" /\ job'.pc \in {"weigh", "list"}
        BY <1>2 DEF JobListSuspended
    <1>6. JobWeigh => job.pc = "weigh" /\ job'.pc \in {"activate", "list"}
        BY <1>2 DEF JobWeigh
    <1>7. JobList => job.pc = "list" /\ job'.pc \in {"idle", "debit", "meter"}
        BY <1>1, <1>2 DEF JobList
    <1>8. JobDebit => job.pc = "debit" /\ job'.pc \in {"idle", "patch", "suspend"}
        BY <1>1, <1>2 DEF JobDebit
    <1>9. JobCharge => job.pc = "charge" /\ job'.pc \in {"idle", "suspend", "cap"}
        BY <1>1, <1>2 DEF JobCharge, RecordUsageCharge
    <1> QED BY <1>1, <1>2, <1>3, <1>4, <1>5, <1>6, <1>7, <1>8, <1>9
            DEF JobWeighFails, JobActivate, JobRevive, JobPatch, JobPatchFails, JobLedger,
                JobLedgerFails, JobMeterFails, JobUnderCap, JobCap, JobSuspend, JobSwitches,
                JobCapped, JobSuspended, JobStoreFails, JobSwitchedOff

LEMMA JobLeavesCalls == JobStep => UNCHANGED calls
    BY DEF JobStep, JobStart, JobListSuspended, JobWeigh, JobWeighFails, JobActivate,
           JobSwitches, JobRevive, JobList, JobDebit, JobPatch, JobPatchFails,
           JobLedger, JobLedgerFails, JobMeter, JobMeterFails, JobCharge, JobUnderCap,
           JobCap, JobSuspend, JobCapped, JobSuspended, JobStoreFails, JobSwitchedOff

LEMMA ModeStays ==
    ASSUME TypeInv, [Next]_vars
    PROVE  account'.mode = account.mode
    <1> USE DEF TypeInv, AccountType
    <1>1. ASSUME NEW w, (\E s : WriteStatus(w, s)) \/ ResetBillingClock(w)
          PROVE  account'.mode = account.mode
        BY <1>1 DEF WriteStatus, ResetBillingClock
    <1>2. CASE JobRevive \/ JobCapped \/ JobSuspended
        BY <1>1, <1>2 DEF JobRevive, JobCapped, JobSuspended, JobSwitchedOff
    <1>3. CASE JobDebit \/ JobPatch
        BY <1>3 DEF JobDebit, JobPatch, PatchBillingState, Patched
    <1>4. CASE JobCharge
        BY <1>4 DEF JobCharge, RecordUsageCharge
    <1>5. ASSUME NEW c \in Callers, Store(c) PROVE account'.mode = account.mode
        <2>1. calls[c].op \in Ops
            BY <1>5 DEF CallType, Store
        <2> QED BY <1>1, <1>5, <2>1 DEF Store, Forgive, Ops
    <1> QED BY <1>2, <1>3, <1>4, <1>5
            DEF Next, Ends, JobStep, vars, JobStart, JobListSuspended, JobWeigh, JobWeighFails,
                JobActivate, JobSwitches, JobList, JobPatchFails, JobLedger, JobLedgerFails,
                JobMeter, JobMeterFails, JobUnderCap, JobCap, JobSuspend, JobStoreFails, Request, Call,
                Ends, CallFails, StoreFails, Resync, Tick, Traffic, PanelReset, TopUp, Restart

LEMMA ModesStep ==
    ASSUME TypeInv, ModesKept, [Next]_vars
    PROVE  ModesKept'
    <1> USE DEF ModesKept
    <1>1. account'.mode = account.mode /\ account.mode \in {"hourly", "usage"}
        BY ModeStays, PricesAssumption DEF TypeInv, AccountType
    <1>2. CASE JobList
        <2>1. /\ account.mode = "hourly" => job'.pc \in {"idle", "debit"}
              /\ account.mode # "hourly" => job'.pc \in {"idle", "meter"}
            BY <1>2 DEF JobList, IdleJob, Copied, TypeInv, JobType
        <2> QED BY <1>1, <1>2, <2>1, JobLeavesCalls DEF JobStep
    <1>3. CASE JobStep /\ ~JobList
        BY <1>1, <1>3, JobLeavesCalls, Positions DEF JobStep
    <1>4. ASSUME NEW c \in Callers, Request(c) \/ Call(c) \/ Ends(c) \/ Store(c)
          PROVE  ModesKept'
        <2>1. job'.pc = job.pc
            <3>1. CASE Store(c)
                <4>1. calls[c].op \in Ops
                    BY <3>1 DEF TypeInv, CallType, Store
                <4> QED BY <3>1, <4>1 DEF Store, Forgive, TypeInv, JobType, Ops
            <3> QED BY <1>4, <3>1 DEF Request, Call, Ends, CallFails, StoreFails, Resync
        <2>2. \A x \in Callers \ {c} : calls'[x] = calls[x]
            BY <1>4 DEF Request, Call, Ends, CallFails, StoreFails, Resync, Store, TypeInv
        <2>3. /\ calls'[c].pc # "idle" /\ calls'[c].op \in {"cap", "forgive"}
              => account.mode = "usage"
            <3>1. CASE Request(c)
                <4>1. PICK op \in Ops \cup {"resync"}, v \in Caps :
                        /\ Allowed(op, account.status)
                        /\ calls' = [calls EXCEPT ![c] =
                             [@ EXCEPT !.pc = "panel", !.op = op, !.status = account.status,
                                       !.value = v, !.billed = account.billed]]
                    BY <3>1 DEF Request, Ops
                <4>2. calls'[c].op = op
                    BY <4>1 DEF TypeInv, CallType
                <4> QED BY <4>1, <4>2 DEF Allowed
            <3>2. CASE Call(c)
                BY <3>2 DEF Call, TypeInv, CallType
            <3>3. CASE Ends(c) \/ Store(c)
                <4>1. calls'[c] = IdleCall
                    BY <3>3 DEF Ends, CallFails, StoreFails, Resync, Store, TypeInv
                <4> QED BY <4>1 DEF IdleCall
            <3> QED BY <1>4, <3>1, <3>2, <3>3
        <2> QED BY <1>1, <2>1, <2>2, <2>3
    <1>5. CASE Restart
        BY <1>5 DEF Restart, IdleJob, IdleCall
    <1>6. CASE Tick \/ Traffic \/ PanelReset \/ TopUp \/ UNCHANGED vars
        BY <1>1, <1>6 DEF Tick, Traffic, PanelReset, TopUp, vars
    <1> QED BY <1>2, <1>3, <1>4, <1>5, <1>6 DEF Next, Ends

-----------------------------------------------------------------------------
(* The books.                                                              *)

BooksInv == TypeInv /\ ModesKept /\ BooksBalance

LEMMA BooksStep == BooksInv /\ [Next]_vars => BooksInv'
    <1> SUFFICES ASSUME BooksInv, [Next]_vars PROVE BooksBalance'
        BY NextTyped, ModesStep DEF BooksInv
    <1> USE DEF BooksInv
    <1>1. account'.mode = account.mode /\ account.mode \in {"hourly", "usage"}
        BY ModeStays, PricesAssumption DEF TypeInv, AccountType
    <1>2. /\ meter.paid \in Nat /\ ledger \in Nat /\ account.total \in Nat /\ faults \in Nat
          /\ HourlyExact \div Unit \in Nat
        BY HourlyIsNat DEF TypeInv, MeterType, AccountType
    <1> DEFINE Booking == job.pc \in {"patch", "ledger"}
    \* Nothing that the books are about changes.
    <1>3. ASSUME meter'.paid = meter.paid, ledger' = ledger, account'.total = account.total,
                 faults' = faults,
                 account.mode = "hourly" => /\ Booking' = Booking
                                            /\ Booking => HourlyExact' = HourlyExact
          PROVE  BooksBalance'
        BY <1>1, <1>3 DEF BooksBalance
    \* After a fault, only the books of traffic are kept.
    <1>4. ASSUME meter'.paid = meter.paid, ledger' = ledger, account'.total = account.total,
                 faults' = faults + 1
          PROVE  BooksBalance'
        BY <1>1, <1>2, <1>4 DEF BooksBalance
    <1>5. CASE JobDebit
        <2>1. account.mode = "hourly" /\ UNCHANGED <<ledger, faults>>
            BY <1>5 DEF JobDebit, ModesKept
        <2>2. CASE job'.pc # "patch"
            <3>1. meter'.paid = meter.paid /\ job'.pc \in {"idle", "suspend"}
                BY <1>5, <2>2 DEF JobDebit, PatchBillingState, IdleJob, TypeInv, JobType, MeterType
            <3> QED BY <1>1, <1>2, <1>5, <2>1, <3>1 DEF JobDebit, BooksBalance
        <2>3. CASE job'.pc = "patch"
            <3>1. /\ job' = [job EXCEPT !.pc = "patch"]
                  /\ meter'.paid = meter.paid + (HourlyExact \div Unit)
                <4>1. /\ IdleJob.pc # "patch" /\ [job EXCEPT !.pc = "suspend"].pc # "patch"
                    BY DEF IdleJob, TypeInv, JobType
                <4>2. /\ job' = [job EXCEPT !.pc = "patch"]
                      /\ meter' = [meter EXCEPT !.charged = @ + Elapsed,
                                                !.paid = @ + (HourlyExact \div Unit)]
                    BY <1>5, <2>3, <4>1 DEF JobDebit
                <4> QED BY <4>2 DEF TypeInv, MeterType
            <3>2. HourlyExact' = HourlyExact
                BY <3>1 DEF HourlyExact, Elapsed, TypeInv, JobType
            <3> QED BY <1>1, <1>2, <1>5, <2>1, <3>1, <3>2 DEF JobDebit, BooksBalance, TypeInv,
                       JobType
        <2> QED BY <2>2, <2>3
    <1>6. CASE JobPatch \/ JobPatchFails
        <2>1. /\ job' = [job EXCEPT !.pc = "ledger"] /\ UNCHANGED ledger /\ meter'.paid = meter.paid
              /\ account.mode = "hourly" /\ job.pc = "patch"
              /\ faults' = faults \/ faults' = faults + 1
            BY <1>6 DEF JobPatch, JobPatchFails, PatchBillingState, LosesDebit, ModesKept, TypeInv,
                        MeterType
        <2>2. HourlyExact' = HourlyExact /\ job'.pc = "ledger"
            BY <2>1 DEF HourlyExact, Elapsed, TypeInv, JobType
        <2> QED BY <1>1, <1>2, <2>1, <2>2 DEF BooksBalance
    <1>7. CASE JobLedger \/ JobLedgerFails
        <2>1. /\ job.pc = "ledger" /\ job'.pc = "idle" /\ account.mode = "hourly" /\ UNCHANGED meter
              /\ \/ ledger' = ledger + (HourlyExact \div Unit) /\ faults' = faults
                 \/ ledger' = ledger /\ faults' = faults + 1
            BY <1>7 DEF JobLedger, JobLedgerFails, IdleJob, ModesKept
        <2> QED BY <1>1, <1>2, <2>1 DEF BooksBalance
    <1>8. CASE JobCharge
        <2> DEFINE charge == UsageCharge(UsageDelta(job.used, job.billed))
        <2>1. account.mode = "usage" /\ charge \in Nat
            BY <1>8, PricesAreNat DEF JobCharge, ModesKept, TypeInv, JobType
        <2>2. \/ UNCHANGED <<account, ledger, meter>>
              \/ /\ meter'.paid = meter.paid + charge /\ ledger' = ledger + charge
                 /\ account'.total = account.total + charge
            BY <1>8 DEF JobCharge, RecordUsageCharge, TypeInv, MeterType, AccountType
        <2> HIDE DEF charge
        <2> QED BY <1>1, <1>2, <2>1, <2>2 DEF BooksBalance
    <1>9. CASE \/ JobStart \/ JobListSuspended \/ JobWeigh \/ JobWeighFails \/ JobActivate
               \/ JobList \/ JobMeter \/ JobMeterFails \/ JobUnderCap \/ JobCap \/ JobSuspend
               \/ JobStoreFails
        <2>1. UNCHANGED <<account, ledger, meter, faults>>
            BY <1>9 DEF JobStart, JobListSuspended, JobWeigh, JobWeighFails, JobActivate, JobList,
                        JobMeter, JobMeterFails, JobUnderCap, JobCap, JobSuspend, JobSwitches,
                        JobStoreFails
        <2>2. ~Booking /\ ~Booking'
            BY <1>9, Positions
        <2> QED BY <1>3, <2>1, <2>2
    <1>10. CASE JobRevive \/ JobCapped \/ JobSuspended
        <2>1. account'.total = account.total /\ UNCHANGED <<ledger, meter, faults>>
            BY <1>10 DEF JobRevive, JobCapped, JobSuspended, JobSwitchedOff, WriteStatus,
                         ResetBillingClock, TypeInv, AccountType
        <2>2. ~Booking /\ ~Booking'
            BY <1>10, Positions
        <2> QED BY <1>3, <2>1, <2>2
    <1>11. ASSUME NEW c \in Callers, Request(c) \/ Call(c) \/ Ends(c) \/ Store(c)
           PROVE  BooksBalance'
        <2>1. UNCHANGED <<ledger, faults>>
            BY <1>11 DEF Request, Call, Ends, CallFails, StoreFails, Resync, Store
        <2>2. CASE Request(c) \/ Call(c) \/ Ends(c)
            BY <1>3, <2>1, <2>2 DEF Request, Call, Ends, CallFails, StoreFails, Resync, HourlyExact, Elapsed
        <2>3. CASE Store(c)
            <3>1. calls[c].op \in Ops
                BY <2>3 DEF TypeInv, CallType, Store
            <3>2. /\ account'.total = account.total /\ meter'.paid = meter.paid
                  /\ job' = job \/ \E m : job' = [job EXCEPT !.moved = m]
                BY <2>3, <3>1 DEF Store, Forgive, WriteStatus, ResetBillingClock, Ops, TypeInv,
                                  AccountType, MeterType
            <3>3. /\ Booking' = Booking /\ job'.now = job.now /\ job'.last = job.last
                  /\ job'.carry = job.carry
                BY <3>2 DEF TypeInv, JobType
            <3> QED BY <1>3, <2>1, <3>2, <3>3 DEF HourlyExact, Elapsed
        <2> QED BY <1>11, <2>2, <2>3
    <1>12. CASE Tick \/ Traffic \/ PanelReset \/ TopUp
        <2>1. UNCHANGED <<account, ledger, faults, job>> /\ meter'.paid = meter.paid
            BY <1>12 DEF Tick, Traffic, PanelReset, TopUp, TypeInv, MeterType
        <2> QED BY <1>3, <2>1 DEF HourlyExact, Elapsed
    <1>13. CASE Restart
        BY <1>4, <1>13 DEF Restart, LosesDebit, TypeInv, MeterType
    <1>14. CASE UNCHANGED vars
        BY <1>3, <1>14 DEF vars, HourlyExact, Elapsed
    <1> QED BY <1>5, <1>6, <1>7, <1>8, <1>9, <1>10, <1>11, <1>12, <1>13, <1>14 DEF Next, Ends, JobStep

\* What left the wallet is what the ledger shows, and for traffic what the row's total
\* says too; for minutes unless the ledger row is being written, or a fault lost it.
THEOREM BooksBalanceAlways == Spec => []BooksBalance
    <1>1. Init => BooksInv
        <2> SUFFICES ASSUME Init PROVE BooksInv
            OBVIOUS
        <2> QED BY InitTyped DEF Init, BooksInv, ModesKept, BooksBalance, IdleJob, IdleCall
    <1>2. BooksInv => BooksBalance
        BY DEF BooksInv
    <1> QED BY <1>1, BooksStep, <1>2, PTL DEF Spec

-----------------------------------------------------------------------------
(* What a request is at.                                                   *)

\* What a request may be at, and will write, given the status it saw.
Intends(call) ==
    /\ call.op = "pause" => call.status \in {"active", "suspended"}
    /\ call.op = "lock" => call.status # "admin_paused"
    /\ call.op = "resume" => call.status = "paused"
    /\ call.op = "unlock" => call.status \in {"paused", "admin_paused"}

Writes(call) ==
    /\ call.op = "pause" => call.to = "paused"
    /\ call.op = "lock" => call.to = "admin_paused"
    /\ call.op \in {"resume", "unlock"} => call.to = "active"
    /\ call.op = "forgive" => call.to = call.status
    /\ call.op = "cap" =>
         call.to = call.status \/ {call.to, call.status} = {"active", "usage_capped"}

Purposes ==
    \A c \in Callers : /\ calls[c].pc # "idle" => Intends(calls[c])
                       /\ calls[c].pc = "store" => Writes(calls[c])

\* A request of c leaves the others alone.
LEMMA OneCall ==
    ASSUME TypeInv, NEW c \in Callers, Request(c) \/ Call(c) \/ Ends(c) \/ Store(c)
    PROVE  \A x \in Callers \ {c} : calls'[x] = calls[x]
    BY DEF Request, Call, Ends, CallFails, StoreFails, Resync, Store, TypeInv

LEMMA Requested ==
    ASSUME TypeInv, NEW c \in Callers, Request(c)
    PROVE  /\ calls[c].pc = "idle" /\ calls'[c].pc = "panel"
           /\ calls'[c].status = account.status /\ Allowed(calls'[c].op, account.status)
    <1>1. PICK op \in Ops \cup {"resync"}, v \in Caps :
            /\ Allowed(op, account.status)
            /\ calls' = [calls EXCEPT ![c] =
                 [@ EXCEPT !.pc = "panel", !.op = op, !.status = account.status,
                           !.value = v, !.billed = account.billed]]
        BY DEF Request, Ops
    <1>2. calls'[c].op = op /\ calls'[c].pc = "panel" /\ calls'[c].status = account.status
        BY <1>1 DEF TypeInv, CallType
    <1> QED BY <1>1, <1>2 DEF Request

LEMMA Called ==
    ASSUME TypeInv, NEW c \in Callers, Call(c)
    PROVE  /\ calls[c].pc = "panel" /\ calls'[c].pc = "store"
           /\ calls'[c].op = calls[c].op /\ calls'[c].status = calls[c].status
           /\ calls'[c].to = Target(calls[c])
           /\ calls'[c].used = admin.used /\ calls'[c].counter = admin.counter
    <1> DEFINE to == Target(calls[c])
    <1>1. calls' = [calls EXCEPT ![c] = [@ EXCEPT !.pc = "store", !.to = to,
                                                  !.used = admin.used, !.counter = admin.counter]]
        BY DEF Call
    <1>2. calls[c].pc = "panel"
        BY DEF Call
    <1> HIDE DEF to
    <1>3. /\ calls'[c].pc = "store" /\ calls'[c].op = calls[c].op
          /\ calls'[c].status = calls[c].status /\ calls'[c].to = to
          /\ calls'[c].used = admin.used /\ calls'[c].counter = admin.counter
        BY <1>1 DEF TypeInv, CallType
    <1> QED BY <1>2, <1>3 DEF to

LEMMA PurposesStep ==
    ASSUME TypeInv, Purposes, [Next]_vars
    PROVE  Purposes'
    <1> USE DEF Purposes
    <1>1. CASE JobStep
        BY <1>1, JobLeavesCalls
    <1>2. ASSUME NEW c \in Callers, Request(c) \/ Call(c) \/ Ends(c) \/ Store(c)
          PROVE  Purposes'
        <2>1. CASE Request(c)
            <3>1. Intends(calls'[c])
                BY <2>1, Requested DEF Allowed, Intends
            <3> QED BY <2>1, <3>1, OneCall, Requested
        <2>2. CASE Call(c)
            <3>1. calls[c].op \in Ops /\ Intends(calls[c])
                BY <2>2, Called DEF TypeInv, CallType, Call
            <3>2. Intends(calls'[c])
                BY <2>2, <3>1, Called DEF Intends
            <3>3. Writes(calls'[c])
                BY <2>2, <3>1, Called DEF Writes, Target, CapTarget, Ops
            <3> QED BY <2>2, <3>2, <3>3, OneCall
        <2>3. CASE Ends(c) \/ Store(c)
            <3>1. calls'[c] = IdleCall
                BY <2>3 DEF Ends, CallFails, StoreFails, Resync, Store, TypeInv
            <3> QED BY <2>3, <3>1, OneCall DEF IdleCall
        <2> QED BY <1>2, <2>1, <2>2, <2>3
    <1>3. CASE Restart
        BY <1>3 DEF Restart, IdleCall
    <1>4. CASE Tick \/ Traffic \/ PanelReset \/ TopUp \/ UNCHANGED vars
        BY <1>4 DEF Tick, Traffic, PanelReset, TopUp, vars
    <1> QED BY <1>1, <1>2, <1>3, <1>4 DEF Next, Ends

-----------------------------------------------------------------------------
(* Charging once.                                                          *)

TimesPassed ==
    /\ account.last <= clock /\ job.now <= clock
    /\ job.pc \in {"debit", "patch"} => job.last <= clock

\* A reading: the number used of a counter.
Earlier(counter, used) ==
    counter <= admin.counter /\ (counter = admin.counter => used <= admin.used)

\* What the row, the run and a request have read, the panel counted; and the run's
\* copy of the baseline is the row's, unless one was set since.
Readings ==
    /\ Earlier(account.basis, account.billed)
    /\ job.pc = "charge" => Earlier(job.counter, job.used)
    /\ \A c \in Callers : calls[c].pc = "store" => Earlier(calls[c].counter, calls[c].used)
    /\ job.pc \in {"meter", "charge"} /\ ~job.moved => job.billed = account.billed
    /\ job.pc = "charge" /\ ~job.moved =>
         /\ account.basis <= job.counter
         /\ account.basis = job.counter => account.billed <= job.used

Owed == Unbilled(account, admin, clock)
Slack == meter.consumed + meter.rewound + Debited - meter.charged - meter.forgiven - Owed

CopyStands == account.status = "active" /\ account.last = job.last

\* What the run is about to charge has been consumed and not been charged yet: its copy
\* still stands for the row, or the row has been brought forward past what it charges.
Covered ==
    /\ Slack >= 0
    /\ job.pc = "debit" /\ ~CopyStands => Slack >= Elapsed
    /\ job.pc = "charge" /\ ~job.moved /\ job.counter # admin.counter =>
         Slack >= UsageDelta(job.used, job.billed)

BilledInv == TypeInv /\ ModesKept /\ Purposes /\ TimesPassed /\ Readings /\ Covered

LEMMA Numbers ==
    ASSUME TypeInv
    PROVE  /\ account.last \in Nat /\ account.billed \in Nat /\ account.basis \in Nat
           /\ admin.used \in Nat /\ admin.counter \in Nat /\ clock \in Nat
           /\ job.now \in Nat /\ job.last \in Nat /\ job.billed \in Nat /\ job.used \in Nat
           /\ job.counter \in Nat /\ job.moved \in BOOLEAN
           /\ meter.consumed \in Nat /\ meter.charged \in Nat /\ meter.forgiven \in Nat
           /\ meter.rewound \in Nat
           /\ account.mode \in {"hourly", "usage"}
    BY PricesAssumption DEF TypeInv, AccountType, AdminType, JobType, MeterType

\* A step that writes none of the row, the clock and the history, and does not count traffic.
Unseen ==
    /\ UNCHANGED <<account, clock, meter>>
    /\ admin'.used = admin.used /\ admin'.counter = admin.counter

PlainStep ==
    \/ JobStart \/ JobListSuspended \/ JobWeigh \/ JobWeighFails \/ JobActivate
    \/ JobLedger \/ JobLedgerFails \/ JobMeterFails \/ JobUnderCap \/ JobCap \/ JobSuspend
    \/ JobStoreFails

LEMMA UnseenSteps ==
    ASSUME TypeInv,
           \/ PlainStep \/ JobList \/ JobMeter \/ TopUp
           \/ \E c \in Callers : Request(c) \/ Call(c) \/ Ends(c)
    PROVE  Unseen
    <1>1. CASE JobActivate \/ JobCap \/ JobSuspend
        BY <1>1 DEF JobActivate, JobCap, JobSuspend, JobSwitches, Unseen, TypeInv, AdminType
    <1>2. ASSUME NEW c \in Callers, Call(c) PROVE Unseen
        <2> DEFINE on == IF Switches(calls[c]) THEN Target(calls[c]) = "active" ELSE admin.enabled
        <2>1. UNCHANGED <<account, clock, meter>> /\ admin' = [admin EXCEPT !.enabled = on]
            BY <1>2 DEF Call
        <2> HIDE DEF on
        <2> QED BY <2>1 DEF Unseen, TypeInv, AdminType
    <1>3. CASE \/ JobStart \/ JobListSuspended \/ JobWeigh \/ JobWeighFails \/ JobLedger
               \/ JobLedgerFails \/ JobMeterFails \/ JobUnderCap \/ JobList \/ JobMeter
               \/ JobStoreFails
        BY <1>3 DEF JobStart, JobStoreFails, JobListSuspended, JobWeigh, JobWeighFails, JobLedger, JobLedgerFails,
                    JobMeterFails, JobUnderCap, JobList, JobMeter, Unseen
    <1>4. CASE TopUp \/ \E c \in Callers : Request(c) \/ Ends(c)
        BY <1>4, Ended DEF Request, TopUp, Unseen
    <1> QED BY <1>1, <1>2, <1>3, <1>4 DEF PlainStep

LEMMA UnseenOwes == Unseen => Owed' = Owed
    BY DEF Unseen, Owed, Unbilled

\* A status that is written by somebody, with the clock set or not.
LEMMA StatusWritten ==
    ASSUME TypeInv, NEW w, NEW s, WriteStatus(w, s) \/ (ResetBillingClock(w) /\ s = "active")
    PROVE  /\ account'.status = s /\ account'.last \in {account.last, clock}
           /\ account'.billed = account.billed /\ account'.basis = account.basis
           /\ account'.mode = account.mode
           /\ ResetBillingClock(w) => account'.last = clock
           /\ WriteStatus(w, s) => account'.last = account.last
    BY DEF WriteStatus, ResetBillingClock, TypeInv, AccountType

\* What the run notes down.
LEMMA JobRecords ==
    ASSUME TypeInv, JobStep
    PROVE  /\ job'.now \in {0, job.now, clock}
           /\ job'.last \in {0, job.last, account.last}
           /\ (JobDebit \/ JobPatch \/ JobPatchFails) /\ job'.pc # "idle" =>
                job'.now = job.now /\ job'.last = job.last
           /\ JobList /\ job'.pc = "debit" => account.status = "active" /\ job'.last = account.last
           /\ JobList /\ job'.pc = "meter" => job'.billed = account.billed /\ ~job'.moved
           /\ JobMeter => /\ job'.used = admin.used /\ job'.counter = admin.counter
                          /\ job'.billed = job.billed /\ job'.moved = job.moved
    <1>1. IdleJob.pc = "idle" /\ IdleJob.now = 0 /\ IdleJob.last = 0
        BY DEF IdleJob
    <1>2. \A pc : /\ [job EXCEPT !.pc = pc].now = job.now /\ [job EXCEPT !.pc = pc].last = job.last
                  /\ [job EXCEPT !.pc = pc].pc = pc
        BY DEF TypeInv, JobType
    <1>3. \A pc : /\ Copied(pc).now = job.now /\ Copied(pc).last = account.last
                  /\ Copied(pc).billed = account.billed /\ ~Copied(pc).moved /\ Copied(pc).pc = pc
        BY DEF Copied, TypeInv, JobType
    <1> DEFINE Noted == job'.now \in {0, job.now, clock} /\ job'.last \in {0, job.last, account.last}
    <1>4. ASSUME job' = IdleJob \/ \E pc : job' = [job EXCEPT !.pc = pc] PROVE Noted
        BY <1>1, <1>2, <1>4
    <1>5. JobStart => Noted
        BY DEF JobStart, TypeInv, JobType
    <1>6. JobMeter => /\ job'.used = admin.used /\ job'.counter = admin.counter
                      /\ job'.billed = job.billed /\ job'.moved = job.moved /\ Noted
        BY DEF JobMeter, TypeInv, JobType
    <1>7. JobList => /\ job'.pc = "debit" => account.status = "active" /\ job'.last = account.last
                     /\ job'.pc = "meter" => job'.billed = account.billed /\ ~job'.moved
                     /\ Noted
        BY <1>1, <1>3 DEF JobList
    <1>8. JobListSuspended => Noted
        BY <1>2, <1>3 DEF JobListSuspended
    <1>9. JobDebit \/ JobPatch \/ JobPatchFails =>
             /\ job'.pc # "idle" => job'.now = job.now /\ job'.last = job.last
             /\ Noted
        BY <1>1, <1>2 DEF JobDebit, JobPatch, JobPatchFails
    <1>10. JobWeigh \/ JobWeighFails \/ JobActivate \/ JobRevive \/ JobCharge =>
             job' = IdleJob \/ \E pc : job' = [job EXCEPT !.pc = pc]
        BY DEF JobWeigh, JobWeighFails, JobActivate, JobSwitches, JobRevive, JobCharge,
               RecordUsageCharge
    <1>11. JobLedger \/ JobLedgerFails \/ JobMeterFails \/ JobUnderCap \/ JobStoreFails => Noted
        BY <1>1, <1>2 DEF JobStoreFails, JobLedger, JobLedgerFails, JobMeterFails, JobUnderCap
    <1>12. JobCap \/ JobSuspend \/ JobCapped \/ JobSuspended =>
             job' = IdleJob \/ \E pc : job' = [job EXCEPT !.pc = pc]
        BY DEF JobCap, JobSuspend, JobSwitches, JobCapped, JobSuspended, JobSwitchedOff
    <1> HIDE DEF Noted
    <1>13. /\ JobWeigh \/ JobWeighFails \/ JobActivate \/ JobRevive \/ JobCharge => Noted
           /\ JobCap \/ JobSuspend \/ JobCapped \/ JobSuspended => Noted
        BY <1>4, <1>10, <1>12
    <1>14. Noted
        BY <1>5, <1>6, <1>7, <1>8, <1>9, <1>11, <1>13 DEF JobStep
    <1> QED BY <1>6, <1>7, <1>9, <1>14 DEF Noted

\* What is written when a run bills minutes.
LEMMA MinutesWritten ==
    ASSUME TypeInv, NEW charge, PatchBillingState(charge)
    PROVE  /\ account'.status = account.status /\ account'.mode = account.mode
           /\ account'.billed = account.billed /\ account'.basis = account.basis
           /\ account'.last = job.last + Elapsed
    BY DEF PatchBillingState, Patched, TypeInv, AccountType

LEMMA TimesStep ==
    ASSUME TypeInv, Purposes, TimesPassed, [Next]_vars
    PROVE  TimesPassed'
    <1> USE Numbers DEF TimesPassed
    <1>1. ASSUME JobStep, UNCHANGED clock, account'.last <= clock PROVE TimesPassed'
        <2>1. job'.now <= clock
            BY <1>1, JobRecords
        <2>2. job'.pc \in {"debit", "patch"} => job'.last <= clock
            BY <1>1, JobRecords, Positions DEF JobStep
        <2> QED BY <1>1, <2>1, <2>2
    <1>2. CASE PlainStep \/ JobList \/ JobMeter
        <2>1. JobStep
            BY <1>2 DEF JobStep, PlainStep
        <2> QED BY <1>1, <1>2, <2>1, UnseenSteps DEF Unseen
    <1>3. CASE JobRevive \/ JobCapped \/ JobSuspended
        <2>1. account'.last \in {account.last, clock} /\ UNCHANGED clock
            BY <1>3, StatusWritten DEF JobRevive, JobCapped, JobSuspended, JobSwitchedOff
        <2> QED BY <1>1, <1>3, <2>1 DEF JobStep
    <1>4. CASE JobDebit \/ JobPatch \/ JobPatchFails
        <2>1. \/ UNCHANGED account
              \/ (\E charge : PatchBillingState(charge)) /\ job.pc \in {"debit", "patch"}
            BY <1>4 DEF JobDebit, JobPatch, JobPatchFails
        <2>2. account'.last <= clock
            BY <2>1, MinutesWritten DEF Elapsed, Max0
        <2> QED BY <1>1, <1>4, <2>2 DEF JobStep, JobDebit, JobPatch, JobPatchFails
    <1>5. CASE JobCharge
        <2>1. account'.last = account.last
            BY <1>5 DEF JobCharge, RecordUsageCharge, TypeInv, AccountType
        <2> QED BY <1>1, <1>5, <2>1 DEF JobCharge, JobStep
    <1>6. ASSUME NEW c \in Callers, Request(c) \/ Call(c) \/ Ends(c) PROVE TimesPassed'
        <2>1. UNCHANGED job
            BY <1>6 DEF Request, Call, Ends, CallFails, StoreFails, Resync
        <2> QED BY <1>6, <2>1, UnseenSteps DEF Unseen
    <1>7. ASSUME NEW c \in Callers, Store(c) PROVE TimesPassed'
        <2>1. calls[c].op \in Ops
            BY <1>7 DEF TypeInv, CallType, Store
        <2>2. UNCHANGED clock /\ account'.last \in {account.last, clock}
            BY <1>7, <2>1, StatusWritten DEF Store, Forgive, Ops, TypeInv, AccountType
        <2>3. job'.pc = job.pc /\ job'.now = job.now /\ job'.last = job.last
            BY <1>7, <2>1 DEF Store, Forgive, Ops, TypeInv, JobType
        <2> QED BY <2>2, <2>3
    <1>8. CASE Tick \/ Traffic \/ PanelReset \/ TopUp \/ UNCHANGED vars
        BY <1>8 DEF Tick, Traffic, PanelReset, TopUp, vars
    <1>9. CASE Restart
        BY <1>9 DEF Restart, IdleJob
    <1> QED BY <1>2, <1>3, <1>4, <1>5, <1>6, <1>7, <1>8, <1>9 DEF Next, Ends, JobStep, PlainStep

\* Forgiving sets the baseline to what the request read and tells the run, in the history.
LEMMA Forgiven ==
    ASSUME TypeInv, NEW c \in Callers, Forgive(calls[c])
    PROVE  /\ account'.billed = calls[c].used /\ account'.basis = calls[c].counter
           /\ account'.last = account.last /\ account'.status = account.status
           /\ account'.mode = account.mode
           /\ job'.pc = job.pc /\ job'.now = job.now /\ job'.last = job.last
           /\ job'.used = job.used /\ job'.counter = job.counter
           /\ job'.pc \in {"meter", "charge"} => job'.moved
    <1> DEFINE moved == job.pc \in {"meter", "charge"}
    <1>1. job' = [job EXCEPT !.moved = moved]
        BY DEF Forgive
    <1>2. moved \in BOOLEAN
        OBVIOUS
    <1> HIDE DEF moved
    <1>3. /\ job'.pc = job.pc /\ job'.now = job.now /\ job'.last = job.last
          /\ job'.used = job.used /\ job'.counter = job.counter /\ job'.moved = moved
        BY <1>1, <1>2 DEF TypeInv, JobType
    <1> QED BY <1>3 DEF moved, Forgive, TypeInv, AccountType

\* Every other write of a request changes the status or the cap.
LEMMA Stored ==
    ASSUME TypeInv, NEW c \in Callers, Store(c)
    PROVE  /\ calls'[c] = IdleCall /\ UNCHANGED <<admin, wallet, clock, ledger, faults>>
           /\ \/ Forgive(calls[c]) /\ calls[c].op = "forgive"
              \/ /\ UNCHANGED <<job, meter>>
                 /\ account'.billed = account.billed /\ account'.basis = account.basis
                 /\ account'.mode = account.mode
                 /\ \/ /\ calls[c].op \in {"pause", "lock"} /\ WriteStatus(c, calls[c].to)
                       /\ account'.status = calls[c].to /\ account'.last = account.last
                    \/ /\ calls[c].op \in {"resume", "unlock"} /\ ResetBillingClock(c)
                       /\ account'.status = "active" /\ account'.last = clock
                    \/ /\ calls[c].op = "cap" /\ account'.last = account.last
                       /\ \/ calls[c].to = calls[c].status /\ UNCHANGED marks
                             /\ account'.status = account.status
                          \/ calls[c].to # calls[c].status /\ MarkWrite(c)
                             /\ account'.status = calls[c].to
    <1>1. calls[c].op \in Ops /\ calls'[c] = IdleCall
        BY DEF TypeInv, CallType, Store
    <1>2. UNCHANGED <<admin, wallet, clock, ledger, faults>>
        BY DEF Store
    <1>3. CASE calls[c].op \in {"pause", "lock"}
        BY <1>1, <1>2, <1>3, StatusWritten DEF Store
    <1>4. CASE calls[c].op \in {"resume", "unlock"}
        BY <1>1, <1>2, <1>4, StatusWritten DEF Store
    <1>5. CASE calls[c].op = "cap"
        BY <1>1, <1>2, <1>5 DEF Store, TypeInv, AccountType
    <1>6. CASE calls[c].op = "forgive"
        BY <1>1, <1>2, <1>6 DEF Store
    <1> QED BY <1>1, <1>3, <1>4, <1>5, <1>6 DEF Ops

LEMMA ReadingsStep ==
    ASSUME TypeInv, Readings, [Next]_vars
    PROVE  Readings'
    <1> USE Numbers DEF Readings, Earlier
    <1>1. ASSUME account'.billed = account.billed, account'.basis = account.basis,
                 admin'.used = admin.used, admin'.counter = admin.counter,
                 \A c \in Callers : calls'[c].pc = "store" =>
                    calls'[c] = calls[c] \/ (calls'[c].used = admin.used /\ calls'[c].counter = admin.counter),
                 job'.pc \notin {"meter", "charge"} \/ job' = job
          PROVE  Readings'
        BY <1>1
    <1>2. CASE PlainStep
        <2>1. JobStep /\ job'.pc \notin {"meter", "charge"}
            BY <1>2, Positions DEF JobStep, PlainStep
        <2> QED BY <1>1, <1>2, <2>1, UnseenSteps, JobLeavesCalls DEF Unseen
    <1>3. CASE JobList
        <2>1. JobStep /\ job'.pc \in {"idle", "debit", "meter"}
            BY <1>3, Positions DEF JobStep
        <2> QED BY <1>3, <2>1, UnseenSteps, JobLeavesCalls, JobRecords DEF Unseen
    <1>4. CASE JobMeter
        <2>1. JobStep /\ job.pc = "meter" /\ job'.pc = "charge"
            BY <1>4, Positions DEF JobStep
        <2> QED BY <1>4, <2>1, UnseenSteps, JobLeavesCalls, JobRecords DEF Unseen
    <1>5. CASE JobRevive \/ JobCapped \/ JobSuspended
        <2>1. JobStep /\ job'.pc \in {"list", "idle"} /\ UNCHANGED admin
            BY <1>5, Positions DEF JobStep, JobRevive, JobCapped, JobSuspended, JobSwitchedOff
        <2>2. account'.billed = account.billed /\ account'.basis = account.basis
            BY <1>5, StatusWritten DEF JobRevive, JobCapped, JobSuspended, JobSwitchedOff
        <2> QED BY <1>1, <2>1, <2>2, JobLeavesCalls
    <1>6. CASE JobDebit \/ JobPatch \/ JobPatchFails
        <2>1. JobStep /\ job'.pc \in {"idle", "patch", "suspend", "ledger"} /\ UNCHANGED admin
            BY <1>6, Positions DEF JobStep, JobDebit, JobPatch, JobPatchFails
        <2>2. UNCHANGED account \/ \E charge : PatchBillingState(charge)
            BY <1>6 DEF JobDebit, JobPatch, JobPatchFails
        <2>3. account'.billed = account.billed /\ account'.basis = account.basis
            BY <2>2, MinutesWritten
        <2> QED BY <1>1, <2>1, <2>3, JobLeavesCalls
    <1>7. CASE JobCharge
        <2>1. /\ JobStep /\ job.pc = "charge" /\ job'.pc \in {"idle", "suspend", "cap"}
              /\ UNCHANGED <<admin, calls>>
            BY <1>7, Positions DEF JobStep, JobCharge
        <2>2. \/ account'.billed = account.billed /\ account'.basis = account.basis
              \/ account'.billed = job.used /\ account'.basis = job.counter
            BY <1>7 DEF JobCharge, RecordUsageCharge, TypeInv, AccountType
        <2> QED BY <2>1, <2>2
    <1>8. ASSUME NEW c \in Callers, Request(c) \/ Call(c) \/ Ends(c) PROVE Readings'
        <2>1. UNCHANGED job
            BY <1>8 DEF Request, Call, Ends, CallFails, StoreFails, Resync
        <2>2. calls'[c].pc = "store" => calls'[c].used = admin.used /\ calls'[c].counter = admin.counter
            <3>1. Ends(c) => calls'[c] = IdleCall
                BY DEF Ends, CallFails, StoreFails, Resync, TypeInv
            <3> QED BY <1>8, <3>1, Requested, Called DEF IdleCall
        <2> QED BY <1>1, <1>8, <2>1, <2>2, OneCall, UnseenSteps DEF Unseen
    <1>9. ASSUME NEW c \in Callers, Store(c) PROVE Readings'
        <2>1. /\ calls'[c].pc = "idle" /\ UNCHANGED admin
              /\ \A x \in Callers \ {c} : calls'[x] = calls[x]
            BY <1>9, Stored, OneCall DEF IdleCall
        <2>2. CASE Forgive(calls[c])
            BY <1>9, <2>1, <2>2, Forgiven DEF Store
        <2>3. CASE ~Forgive(calls[c])
            BY <1>1, <1>9, <2>1, <2>3, Stored
        <2> QED BY <2>2, <2>3
    <1>10. CASE Traffic \/ PanelReset
        <2> DEFINE used == admin.used + 1
                   counter == admin.counter + 1
        <2>1. \/ admin' = [admin EXCEPT !.used = used]
              \/ admin' = [admin EXCEPT !.used = 0, !.counter = counter]
            BY <1>10 DEF Traffic, PanelReset
        <2> HIDE DEF used, counter
        <2>2. \/ admin'.used = used /\ admin'.counter = admin.counter
              \/ admin'.used = 0 /\ admin'.counter = counter
            BY <2>1 DEF TypeInv, AdminType
        <2>3. UNCHANGED <<account, job, calls>>
            BY <1>10 DEF Traffic, PanelReset
        <2>4. \A c \in Callers : calls[c].used \in Nat /\ calls[c].counter \in Nat
            BY DEF TypeInv, CallType
        <2> QED BY <2>2, <2>3, <2>4 DEF used, counter
    <1>11. CASE Tick \/ TopUp \/ UNCHANGED vars
        BY <1>11 DEF Tick, TopUp, vars
    <1>12. CASE Restart
        BY <1>12 DEF Restart, IdleJob, IdleCall
    <1> QED BY <1>2, <1>3, <1>4, <1>5, <1>6, <1>7, <1>8, <1>9, <1>10, <1>11, <1>12
            DEF Next, Ends, JobStep, PlainStep

\* What the run charges of minutes, and what it moves the clock by.
LEMMA Charging ==
    ASSUME TypeInv
    PROVE  /\ Debited = IF job.pc = "patch" /\ CopyStands THEN Elapsed ELSE 0
           /\ \A e \in Int : /\ Max0(e) \in Nat /\ Max0(e) >= e
                             /\ e >= 0 => Max0(e) = e
                             /\ e <= 0 => Max0(e) = 0
           /\ Elapsed = Max0(job.now - job.last) /\ Elapsed \in Nat
    BY Numbers DEF Debited, CopyStands, Elapsed, Max0

LEMMA OwedByMinutes ==
    ASSUME account.mode = "hourly"
    PROVE  Owed = IF account.status = "active" THEN clock - account.last ELSE 0
    BY DEF Owed, Unbilled

LEMMA OwedByTraffic ==
    ASSUME account.mode = "usage"
    PROVE  Owed = IF account.basis = admin.counter THEN admin.used - account.billed ELSE admin.used
    BY DEF Owed, Unbilled

\* Billing minutes never leaves less slack than there was.
LEMMA MinutesMetered ==
    ASSUME TypeInv, TypeInv', NEW charge, PatchBillingState(charge), UNCHANGED <<admin, clock>>
    PROVE  /\ meter'.consumed = meter.consumed /\ meter'.charged = meter.charged
           /\ meter'.forgiven = meter.forgiven
           /\ meter'.rewound >= meter.rewound /\ meter'.rewound - meter.rewound >= Owed' - Owed
    <1> DEFINE gain == Owed' - Owed
               more == Max0(gain)
    <1>1. Owed \in Int /\ Owed' \in Int
        <2>1. Owed \in Int
            BY Numbers, UnbilledIsInt DEF Owed
        <2>2. /\ account'.last \in Nat /\ account'.billed \in Nat /\ admin.used \in Nat
              /\ clock \in Nat
            BY Numbers DEF TypeInv, AccountType
        <2>3. Owed' \in Int
            BY <2>2, UnbilledIsInt DEF Owed
        <2> QED BY <2>1, <2>3
    <1>2. meter' = [meter EXCEPT !.rewound = @ + more]
        BY DEF PatchBillingState, Owed
    <1>3. more \in Nat /\ more >= gain
        BY <1>1, Charging
    <1> HIDE DEF more
    <1>4. /\ meter'.rewound = meter.rewound + more /\ meter'.consumed = meter.consumed
          /\ meter'.charged = meter.charged /\ meter'.forgiven = meter.forgiven
        BY <1>2 DEF TypeInv, MeterType
    <1>5. meter.rewound \in Nat /\ Owed' - Owed \in Int
        BY <1>1, Numbers
    <1> QED BY <1>3, <1>4, <1>5

\* A step of an account billed by the hour keeps the run covered.
LEMMA MinutesCovered ==
    ASSUME TypeInv, ModesKept, Purposes, TimesPassed, Covered, account.mode = "hourly",
           TypeInv', TimesPassed', ModesKept', [Next]_vars
    PROVE  Covered'
    <1> USE DEF TimesPassed
    <1> DEFINE new == account'
    <1>1. account'.mode = "hourly" /\ job'.pc # "charge" /\ job.pc # "charge"
        BY ModeStays DEF ModesKept
    <1>2. /\ Owed = IF account.status = "active" THEN clock - account.last ELSE 0
          /\ Owed' = IF account'.status = "active" THEN clock' - account'.last ELSE 0
        BY <1>1, OwedByMinutes DEF Owed, Unbilled
    <1>3. /\ account'.last \in Nat /\ clock' \in Nat /\ job'.now \in Nat /\ job'.last \in Nat
          /\ meter'.consumed \in Nat /\ meter'.charged \in Nat /\ meter'.forgiven \in Nat
          /\ meter'.rewound \in Nat
        BY DEF TypeInv, AccountType, JobType, MeterType
    <1>4. /\ Debited' = IF job'.pc = "patch" /\ CopyStands' THEN Elapsed' ELSE 0
          /\ Elapsed' = Max0(job'.now - job'.last) /\ Elapsed' \in Nat
        BY <1>3 DEF Debited, CopyStands, Elapsed, Max0
    <1>5. /\ Slack = meter.consumed + meter.rewound + Debited - meter.charged - meter.forgiven - Owed
          /\ Slack' = meter'.consumed + meter'.rewound + Debited'
                        - meter'.charged - meter'.forgiven - Owed'
        BY DEF Slack
    \* Nothing but the position of the run changes.
    <1>6. ASSUME UNCHANGED meter, Owed' = Owed, job.pc # "patch", job'.pc # "patch",
                 job'.pc = "debit" => CopyStands'
          PROVE  Covered'
        BY <1>1, <1>2, <1>4, <1>5, <1>6, Charging, Numbers DEF Covered
    \* A status is written, or the clock of an active account is set to now.
    <1>7. ASSUME UNCHANGED <<meter, clock>>, job'.now = job.now, job'.last = job.last,
                 job'.pc = job.pc \/ job'.pc \notin {"debit", "patch"},
                 account'.last \in {account.last, clock},
                 account'.status = "active" => account'.last = clock
          PROVE  Covered'
        <2>1. Owed' = 0 /\ Owed >= 0
            BY <1>2, <1>7, Numbers
        <2>2. Debited' = 0
            BY <1>4, <1>7, Numbers DEF CopyStands, Max0
        <2>3. CopyStands => Owed >= Elapsed
            BY <1>2, Numbers DEF CopyStands, Elapsed, Max0
        <2>4. Elapsed' = Elapsed
            BY <1>4, <1>7, Charging
        <2>5. Debited \in Int /\ Elapsed \in Int /\ Owed \in Int
            BY <1>2, Charging, Numbers
        <2> HIDE DEF TimesPassed
        <2>6. Slack' = Slack - Debited + Owed
            BY <1>5, <1>7, <2>1, <2>2, <2>5, Numbers
        <2>7. Slack \in Int /\ Slack >= 0
            BY <1>5, <2>5, Numbers DEF Covered
        <2>8. Debited = 0 \/ (CopyStands /\ Debited = Elapsed)
            BY Charging
        <2>9. Slack' >= 0
            BY <2>1, <2>3, <2>5, <2>6, <2>7, <2>8
        <2>10. job'.pc = "debit" => Slack' >= Elapsed'
            <3> SUFFICES ASSUME job'.pc = "debit" PROVE Slack' >= Elapsed'
                OBVIOUS
            <3>1. job.pc = "debit" /\ Debited = 0
                BY <1>7, Charging
            <3>2. ~CopyStands => Slack >= Elapsed
                BY <3>1 DEF Covered
            <3> QED BY <2>1, <2>3, <2>4, <2>5, <2>6, <2>7, <3>1, <3>2
        <2> QED BY <1>1, <2>9, <2>10 DEF Covered
    <1>8. CASE PlainStep \/ JobMeter \/ JobList
        <2>1. JobStep /\ Unseen
            BY <1>8, UnseenSteps DEF JobStep, PlainStep
        <2>2. job.pc # "patch" /\ job'.pc # "patch" /\ (job'.pc = "debit" => JobList)
            BY <1>8, Positions DEF PlainStep
        <2>3. job'.pc = "debit" => CopyStands'
            BY <2>1, <2>2, JobRecords DEF Unseen, CopyStands
        <2> QED BY <1>6, <2>1, <2>2, <2>3, UnseenOwes DEF Unseen
    <1>9. CASE JobRevive \/ JobCapped \/ JobSuspended
        <2>1. JobStep /\ UNCHANGED <<meter, clock>>
            BY <1>9 DEF JobStep, JobRevive, JobCapped, JobSuspended, JobSwitchedOff
        <2>2. /\ account'.last \in {account.last, clock}
              /\ account'.status = "active" => account'.last = clock
            BY <1>9, StatusWritten DEF JobRevive, JobCapped, JobSuspended, JobSwitchedOff
        <2>3. job.pc \notin {"debit", "patch"} /\ job'.pc \notin {"debit", "patch"}
            BY <1>9, Positions
        <2>4. Owed' = 0 /\ Owed >= 0 /\ Owed \in Int
            BY <1>2, <2>1, <2>2, Numbers
        <2>5. Debited = 0 /\ Debited' = 0
            BY <1>4, <2>3, Charging
        <2>6. Slack >= 0 /\ Slack' = Slack + Owed /\ Slack \in Int
            BY <1>5, <2>1, <2>4, <2>5, Numbers DEF Covered
        <2> QED BY <1>1, <2>3, <2>4, <2>6 DEF Covered
    <1>10. CASE JobDebit
        <2> DEFINE charge == HourlyExact \div Unit
        <2>1. job.pc = "debit" /\ UNCHANGED <<admin, clock>> /\ Debited = 0
            BY <1>10, Charging DEF JobDebit
        <2>2. CASE PatchBillingState(0) /\ job'.pc = "idle"
            <3>1. Debited' = 0 /\ Owed \in Int /\ Owed' \in Int
                BY <1>2, <1>3, <1>4, <2>2, Numbers
            <3> QED BY <1>1, <1>3, <1>5, <2>1, <2>2, <3>1, MinutesMetered, Numbers DEF Covered
        <2>3. CASE UNCHANGED <<account, meter>> /\ job'.pc \in {"idle", "suspend"}
            BY <1>1, <1>2, <1>4, <1>5, <2>1, <2>3, Numbers DEF Covered
        <2>4. CASE UNCHANGED account /\ job' = [job EXCEPT !.pc = "patch"]
                     /\ meter'.charged = meter.charged + Elapsed /\ meter'.consumed = meter.consumed
                     /\ meter'.forgiven = meter.forgiven /\ meter'.rewound = meter.rewound
            <3>1. /\ job'.pc = "patch" /\ job'.now = job.now /\ job'.last = job.last
                BY <2>4 DEF TypeInv, JobType
            <3>2. Debited' = IF CopyStands THEN Elapsed ELSE 0
                BY <1>4, <2>4, <3>1, Charging DEF CopyStands
            <3> QED BY <1>1, <1>2, <1>5, <2>1, <2>4, <3>1, <3>2, Charging, Numbers DEF Covered
        <2>5. \/ PatchBillingState(0) /\ job' = IdleJob
              \/ UNCHANGED <<account, meter>> /\ (job' = IdleJob \/ job' = [job EXCEPT !.pc = "suspend"])
              \/ /\ UNCHANGED account /\ job' = [job EXCEPT !.pc = "patch"]
                 /\ meter' = [meter EXCEPT !.charged = @ + Elapsed, !.paid = @ + charge]
            BY <1>10 DEF JobDebit
        <2>6. IdleJob.pc = "idle" /\ [job EXCEPT !.pc = "suspend"].pc = "suspend"
            BY DEF IdleJob, TypeInv, JobType
        <2>7. meter' = [meter EXCEPT !.charged = @ + Elapsed, !.paid = @ + charge] =>
                /\ meter'.charged = meter.charged + Elapsed /\ meter'.consumed = meter.consumed
                /\ meter'.forgiven = meter.forgiven /\ meter'.rewound = meter.rewound
            BY DEF TypeInv, MeterType
        <2> HIDE DEF charge
        <2> QED BY <2>2, <2>3, <2>4, <2>5, <2>6, <2>7
    <1>11. CASE JobPatch
        <2>1. /\ job.pc = "patch" /\ job'.pc = "ledger" /\ UNCHANGED <<admin, clock>>
              /\ \E charge : PatchBillingState(charge)
            BY <1>11, Positions DEF JobPatch
        <2>2. /\ meter'.consumed = meter.consumed /\ meter'.charged = meter.charged
              /\ meter'.forgiven = meter.forgiven /\ meter'.rewound >= meter.rewound
              /\ meter'.rewound - meter.rewound >= Owed' - Owed
              /\ account'.status = account.status /\ account'.last = job.last + Elapsed
            BY <2>1, MinutesMetered, MinutesWritten
        <2>3. Debited' = 0 /\ Owed \in Int /\ Owed' \in Int
            BY <1>2, <1>3, <1>4, <2>1, Numbers
        <2>4. CASE CopyStands
            <3>1. Debited = Elapsed /\ Owed' = Owed - Elapsed
                BY <1>2, <2>1, <2>2, <2>4, Charging, Numbers DEF CopyStands
            <3> QED BY <1>1, <1>3, <1>5, <2>1, <2>2, <2>3, <3>1, Charging, Numbers DEF Covered
        <2>5. CASE ~CopyStands
            <3>1. Debited = 0
                BY <2>5, Charging
            <3> QED BY <1>1, <1>3, <1>5, <2>1, <2>2, <2>3, <3>1, Charging, Numbers DEF Covered
        <2> QED BY <2>4, <2>5
    \* The run loses what it debited.
    <1>12. CASE JobPatchFails \/ Restart
        <2>1. /\ LosesDebit /\ UNCHANGED <<account, admin, clock>>
              /\ job'.pc \in {"ledger", "idle"}
            BY <1>12, Positions DEF JobPatchFails, Restart, IdleJob
        <2>2. Debited' = 0 /\ Owed' = Owed /\ Owed \in Int /\ Debited \in Int
            BY <1>2, <1>4, <2>1, Charging, Numbers
        <2>3. /\ meter'.rewound = meter.rewound + Debited /\ meter'.consumed = meter.consumed
              /\ meter'.charged = meter.charged /\ meter'.forgiven = meter.forgiven
            BY <2>1 DEF LosesDebit, TypeInv, MeterType
        <2> QED BY <1>1, <1>5, <2>1, <2>2, <2>3, Numbers DEF Covered
    <1>13. ASSUME NEW c \in Callers, Store(c) PROVE Covered'
        <2>1. calls[c].pc = "store" /\ Writes(calls[c]) /\ calls[c].op \notin {"cap", "forgive"}
            BY <1>13 DEF Store, Purposes, ModesKept
        <2>2. calls[c].op \in {"pause", "lock"} => calls[c].to # "active"
            BY <2>1 DEF Writes
        <2> QED BY <1>7, <1>13, <2>1, <2>2, Stored
    <1>14. CASE Tick
        <2>1. /\ clock' = clock + 1 /\ UNCHANGED <<account, job>>
              /\ meter'.consumed = meter.consumed + (IF account.status = "active" THEN 1 ELSE 0)
              /\ meter'.charged = meter.charged /\ meter'.forgiven = meter.forgiven
              /\ meter'.rewound = meter.rewound
            BY <1>14 DEF Tick, TypeInv, MeterType
        <2>2. Debited' = Debited /\ Elapsed' = Elapsed /\ CopyStands' = CopyStands
            BY <2>1 DEF Debited, Elapsed, CopyStands
        <2>3. Owed' = Owed + IF account.status = "active" THEN 1 ELSE 0
            BY <1>2, <2>1, Numbers
        <2>4. Slack' = Slack
            <3>1. Owed \in Int /\ Debited \in Int
                BY <1>2, Charging, Numbers
            <3> QED BY <1>5, <2>1, <2>2, <2>3, <3>1, Numbers
        <2> QED BY <1>1, <2>1, <2>2, <2>4 DEF Covered
    <1>15. CASE \/ TopUp \/ UNCHANGED vars
                \/ \E c \in Callers : Request(c) \/ Call(c) \/ Ends(c)
        <2>1. UNCHANGED <<job, meter>> /\ Unseen
            BY <1>15, UnseenSteps DEF TopUp, Request, Call, Ends, CallFails, StoreFails, Resync, vars, Unseen
        <2>2. /\ Debited' = Debited /\ Elapsed' = Elapsed /\ CopyStands' = CopyStands
              /\ Owed' = Owed
            BY <2>1, UnseenOwes DEF Unseen, Debited, Elapsed, CopyStands
        <2>3. Slack' = Slack
            BY <1>5, <2>1, <2>2
        <2> QED BY <1>1, <2>1, <2>2, <2>3 DEF Covered
    <1>16. ~JobCharge /\ ~Traffic /\ ~PanelReset
        BY DEF JobCharge, Traffic, PanelReset, ModesKept
    <1> QED BY <1>8, <1>9, <1>10, <1>11, <1>12, <1>13, <1>14, <1>15, <1>16
            DEF Next, Ends, JobStep, PlainStep

LEMMA Differences ==
    /\ \A a, b \in Int : b = a + (b - a)
    /\ \A a, b, s, d \in Int : s >= 0 /\ d + b <= a => s - d + a - b >= 0
    OBVIOUS

\* A step of an account billed by traffic keeps the run covered.
LEMMA TrafficCovered ==
    ASSUME TypeInv, ModesKept, Readings, Covered, account.mode = "usage",
           TypeInv', ModesKept', [Next]_vars
    PROVE  Covered'
    <1> DEFINE Delta == UsageDelta(job.used, job.billed)
    <1>1. /\ account'.mode = "usage" /\ job.pc \notin {"debit", "patch"}
          /\ job'.pc \notin {"debit", "patch"}
        BY ModeStays DEF ModesKept
    <1>2. /\ Owed = IF account.basis = admin.counter THEN admin.used - account.billed
                                                    ELSE admin.used
          /\ Owed' = IF account'.basis = admin'.counter THEN admin'.used - account'.billed
                                                       ELSE admin'.used
        BY <1>1, OwedByTraffic DEF Owed, Unbilled
    <1>3. /\ account'.billed \in Nat /\ account'.basis \in Nat
          /\ admin'.used \in Nat /\ admin'.counter \in Nat
        BY DEF TypeInv, AccountType, AdminType
    <1>4. Debited = 0 /\ Debited' = 0
        BY <1>1 DEF Debited
    <1>5. /\ Slack = meter.consumed + meter.rewound - meter.charged - meter.forgiven - Owed
          /\ Slack' = meter'.consumed + meter'.rewound - meter'.charged - meter'.forgiven - Owed'
          /\ Slack \in Int /\ Owed \in Int /\ Owed' \in Int
        <2>1. Owed \in Int /\ Owed' \in Int
            BY <1>2, <1>3, Numbers
        <2>2. /\ meter'.consumed \in Nat /\ meter'.charged \in Nat /\ meter'.forgiven \in Nat
              /\ meter'.rewound \in Nat
            BY DEF TypeInv, MeterType
        <2> QED BY <1>4, <2>1, <2>2, Numbers DEF Slack
    <1>6. Delta \in Nat /\ Slack >= 0 /\ Owed >= 0
        <2>1. Delta \in Nat
            BY PricesAreNat, Numbers
        <2> QED BY <1>2, <2>1, Numbers DEF Covered, Readings, Earlier
    <1> HIDE DEF Delta
    \* The run goes elsewhere, or looks up the counter as it stands now.
    <1>7. ASSUME Slack' >= 0,
                 job'.pc = "charge" => job'.moved \/ job'.counter = admin'.counter
          PROVE  Covered'
        BY <1>1, <1>7 DEF Covered
    <1>8. CASE PlainStep \/ JobList \/ JobMeter
        <2>1. JobStep /\ Unseen
            BY <1>8, UnseenSteps DEF JobStep, PlainStep
        <2>2. job'.pc = "charge" => JobMeter
            BY <1>8, Positions DEF PlainStep
        <2>3. Slack' = Slack
            BY <1>4, <1>5, <2>1, UnseenOwes DEF Unseen
        <2> QED BY <1>6, <1>7, <2>1, <2>2, <2>3, JobRecords DEF Unseen
    <1>9. CASE JobRevive \/ JobCapped \/ JobSuspended
        <2>1. job'.pc # "charge" /\ UNCHANGED <<admin, meter>>
            BY <1>9, Positions DEF JobRevive, JobCapped, JobSuspended, JobSwitchedOff
        <2>2. account'.billed = account.billed /\ account'.basis = account.basis
            BY <1>9, StatusWritten DEF JobRevive, JobCapped, JobSuspended, JobSwitchedOff
        <2> QED BY <1>2, <1>5, <1>6, <1>7, <2>1, <2>2
    <1>10. CASE JobCharge
        <2> DEFINE row == [account EXCEPT !.billed = job.used, !.basis = job.counter,
                                          !.total = @ + UsageCharge(Delta)]
                   gain == Delta + Unbilled(row, admin, clock) - Unbilled(account, admin, clock)
                   more == IF ~job.moved THEN 0 ELSE Max0(gain)
        <2>1. job.pc = "charge" /\ job'.pc # "charge" /\ UNCHANGED <<admin, clock>>
            BY <1>10, Positions DEF JobCharge
        <2>2. \/ UNCHANGED <<account, meter>>
              \/ /\ account' = row /\ account.billed = job.billed
                 /\ meter' = [meter EXCEPT !.charged = @ + Delta, !.paid = @ + UsageCharge(Delta),
                                           !.rewound = @ + more]
            BY <1>10 DEF JobCharge, RecordUsageCharge, Delta
        <2>3. CASE UNCHANGED <<account, meter>>
            BY <1>2, <1>5, <1>6, <1>7, <2>1, <2>3
        <2>4. CASE ~ UNCHANGED <<account, meter>>
            <3>1. gain = Delta + Owed' - Owed
                BY <2>1, <2>2, <2>4 DEF Owed
            <3>2. account'.billed = job.used /\ account'.basis = job.counter
                  /\ account.billed = job.billed
                BY <2>2, <2>4 DEF TypeInv, AccountType
            <3> HIDE DEF row, gain
            <3>3. gain \in Int
                BY <1>5, <1>6, <3>1
            <3>4. more \in Nat /\ (job.moved => more >= gain) /\ (~job.moved => more = 0)
                BY <3>3, Charging
            <3>5. meter' = [meter EXCEPT !.charged = @ + Delta, !.paid = @ + UsageCharge(Delta),
                                         !.rewound = @ + more]
                BY <2>2, <2>4
            <3> HIDE DEF more
            <3>6. /\ meter'.charged = meter.charged + Delta /\ meter'.rewound = meter.rewound + more
                  /\ meter'.consumed = meter.consumed /\ meter'.forgiven = meter.forgiven
                BY <3>5 DEF TypeInv, MeterType
            <3>7. Slack' = Slack + more - Delta + Owed - Owed'
                BY <1>5, <1>6, <3>4, <3>6, Numbers
            <3>8. CASE job.moved
                BY <1>5, <1>6, <1>7, <2>1, <3>1, <3>3, <3>4, <3>7, <3>8
            <3>9. CASE ~job.moved /\ job.counter = admin.counter
                <4>1. Owed' = admin.used - job.used
                    BY <1>2, <2>1, <3>2, <3>9
                <4>2. account.basis = job.counter => Delta = job.used - account.billed
                    BY <2>1, <3>2, <3>9, Numbers DEF Readings, Delta, UsageDelta
                <4>3. Delta <= job.used
                    BY Numbers DEF Delta, UsageDelta
                <4>4. Delta + Owed' <= Owed
                    BY <1>2, <1>6, <3>9, <4>1, <4>2, <4>3, Numbers
                <4>5. Slack' = Slack - Delta + Owed - Owed'
                    BY <1>5, <1>6, <3>4, <3>7, <3>9
                <4>6. Slack' >= 0
                    <5>1. Owed \in Int /\ Owed' \in Int /\ Slack \in Int /\ Delta \in Int
                        BY <1>5, <1>6
                    <5>2. Slack - Delta + Owed - Owed' >= 0
                        BY <1>6, <4>4, <5>1, Differences
                    <5> QED BY <4>5, <5>2
                <4> QED BY <1>7, <2>1, <4>6
            <3>10. CASE ~job.moved /\ job.counter # admin.counter
                <4>1. account.basis # admin.counter
                    BY <2>1, <3>10, Numbers DEF Readings, Earlier
                <4>2. Owed' = Owed
                    BY <1>2, <2>1, <3>2, <3>10, <4>1
                <4>3. Slack >= Delta
                    BY <2>1, <3>10 DEF Covered, Delta
                <4> QED BY <1>5, <1>6, <1>7, <2>1, <3>4, <3>7, <3>10, <4>2, <4>3
            <3> QED BY <3>8, <3>9, <3>10
        <2> QED BY <2>3, <2>4
    <1>11. ASSUME NEW c \in Callers, Store(c) PROVE Covered'
        <2>1. UNCHANGED <<admin, clock>>
            BY <1>11, Stored
        <2>2. CASE Forgive(calls[c])
            <3> DEFINE gain == Owed' - Owed
                       more == Max0(gain)
                       less == Max0(-gain)
            <3>1. meter' = [meter EXCEPT !.forgiven = @ + less, !.rewound = @ + more]
                BY <2>1, <2>2 DEF Forgive, Owed
            <3>2. gain \in Int
                BY <1>5
            <3> HIDE DEF gain
            <3>3. more \in Nat /\ less \in Nat /\ more - less = gain
                BY <3>2 DEF Max0
            <3> HIDE DEF more, less
            <3>4. /\ meter'.forgiven = meter.forgiven + less /\ meter'.rewound = meter.rewound + more
                  /\ meter'.charged = meter.charged /\ meter'.consumed = meter.consumed
                BY <3>1 DEF TypeInv, MeterType
            <3>5. Slack' = Slack
                <4>1. Owed' = Owed + gain
                    <5>1. Owed \in Int /\ Owed' \in Int
                        BY <1>5
                    <5> QED BY <5>1, Differences DEF gain
                <4> QED BY <1>5, <3>2, <3>3, <3>4, <4>1, Numbers
            <3> QED BY <1>6, <1>7, <2>2, <3>5, Forgiven
        <2>3. CASE ~Forgive(calls[c])
            <3>1. /\ UNCHANGED <<job, meter>> /\ account'.billed = account.billed
                  /\ account'.basis = account.basis
                BY <1>11, <2>3, Stored
            <3>2. Slack' = Slack
                BY <1>2, <1>5, <2>1, <3>1
            <3> QED BY <1>1, <1>6, <2>1, <3>1, <3>2 DEF Covered, Delta
        <2> QED BY <2>2, <2>3
    <1>12. CASE Traffic
        <2>1. /\ UNCHANGED <<account, job>>
              /\ meter'.consumed = meter.consumed + 1 /\ meter'.charged = meter.charged
              /\ meter'.forgiven = meter.forgiven /\ meter'.rewound = meter.rewound
            BY <1>12 DEF Traffic, TypeInv, MeterType
        <2>2. admin'.used = admin.used + 1 /\ admin'.counter = admin.counter
            <3> DEFINE used == admin.used + 1
            <3>1. admin' = [admin EXCEPT !.used = used]
                BY <1>12 DEF Traffic
            <3> HIDE DEF used
            <3>2. admin'.used = used /\ admin'.counter = admin.counter
                BY <3>1 DEF TypeInv, AdminType
            <3> QED BY <3>2 DEF used
        <2>3. Owed' = Owed + 1
            BY <1>2, <2>1, <2>2, Numbers
        <2>4. Slack' = Slack
            BY <1>5, <2>1, <2>3, Numbers
        <2> QED BY <1>1, <1>6, <2>1, <2>2, <2>4 DEF Covered, Delta
    \* What the old counter showed is not owed any more, which leaves as much slack.
    <1>13. CASE PanelReset
        <2>1. UNCHANGED <<account, job, meter>>
            BY <1>13 DEF PanelReset
        <2>2. admin'.used = 0 /\ admin'.counter = admin.counter + 1
            <3> DEFINE counter == admin.counter + 1
            <3>1. admin' = [admin EXCEPT !.used = 0, !.counter = counter]
                BY <1>13 DEF PanelReset
            <3> HIDE DEF counter
            <3>2. admin'.used = 0 /\ admin'.counter = counter
                BY <3>1 DEF TypeInv, AdminType
            <3> QED BY <3>2 DEF counter
        <2>3. Owed' = 0
            BY <1>2, <2>1, <2>2, Numbers DEF Readings, Earlier
        <2>4. Slack' = Slack + Owed
            BY <1>5, <2>1, <2>3, Numbers
        <2>5. job.pc = "charge" /\ ~job.moved => Slack' >= Delta
            <3> SUFFICES ASSUME job.pc = "charge", ~job.moved PROVE Slack' >= Delta
                OBVIOUS
            <3>1. CASE job.counter = admin.counter
                <4>1. job.used <= admin.used /\ account.basis <= admin.counter
                    BY <3>1 DEF Readings, Earlier
                <4>2. /\ job.billed = account.billed
                      /\ account.basis = job.counter => account.billed <= job.used
                    BY DEF Readings
                <4>3. Delta <= Owed
                    BY <1>2, <3>1, <4>1, <4>2, Numbers DEF Delta, UsageDelta
                <4> QED BY <1>5, <1>6, <2>4, <4>3
            <3>2. CASE job.counter # admin.counter
                BY <1>5, <1>6, <2>4, <3>2 DEF Covered, Delta
            <3> QED BY <3>1, <3>2
        <2> QED BY <1>1, <1>5, <1>6, <2>1, <2>4, <2>5 DEF Covered, Delta
    <1>14. CASE Restart
        <2>1. /\ job' = IdleJob /\ UNCHANGED <<account, admin>>
              /\ meter' = [meter EXCEPT !.rewound = @ + Debited]
            BY <1>14 DEF Restart, LosesDebit
        <2>2. /\ meter'.rewound = meter.rewound /\ meter'.charged = meter.charged
              /\ meter'.consumed = meter.consumed /\ meter'.forgiven = meter.forgiven
            BY <1>4, <2>1, Numbers DEF TypeInv, MeterType
        <2>3. Slack' = Slack
            BY <1>2, <1>5, <2>1, <2>2
        <2> QED BY <1>6, <1>7, <2>1, <2>3 DEF IdleJob
    <1>15. CASE \/ TopUp \/ UNCHANGED vars
                \/ \E c \in Callers : Request(c) \/ Call(c) \/ Ends(c)
        <2>1. UNCHANGED <<job, meter>> /\ Unseen
            BY <1>15, UnseenSteps DEF TopUp, Request, Call, Ends, CallFails, StoreFails, Resync, vars, Unseen
        <2>2. Slack' = Slack
            BY <1>5, <2>1, UnseenOwes
        <2> QED BY <1>1, <1>6, <2>1, <2>2 DEF Covered, Unseen, Delta
    <1>16. ~JobDebit /\ ~JobPatch /\ ~JobPatchFails /\ ~Tick
        BY <1>1 DEF JobDebit, JobPatch, JobPatchFails, Tick
    <1> QED BY <1>8, <1>9, <1>10, <1>11, <1>12, <1>13, <1>14, <1>15, <1>16
            DEF Next, Ends, JobStep, PlainStep

\* No minute and no unit of traffic is charged twice or after it was forgiven, whatever
\* requests change the row, the clock and the baseline while a run charges it; and the
\* wallet, the ledger and the row agree on what was charged.
THEOREM BilledOnceAlways == Spec => [](BilledOnce /\ BooksBalance)
    <1>1. Init => BilledInv
        <2> SUFFICES ASSUME Init PROVE BilledInv
            OBVIOUS
        <2>1. TypeInv /\ ModesKept /\ Purposes
            BY InitTyped DEF Init, ModesKept, Purposes, IdleJob, IdleCall
        <2>2. TimesPassed /\ Readings
            BY DEF Init, TimesPassed, Readings, Earlier, IdleJob, IdleCall
        <2>3. Covered
            BY DEF Init, Covered, Slack, Owed, Unbilled, Debited, IdleJob
        <2> QED BY <2>1, <2>2, <2>3 DEF BilledInv
    <1>2. BilledInv /\ [Next]_vars => BilledInv'
        <2> SUFFICES ASSUME BilledInv, [Next]_vars PROVE BilledInv'
            OBVIOUS
        <2> USE DEF BilledInv
        <2>1. TypeInv' /\ ModesKept' /\ Purposes'
            BY NextTyped, ModesStep, PurposesStep
        <2>2. TimesPassed' /\ Readings'
            BY TimesStep, ReadingsStep
        <2>3. Covered'
            BY <2>1, <2>2, MinutesCovered, TrafficCovered, Numbers
        <2> QED BY <2>1, <2>2, <2>3
    <1>3. BilledInv => BilledOnce
        <2> SUFFICES ASSUME BilledInv PROVE BilledOnce
            OBVIOUS
        <2>1. Owed \in Int /\ Debited \in Int
            BY Numbers, UnbilledIsInt, Charging DEF BilledInv, Owed
        <2> QED BY <2>1, Numbers DEF BilledInv, Covered, Slack, Owed, BilledOnce
    <1> QED BY <1>1, <1>2, <1>3, BooksBalanceAlways, PTL DEF Spec

-----------------------------------------------------------------------------
(* Who writes the status.                                                  *)

SeesSuspended == {"weigh", "activate", "revive"}
SeesActive == {"debit", "patch", "ledger", "meter", "charge", "cap", "capped",
               "suspend", "suspended"}

\* Whoever is not outdated saw the status that the row has.
Seen ==
    /\ \A c \in Callers \ outdated : calls[c].pc # "idle" => calls[c].status = account.status
    /\ "job" \notin outdated =>
         /\ job.pc \in SeesSuspended => account.status = "suspended"
         /\ job.pc \in SeesActive => account.status = "active"

StatusInv == TypeInv /\ Purposes /\ Seen

\* The steps that neither read nor write the status of the row.
StatusLeft ==
    /\ UNCHANGED outdated /\ account'.status = account.status

LEMMA StatusLeftBy ==
    ASSUME TypeInv,
           \/ /\ JobStep /\ ~JobListSuspended /\ ~JobList /\ ~JobRevive /\ ~JobCapped
              /\ ~JobSuspended /\ ~JobStoreFails
           \/ \E c \in Callers : Call(c) \/ CallFails(c)
           \/ Tick \/ Traffic \/ PanelReset \/ TopUp \/ Restart \/ UNCHANGED vars
    PROVE  StatusLeft
    <1> USE DEF StatusLeft
    <1>1. CASE JobDebit \/ JobPatch
        <2>1. UNCHANGED outdated /\ (UNCHANGED account \/ \E charge : PatchBillingState(charge))
            BY <1>1 DEF JobDebit, JobPatch, marks
        <2> QED BY <2>1, MinutesWritten
    <1>2. CASE JobCharge
        BY <1>2 DEF marks, JobCharge, RecordUsageCharge, TypeInv, AccountType
    <1>3. CASE \/ JobStart \/ JobWeigh \/ JobWeighFails \/ JobActivate \/ JobPatchFails
               \/ JobLedger \/ JobLedgerFails \/ JobMeter \/ JobMeterFails \/ JobUnderCap
               \/ JobCap \/ JobSuspend
        BY <1>3 DEF marks, JobStart, JobWeigh, JobWeighFails, JobActivate, JobSwitches, JobPatchFails,
                    JobLedger, JobLedgerFails, JobMeter, JobMeterFails, JobUnderCap, JobCap,
                    JobSuspend
    <1>4. CASE \/ \E c \in Callers : Call(c) \/ CallFails(c)
               \/ Tick \/ Traffic \/ PanelReset \/ TopUp \/ Restart \/ UNCHANGED vars
        BY <1>4 DEF marks, Call, CallFails, Tick, Traffic, PanelReset, TopUp, Restart, vars
    <1> QED BY <1>1, <1>2, <1>3, <1>4 DEF JobStep

\* A writer leaves everybody else who is under way outdated.
LEMMA SeenAfterWrite ==
    ASSUME TypeInv, NEW w \in Callers \cup {"job"}, outdated' = InFlight \ {w},
           \A c \in Callers : calls'[c].pc = "idle" \/ (c # w /\ calls'[c].pc = calls[c].pc),
           job'.pc \notin SeesSuspended \cup SeesActive \/ (w # "job" /\ job'.pc = job.pc)
    PROVE  Seen'
    <1>1. "idle" \notin SeesSuspended \cup SeesActive
        BY DEF SeesSuspended, SeesActive
    <1> QED BY <1>1, CallersAssumption DEF Seen, InFlight

LEMMA SeenStep ==
    ASSUME TypeInv, Purposes, Seen, [Next]_vars
    PROVE  Seen'
    <1> USE DEF Seen
    <1>1. CASE /\ JobStep /\ ~JobListSuspended /\ ~JobList /\ ~JobRevive /\ ~JobCapped
               /\ ~JobSuspended /\ ~JobStoreFails
        <2>1. StatusLeft /\ UNCHANGED calls
            BY <1>1, StatusLeftBy, JobLeavesCalls
        <2>2. /\ job'.pc \in SeesSuspended => job.pc \in SeesSuspended
              /\ job'.pc \in SeesActive => job.pc \in SeesActive
            BY <1>1, Positions DEF JobStep, SeesSuspended, SeesActive
        <2> QED BY <2>1, <2>2 DEF StatusLeft
    <1>2. CASE JobListSuspended \/ JobList
        <2>1. /\ outdated' = outdated \ {"job"} /\ UNCHANGED <<account, calls>>
            BY <1>2 DEF JobListSuspended, JobList, MarkCopy
        <2>2. /\ job'.pc \in SeesSuspended => account.status = "suspended"
              /\ job'.pc \in SeesActive => account.status = "active"
            <3>1. \A pc : Copied(pc).pc = pc /\ [job EXCEPT !.pc = pc].pc = pc
                BY DEF Copied, TypeInv, JobType
            <3>2. CASE JobListSuspended
                <4>1. job'.pc = IF account.status = "suspended" THEN "weigh" ELSE "list"
                    BY <3>1, <3>2 DEF JobListSuspended
                <4> QED BY <4>1 DEF SeesSuspended, SeesActive
            <3>3. CASE JobList
                <4>1. job'.pc = IF account.status # "active" THEN "idle"
                                ELSE IF account.mode = "hourly" THEN "debit" ELSE "meter"
                    BY <3>1, <3>3 DEF JobList, IdleJob
                <4> QED BY <4>1 DEF SeesSuspended, SeesActive
            <3> QED BY <1>2, <3>2, <3>3
        <2> QED BY <2>1, <2>2, CallersAssumption
    <1>3. CASE JobRevive \/ JobCapped \/ JobSuspended \/ JobStoreFails
        <2>1. outdated' = InFlight \ {"job"} /\ UNCHANGED calls /\ job'.pc \notin SeesSuspended \cup SeesActive
            BY <1>3, Positions
               DEF JobRevive, JobCapped, JobSuspended, JobSwitchedOff, ResetBillingClock,
                   WriteStatus, MarkWrite, JobStoreFails, LeaveApart, SeesSuspended, SeesActive
        <2> QED BY <2>1, SeenAfterWrite, CallersAssumption
    <1>4. ASSUME NEW c \in Callers, Request(c) PROVE Seen'
        <2>1. outdated' = outdated \ {c} /\ UNCHANGED <<account, job>>
            BY <1>4 DEF Request, MarkCopy
        <2> QED BY <1>4, <2>1, Requested, OneCall, CallersAssumption
    <1>5. ASSUME NEW c \in Callers, Call(c) PROVE Seen'
        <2>1. StatusLeft /\ UNCHANGED job
            BY <1>5, StatusLeftBy DEF Call
        <2> QED BY <1>5, <2>1, Called, OneCall DEF StatusLeft
    <1>9. ASSUME NEW c \in Callers, Ends(c) PROVE Seen'
        <2>1. /\ UNCHANGED <<account, job>> /\ calls'[c].pc = "idle"
              /\ \A x \in Callers \ {c} : calls'[x] = calls[x]
              /\ outdated' = InFlight \ {c} \/ UNCHANGED outdated
            <3>1. MarkWrite(c) \/ LeaveApart(c) => outdated' = InFlight \ {c}
                BY DEF MarkWrite, LeaveApart
            <3>2. UNCHANGED <<account, job>> /\ calls'[c] = IdleCall
                  /\ (MarkWrite(c) \/ LeaveApart(c) \/ UNCHANGED marks)
                BY <1>9, Ended
            <3>3. \A x \in Callers \ {c} : calls'[x] = calls[x]
                BY <1>9, OneCall
            <3> QED BY <3>1, <3>2, <3>3 DEF IdleCall, marks
        <2>2. CASE outdated' = InFlight \ {c}
            BY <2>1, <2>2, SeenAfterWrite, CallersAssumption
        <2> QED BY <2>1, <2>2
    <1>6. ASSUME NEW c \in Callers, Store(c) PROVE Seen'
        <2>1. calls'[c].pc = "idle" /\ \A x \in Callers \ {c} : calls'[x] = calls[x]
            BY <1>6, Stored, OneCall DEF IdleCall
        <2>2. CASE MarkWrite(c) /\ UNCHANGED job
            BY <2>1, <2>2, SeenAfterWrite, CallersAssumption DEF MarkWrite
        <2>3. CASE StatusLeft /\ job'.pc = job.pc
            BY <2>1, <2>3 DEF StatusLeft
        <2> QED BY <1>6, <2>2, <2>3, Stored, Forgiven
                DEF StatusLeft, Forgive, WriteStatus, ResetBillingClock, marks
    <1>7. CASE Tick \/ Traffic \/ PanelReset \/ TopUp \/ UNCHANGED vars
        <2>1. StatusLeft /\ UNCHANGED <<job, calls>>
            BY <1>7, StatusLeftBy DEF Tick, Traffic, PanelReset, TopUp, vars
        <2> QED BY <2>1 DEF StatusLeft
    <1>8. CASE Restart
        BY <1>8 DEF Restart, IdleJob, IdleCall, SeesSuspended, SeesActive
    <1> QED BY <1>1, <1>2, <1>3, <1>4, <1>5, <1>6, <1>7, <1>8, <1>9 DEF Next, Ends

LEMMA StatusInvStep == StatusInv /\ [Next]_vars => StatusInv'
    BY NextTyped, PurposesStep, SeenStep DEF StatusInv

LEMMA InitSeen == Init => StatusInv
    <1> SUFFICES ASSUME Init PROVE StatusInv
        OBVIOUS
    <1> QED BY InitTyped
            DEF Init, StatusInv, Purposes, Seen, IdleJob, IdleCall, SeesSuspended, SeesActive

\* A step that changes the status away from the admin's lock was decided on an older
\* copy of the row, or is the admin's unlock.
LEMMA LockHolds ==
    ASSUME StatusInv, [Next]_vars
    PROVE  LockLostOnlyToStale
    <1> SUFFICES ASSUME account.status = "admin_paused", account'.status # "admin_paused", ~apart'
                 PROVE  \E c \in Callers :
                          calls[c].op = "unlock" /\ calls[c].pc = "store" /\ calls'[c].pc = "idle"
        BY DEF LockLostOnlyToStale
    <1> USE DEF StatusInv
    <1>1. ~StatusLeft
        BY DEF StatusLeft
    <1>2. ~JobListSuspended /\ ~JobList /\ ~JobStoreFails /\ \A c \in Callers : ~Request(c) /\ ~Ends(c)
        BY Ended DEF JobListSuspended, JobList, JobStoreFails, Request
    <1>3. ~JobRevive /\ ~JobCapped /\ ~JobSuspended
        <2> SUFFICES ASSUME JobRevive \/ JobCapped \/ JobSuspended PROVE FALSE
            OBVIOUS
        <2>1. "job" \notin outdated /\ job.pc \in {"revive", "capped", "suspended"}
            BY Positions DEF JobRevive, JobCapped, JobSuspended, JobSwitchedOff, ResetBillingClock,
                             WriteStatus, MarkWrite
        <2> QED BY <2>1 DEF Seen, SeesSuspended, SeesActive
    <1>4. PICK c \in Callers : Store(c)
        BY <1>1, <1>2, <1>3, StatusLeftBy DEF Next, Ends
    <1>5. calls[c].pc = "store" /\ calls'[c].pc = "idle"
        <2>1. calls[c].pc = "store"
            BY <1>4 DEF Store
        <2>2. calls'[c] = IdleCall
            BY <1>4, Stored
        <2> QED BY <2>1, <2>2 DEF IdleCall
    <1>6. MarkWrite(c) /\ (calls[c].op = "cap" => calls[c].to # calls[c].status)
        BY <1>1, <1>4, Stored, Forgiven DEF StatusLeft, Forgive, WriteStatus, ResetBillingClock, marks
    <1>7. calls[c].status = "admin_paused"
        BY <1>5, <1>6 DEF MarkWrite, Seen
    <1>8. Intends(calls[c]) /\ Writes(calls[c]) /\ calls[c].op \in Ops
        <2>1. calls[c] \in CallType /\ calls[c].op # "resync"
            BY <1>4 DEF TypeInv, Store
        <2> QED BY <1>5, <2>1 DEF Purposes, CallType
    <1>9. calls[c].op # "forgive"
        BY <1>1, <1>4, Stored, Forgiven DEF StatusLeft, Forgive, marks
    <1>10. calls[c].op = "unlock"
        BY <1>6, <1>7, <1>8, <1>9 DEF Intends, Writes, Ops
    <1> QED BY <1>5, <1>10

\* An account the admin locked is opened only by the admin's unlock or by a writer that
\* began before the lock, whatever the run, the cap and other requests do.
THEOREM LockLostOnlyToStaleAlways == Spec => [][LockLostOnlyToStale]_vars
    <1>1. StatusInv /\ [Next]_vars => [LockLostOnlyToStale]_vars
        BY LockHolds
    <1> QED BY <1>1, InitSeen, StatusInvStep, PTL DEF Spec

-----------------------------------------------------------------------------
(* The panel and the row.                                                  *)

SwitchedOn(w) == IF w = "job" THEN job.pc = "revive" ELSE calls[w].to = "active"

\* The panel is ahead of the row by what the one who is between them will write; of two,
\* and of one who is outdated, the later writes a status from an outdated copy.
PanelAhead ==
    /\ Between = {} => apart \/ (admin.enabled <=> account.status = "active")
    /\ Between # {} =>
        \/ Between \cap outdated # {}
        \/ \E v, w \in Between : v # w
        \/ \E w \in Between : Between = {w} /\ (admin.enabled <=> SwitchedOn(w))

AgreeInv == StatusInv /\ PanelAhead

LEMMA IsBetween ==
    /\ \A c \in Callers : c \in Between <=> calls[c].pc = "store" /\ calls[c].to # calls[c].status
    /\ "job" \in Between <=> job.pc \in {"revive", "capped", "suspended"}
    /\ Between \subseteq Callers \cup {"job"} /\ Between \subseteq InFlight
    /\ \A c \in Callers : SwitchedOn(c) <=> calls[c].to = "active"
    /\ SwitchedOn("job") <=> job.pc = "revive"
    BY CallersAssumption DEF Between, InFlight, SwitchedOn

LEMMA IsBetweenAfter ==
    /\ \A c \in Callers :
         c \in Between' <=> calls'[c].pc = "store" /\ calls'[c].to # calls'[c].status
    /\ "job" \in Between' <=> job'.pc \in {"revive", "capped", "suspended"}
    /\ Between' \subseteq Callers \cup {"job"}
    /\ \A c \in Callers : SwitchedOn(c)' <=> calls'[c].to = "active"
    /\ SwitchedOn("job")' <=> job'.pc = "revive"
    BY CallersAssumption DEF Between, SwitchedOn

LEMMA SameBetween ==
    ASSUME \A c \in Callers : c \in Between' <=> c \in Between,
           "job" \in Between' <=> "job" \in Between
    PROVE  Between' = Between
    <1>1. Between \subseteq Callers \cup {"job"} /\ Between' \subseteq Callers \cup {"job"}
        BY IsBetween, IsBetweenAfter
    <1> QED BY <1>1

\* Nobody switches the panel admin and nobody writes the status.
LEMMA AheadStays ==
    ASSUME PanelAhead, Between' = Between, \A w \in Between : SwitchedOn(w)' <=> SwitchedOn(w),
           admin'.enabled = admin.enabled, account'.status = account.status,
           apart' = apart,
           Between \cap outdated \subseteq outdated'
    PROVE  PanelAhead'
    BY DEF PanelAhead

\* Somebody switches it.
LEMMA AheadJoined ==
    ASSUME NEW w, w \notin Between, Between' = Between \cup {w},
           admin'.enabled <=> SwitchedOn(w)'
    PROVE  PanelAhead'
    BY DEF PanelAhead

\* Whoever switched it writes the row.
LEMMA AheadLeft ==
    ASSUME TypeInv, PanelAhead, NEW w \in Between, Between' = Between \ {w},
           admin'.enabled = admin.enabled,
           \/ MarkWrite(w) /\ (account'.status = "active" <=> SwitchedOn(w))
           \/ LeaveApart(w)
    PROVE  PanelAhead'
    <1>1. outdated' = InFlight \ {w}
        BY DEF MarkWrite, LeaveApart
    <1>2. CASE \E v \in Between : v # w
        <2>1. Between' \cap outdated' # {}
            BY <1>1, <1>2, IsBetween
        <2> QED BY <2>1 DEF PanelAhead
    <1>3. CASE ~\E v \in Between : v # w
        <2>1. Between' = {} /\ Between = {w}
            BY <1>3
        <2>2. CASE apart'
            BY <2>1, <2>2 DEF PanelAhead
        <2>3. CASE ~apart'
            <3>1. w \notin outdated /\ (account'.status = "active" <=> SwitchedOn(w))
                BY <2>3 DEF MarkWrite, LeaveApart
            <3>2. admin.enabled <=> SwitchedOn(w)
                BY <2>1, <3>1 DEF PanelAhead
            <3> QED BY <2>1, <3>1, <3>2 DEF PanelAhead
        <2> QED BY <2>2, <2>3
    <1> QED BY <1>2, <1>3

\* The admin is switched to what a fresh copy says while others may be between.
LEMMA AheadSynced ==
    ASSUME TypeInv, NEW c \in Callers \ Between, Between' = Between, MarkWrite(c),
           c \in outdated \/ (admin'.enabled <=> account'.status = "active")
    PROVE  PanelAhead'
    <1>1. CASE Between = {}
        BY <1>1 DEF PanelAhead, MarkWrite
    <1>2. CASE Between # {}
        <2>1. Between' \cap outdated' # {}
            BY <1>2, IsBetween DEF MarkWrite
        <2> QED BY <1>2, <2>1 DEF PanelAhead
    <1> QED BY <1>1, <1>2

LEMMA AheadStep ==
    ASSUME StatusInv, PanelAhead, [Next]_vars
    PROVE  PanelAhead'
    <1> USE DEF StatusInv
    \* The run moves on without having switched the panel admin.
    <1>1. ASSUME JobStep, job.pc \notin {"revive", "capped", "suspended"},
                 job'.pc \notin {"revive", "capped", "suspended"},
                 UNCHANGED <<admin, apart>>, account'.status = account.status,
                 outdated \ {"job"} \subseteq outdated'
          PROVE  PanelAhead'
        <2>1. UNCHANGED calls
            BY <1>1, JobLeavesCalls
        <2>2. Between' = Between /\ "job" \notin Between
            <3>1. "job" \notin Between /\ "job" \notin Between'
                BY <1>1, IsBetween, IsBetweenAfter
            <3>2. \A c \in Callers : c \in Between' <=> c \in Between
                BY <2>1, IsBetween, IsBetweenAfter
            <3> QED BY <3>1, <3>2, SameBetween
        <2>3. \A w \in Between : SwitchedOn(w)' <=> SwitchedOn(w)
            BY <2>1, <2>2, IsBetween, IsBetweenAfter
        <2> QED BY <1>1, <2>2, <2>3, AheadStays
    <1>2. CASE \/ JobStart \/ JobWeigh \/ JobWeighFails \/ JobDebit \/ JobPatch \/ JobPatchFails
               \/ JobLedger \/ JobLedgerFails \/ JobMeter \/ JobMeterFails \/ JobCharge
               \/ JobUnderCap
        <2>1. /\ JobStep /\ ~JobListSuspended /\ ~JobList /\ ~JobRevive /\ ~JobCapped
              /\ ~JobSuspended /\ ~JobStoreFails
            BY <1>2, Positions DEF JobStep
        <2>2. StatusLeft
            BY <2>1, StatusLeftBy
        <2>3. UNCHANGED <<admin, apart>>
            BY <1>2 DEF JobStart, JobWeigh, JobWeighFails, JobDebit, JobPatch, JobPatchFails, marks,
                        JobLedger, JobLedgerFails, JobMeter, JobMeterFails, JobCharge, JobUnderCap
        <2>4. /\ job.pc \notin {"revive", "capped", "suspended"}
              /\ job'.pc \notin {"revive", "capped", "suspended"}
            BY <1>2, Positions
        <2> QED BY <1>1, <2>1, <2>2, <2>3, <2>4 DEF StatusLeft
    <1>3. CASE JobListSuspended \/ JobList
        <2>1. /\ UNCHANGED <<admin, account, apart>> /\ outdated' = outdated \ {"job"}
              /\ JobStep
            BY <1>3 DEF JobListSuspended, JobList, MarkCopy, JobStep
        <2>2. /\ job.pc \notin {"revive", "capped", "suspended"}
              /\ job'.pc \notin {"revive", "capped", "suspended"}
            BY <1>3, Positions
        <2> QED BY <1>1, <2>1, <2>2
    <1>4. CASE JobActivate \/ JobCap \/ JobSuspend
        <2>1. JobStep /\ UNCHANGED <<account, calls, marks>>
            BY <1>4 DEF JobStep, JobActivate, JobCap, JobSuspend, JobSwitches
        <2>2. job.pc \notin {"revive", "capped", "suspended"}
            BY <1>4, Positions
        <2>3. \/ UNCHANGED admin /\ job'.pc \in {"list", "idle"}
              \/ job'.pc \in {"revive", "capped", "suspended"}
                 /\ (admin'.enabled <=> job'.pc = "revive")
            <3>1. /\ IdleJob.pc = "idle" /\ \A pc : [job EXCEPT !.pc = pc].pc = pc
                  /\ \A on : [admin EXCEPT !.enabled = on].enabled = on
                BY DEF IdleJob, TypeInv, JobType, AdminType
            <3> QED BY <1>4, <3>1 DEF JobActivate, JobCap, JobSuspend, JobSwitches
        <2>4. CASE UNCHANGED admin /\ job'.pc \in {"list", "idle"}
            BY <1>1, <2>1, <2>2, <2>4 DEF marks
        <2>5. CASE /\ job'.pc \in {"revive", "capped", "suspended"}
                   /\ admin'.enabled <=> job'.pc = "revive"
            <3>1. Between' = Between \cup {"job"} /\ "job" \notin Between
                BY <2>1, <2>2, <2>5, IsBetween, IsBetweenAfter
            <3> QED BY <2>5, <3>1, IsBetweenAfter, AheadJoined
        <2> QED BY <2>3, <2>4, <2>5
    <1>5. CASE JobRevive \/ JobCapped \/ JobSuspended
        <2>1. /\ MarkWrite("job") /\ UNCHANGED <<admin, calls>>
              /\ account'.status = "active" <=> job.pc = "revive"
            <3>1. JobRevive => account'.status = "active" /\ job.pc = "revive"
                BY StatusWritten DEF JobRevive
            <3>2. JobCapped \/ JobSuspended => account'.status # "active" /\ job.pc # "revive"
                BY StatusWritten DEF JobCapped, JobSuspended, JobSwitchedOff
            <3> QED BY <1>5, <3>1, <3>2
                    DEF JobRevive, JobCapped, JobSuspended, JobSwitchedOff, ResetBillingClock,
                        WriteStatus
        <2>2. "job" \in Between /\ Between' = Between \ {"job"}
            BY <1>5, <2>1, Positions, IsBetween, IsBetweenAfter
        <2> QED BY <2>1, <2>2, IsBetween, AheadLeft
    <1>11. CASE JobStoreFails
        <2>1. LeaveApart("job") /\ UNCHANGED <<admin, calls>>
            BY <1>11 DEF JobStoreFails
        <2>2. "job" \in Between /\ Between' = Between \ {"job"}
            BY <1>11, <2>1, Positions, IsBetween, IsBetweenAfter
        <2> QED BY <2>1, <2>2, IsBetween, AheadLeft
    <1>6. ASSUME NEW c \in Callers, Request(c) PROVE PanelAhead'
        <2>1. /\ UNCHANGED <<admin, account, apart, job>> /\ outdated' = outdated \ {c}
              /\ calls[c].pc = "idle" /\ calls'[c].pc = "panel"
            BY <1>6, Requested DEF Request, MarkCopy
        <2>2. Between' = Between /\ c \notin Between
            <3>1. c \notin Between /\ c \notin Between'
                BY <2>1, IsBetween, IsBetweenAfter
            <3>2. \A x \in Callers : x \in Between' <=> x \in Between
                BY <1>6, <3>1, OneCall, IsBetween, IsBetweenAfter
            <3>3. "job" \in Between' <=> "job" \in Between
                BY <2>1, IsBetween, IsBetweenAfter
            <3> QED BY <3>1, <3>2, <3>3, SameBetween
        <2>3. \A w \in Between : SwitchedOn(w)' <=> SwitchedOn(w)
            BY <1>6, <2>1, <2>2, OneCall, IsBetween, IsBetweenAfter
        <2> QED BY <2>1, <2>2, <2>3, AheadStays
    <1>7. ASSUME NEW c \in Callers, Call(c) \/ CallFails(c) PROVE PanelAhead'
        <2>1. UNCHANGED <<account, marks, job>> /\ calls[c].pc = "panel"
            BY <1>7 DEF Call, CallFails
        <2>5. \A x \in Callers \ {c} : calls'[x] = calls[x]
            BY <1>7, OneCall DEF Ends
        <2>2. \/ /\ admin'.enabled = admin.enabled
                 /\ calls'[c].pc = "idle" \/ calls'[c].to = calls'[c].status
              \/ /\ calls'[c].pc = "store" /\ calls'[c].to # calls'[c].status
                 /\ admin'.enabled <=> calls'[c].to = "active"
            <3>1. CallFails(c) => admin'.enabled = admin.enabled /\ calls'[c] = IdleCall
                BY DEF CallFails, TypeInv
            <3>2. Call(c) => admin'.enabled = IF Target(calls[c]) # calls[c].status
                                              THEN Target(calls[c]) = "active" ELSE admin.enabled
                <4>1. Call(c) => (Switches(calls[c]) <=> Target(calls[c]) # calls[c].status)
                    BY DEF Call, Switches
                <4> QED BY <4>1 DEF Call, TypeInv, AdminType
            <3>3. CASE CallFails(c)
                BY <3>1, <3>3 DEF IdleCall
            <3>4. CASE Call(c)
                BY <3>2, <3>4, Called
            <3> QED BY <1>7, <3>3, <3>4
        <2>3. CASE /\ admin'.enabled = admin.enabled
                   /\ calls'[c].pc = "idle" \/ calls'[c].to = calls'[c].status
            <3>1. Between' = Between /\ c \notin Between
                <4>1. c \notin Between /\ c \notin Between'
                    BY <2>1, <2>3, IsBetween, IsBetweenAfter
                <4>2. \A x \in Callers : x \in Between' <=> x \in Between
                    BY <2>5, <4>1, IsBetween, IsBetweenAfter
                <4>3. "job" \in Between' <=> "job" \in Between
                    BY <2>1, IsBetween, IsBetweenAfter
                <4> QED BY <4>1, <4>2, <4>3, SameBetween
            <3>2. \A w \in Between : SwitchedOn(w)' <=> SwitchedOn(w)
                BY <2>1, <2>5, <3>1, IsBetween, IsBetweenAfter
            <3> QED BY <2>1, <2>3, <3>1, <3>2, AheadStays DEF marks
        <2>4. CASE /\ calls'[c].pc = "store" /\ calls'[c].to # calls'[c].status
                   /\ admin'.enabled <=> calls'[c].to = "active"
            <3>1. Between' = Between \cup {c} /\ c \notin Between
                BY <2>1, <2>4, <2>5, IsBetween, IsBetweenAfter
            <3> QED BY <2>4, <3>1, IsBetweenAfter, AheadJoined
        <2> QED BY <2>2, <2>3, <2>4
    <1>8. ASSUME NEW c \in Callers, Store(c) PROVE PanelAhead'
        <2>1. /\ calls[c].pc = "store" /\ calls'[c] = IdleCall /\ UNCHANGED admin
              /\ job'.pc = job.pc
            BY <1>8, Stored, Forgiven DEF Store
        <2>2. Between' = Between \ {c}
            <3>1. calls'[c].pc = "idle"
                BY <2>1 DEF IdleCall
            <3> QED BY <1>8, <2>1, <3>1, OneCall, IsBetween, IsBetweenAfter
        <2>3. Intends(calls[c]) /\ Writes(calls[c])
            BY <2>1 DEF Purposes
        <2>4. CASE c \in Between
            <3>1. calls[c].to # calls[c].status /\ calls[c].op # "forgive"
                BY <2>3, <2>4, IsBetween DEF Writes
            <3>2. MarkWrite(c) /\ account'.status = calls[c].to
                BY <1>8, <2>3, <3>1, Stored DEF WriteStatus, ResetBillingClock, Writes
            <3> QED BY <2>1, <2>2, <2>4, <3>2, IsBetween, AheadLeft
        <2>5. CASE c \notin Between
            <3>1. calls[c].to = calls[c].status
                BY <2>1, <2>5, IsBetween
            <3>2. calls[c].op \in {"cap", "forgive"}
                <4>1. calls[c] \in CallType /\ calls[c].op # "resync"
                    BY <1>8 DEF TypeInv, Store
                <4> QED BY <2>3, <3>1, <4>1 DEF Intends, Writes, CallType, Ops
            <3>3. account'.status = account.status /\ UNCHANGED marks
                BY <1>8, <3>1, <3>2, Stored, Forgiven DEF Forgive
            <3>4. \A w \in Between : SwitchedOn(w)' <=> SwitchedOn(w)
                BY <1>8, <2>1, <2>5, OneCall, IsBetween, IsBetweenAfter
            <3> QED BY <2>1, <2>2, <2>5, <3>3, <3>4, AheadStays DEF marks
        <2> QED BY <2>4, <2>5
    <1>9. CASE Tick \/ Traffic \/ PanelReset \/ TopUp \/ UNCHANGED vars
        <2>1. /\ UNCHANGED <<account, marks, job, calls>>
              /\ admin'.enabled = admin.enabled
            BY <1>9 DEF Tick, Traffic, PanelReset, TopUp, vars, TypeInv, AdminType
        <2>2. Between' = Between
            BY <2>1 DEF Between
        <2>3. \A w \in Between : SwitchedOn(w)' <=> SwitchedOn(w)
            BY <2>1, IsBetween, IsBetweenAfter
        <2> QED BY <2>1, <2>2, <2>3, AheadStays DEF marks
    <1>10. CASE Restart
        <2>1. Between' = {}
            BY <1>10 DEF Restart, Between, IdleJob, IdleCall
        <2> QED BY <1>10, <2>1 DEF Restart, PanelAhead
    <1>12. ASSUME NEW c \in Callers, StoreFails(c) \/ Resync(c) PROVE PanelAhead'
        <2>1. Ends(c)
            BY <1>12 DEF Ends
        <2>2. calls'[c] = IdleCall /\ UNCHANGED <<account, job>>
            BY <2>1, Ended
        <2>3. Between' = Between \ {c}
            <3>1. calls'[c].pc = "idle"
                BY <2>2 DEF IdleCall
            <3> QED BY <2>1, <2>2, <3>1, OneCall, IsBetween, IsBetweenAfter
        <2>4. \A w \in Between \ {c} : SwitchedOn(w)' <=> SwitchedOn(w)
            BY <2>1, <2>2, OneCall, IsBetween, IsBetweenAfter
        <2>5. CASE StoreFails(c) /\ c \in Between
            BY <2>3, <2>5, AheadLeft DEF StoreFails
        <2>6. CASE StoreFails(c) /\ c \notin Between
            BY <2>2, <2>3, <2>4, <2>6, AheadStays DEF StoreFails, marks
        <2>7. CASE Resync(c)
            <3>1. c \notin Between /\ calls[c].pc # "idle" /\ MarkWrite(c)
                BY <2>7, IsBetween DEF Resync
            <3>2. admin'.enabled <=> calls[c].status = "active"
                <4> DEFINE on == calls[c].status = "active"
                <4>1. admin' = [admin EXCEPT !.enabled = on]
                    BY <2>7 DEF Resync
                <4> HIDE DEF on
                <4>2. admin'.enabled = on
                    BY <4>1 DEF TypeInv, AdminType
                <4> QED BY <4>2 DEF on
            <3>3. c \in outdated \/ (admin'.enabled <=> account'.status = "active")
                BY <2>2, <3>1, <3>2 DEF Seen
            <3>4. Between' = Between
                BY <2>3, <3>1
            <3> QED BY <3>1, <3>3, <3>4, AheadSynced
        <2> QED BY <1>12, <2>5, <2>6, <2>7
    <1> QED BY <1>2, <1>3, <1>4, <1>5, <1>6, <1>7, <1>8, <1>9, <1>10, <1>11, <1>12 DEF Next, JobStep

\* Once nobody is between the panel and the row, the two agree, unless the last status
\* written or put on the panel came from an outdated copy or broke off between the two:
\* with resync_with_panel, and with calls of the panel that raise after they took effect.
THEOREM PanelAgreesUnlessRacedAlways == Spec => []PanelAgreesUnlessRaced
    <1>1. Init => AgreeInv
        <2> SUFFICES ASSUME Init PROVE AgreeInv
            OBVIOUS
        <2>1. Between = {} /\ admin.enabled /\ account.status = "active"
            BY DEF Init, Between, IdleJob, IdleCall
        <2> QED BY <2>1, InitSeen DEF AgreeInv, PanelAhead
    <1>2. AgreeInv /\ [Next]_vars => AgreeInv'
        BY StatusInvStep, AheadStep DEF AgreeInv
    <1>3. AgreeInv => PanelAgreesUnlessRaced
        BY DEF AgreeInv, PanelAhead, PanelAgreesUnlessRaced
    <1> QED BY <1>1, <1>2, <1>3, PTL DEF Spec

-----------------------------------------------------------------------------
(***************************************************************************)
(* ResellerTerm.  Ahead are those that changed the panel and did not write *)
(* the row yet.  When nobody is, the panel is as the row; when one of them *)
(* is, and nobody wrote meanwhile, it is as the row it will write.  The    *)
(* names that ResellerBilling declares too stand here for those of         *)
(* ResellerTerm.                                                           *)
(***************************************************************************)
CONSTANTS Operations, GRACE, WALLET, MAX_GRANTS
VARIABLES locks, books, panel, raced, astray

Term == INSTANCE ResellerTerm

\* The instance brings its own name of the size of a set.
LEMMA SameCardinality == \A S : Term!Cardinality(S) = Cardinality(S)
BY DEF Cardinality, Term!Cardinality

\* The callers are finitely many, and the job is none of them.
TermAssumptions == Term!TermAssumption /\ IsFiniteSet(Callers) /\ "job" \notin Callers

CallPcs == {"idle", "debit", "modify", "activate", "disable", "purge", "remove", "store"}
TermOps == {"renew", "renewByAdmin", "days", "volume", "extend", "pause", "lock", "resume",
            "unlock", "setVolume", "resync", "delete"}
RequestType == [pc : CallPcs, op : TermOps, status : Term!Statuses, after : Nat, limit : Nat]
PanelAdminType == [exists : BOOLEAN, enabled : BOOLEAN, limit : Nat, users : BOOLEAN]
TermJobPcs == {"idle", "expire", "off", "recheck", "write", "purge", "users", "remove", "drop"}

TermTyped ==
    /\ account \in [exists : BOOLEAN, status : Term!Statuses, expires : Nat, limit : Nat]
    /\ admin \in PanelAdminType
    /\ wallet \in Nat /\ clock \in Nat /\ {panel, raced, astray} \subseteq BOOLEAN
    /\ raced => astray
    /\ outdated \subseteq Callers \cup {"job"}
    /\ job \in [pc : TermJobPcs, now : Nat]
    /\ calls \in [Callers -> RequestType]
    /\ books \in [bought : Nat, dropped : Nat, crashed : Nat, granted : Nat]

\* Which request is where.
Fits(call) ==
    /\ call.pc = "debit" => Term!Paid(call.op)
    /\ call.pc = "modify" =>
           /\ call.op \in Term!Renewals \cup {"volume", "setVolume", "resync"}
           /\ call.op \in Term!Renewals => call.limit # 0
    /\ call.pc = "activate" =>
           /\ call.op \in Term!Renewals \cup {"resume", "unlock", "days", "extend", "resync"}
           /\ call.op \in Term!Renewals => call.status # "admin_paused"
           /\ call.op = "resync" => call.status = "active"
           /\ call.op \in {"days", "extend"} => call.status = "expired"
    /\ call.pc = "disable" =>
           /\ call.op \in {"pause", "lock", "resync"}
           /\ call.op = "resync" => call.status # "active"
    /\ call.pc \in {"purge", "remove"} => call.op = "delete"
    /\ call.op = "delete" => call.pc \in {"purge", "remove", "store"}
    /\ call.pc = "store" => call.op # "resync"
    /\ call.op = "volume" => call.limit # 0

\* A plan has a volume for good or never.
LimitsAlike(call, row) == call.pc # "idle" => (call.limit = 0 <=> row.limit = 0)

\* A copy that is not outdated is the row.
CopyOf(call, row) ==
    /\ call.status = row.status
    /\ Term!Extends(call.op) => call.after >= row.expires + 1
    /\ call.op = "resync" => call.limit = row.limit

CallsOK ==
    /\ \A c \in Callers : Fits(calls[c]) /\ LimitsAlike(calls[c], account)
    /\ ~raced /\ account.exists =>
           \A c \in Callers \ outdated : calls[c].pc # "idle" => CopyOf(calls[c], account)

\* Nobody drops the row before the admin is gone, unless the panel is.
AdminGone ==
    panel /\ (\/ ~account.exists \/ job.pc = "drop"
     \/ \E c \in Callers : calls[c].pc = "store" /\ calls[c].op = "delete") => ~admin.exists

\* What the job listed for removal was overdue.
ListedOverdue ==
    /\ job.now <= clock
    /\ job.pc = "users" /\ "job" \notin outdated =>
           account.status = "expired" /\ account.expires + GRACE <= job.now

\* Who has changed the panel and is about to write the row.
IsAhead(call) ==
    call.pc = "store" \/ (call.pc = "activate" /\ call.op \in Term!Renewals /\ call.limit # 0)
JobAhead == job.pc \in {"recheck", "write", "drop"}
Ahead == {c \in Callers : IsAhead(calls[c])} \cup {w \in {"job"} : JobAhead}

\* The status a request is going to write.
SwitchesTo(call, row) ==
    CASE call.op \in Term!Renewals -> IF call.status = "admin_paused" THEN "admin_paused" ELSE "active"
      [] call.op \in {"days", "extend"} -> IF call.status = "expired" THEN "active" ELSE row.status
      [] call.op \in {"resume", "unlock"} -> "active"
      [] call.op = "pause" -> "paused"
      [] call.op = "lock" -> "admin_paused"
      [] OTHER -> row.status

\* The row that is going to be written agrees with the panel.
Agrees(row, adm) == (adm.enabled <=> row.status = "active") /\ adm.limit = row.limit
Limits(op) == op \in Term!Renewals \cup {"volume", "setVolume"}
CallAgrees(call, row, adm) ==
    IF call.pc = "store"
    THEN call.op # "delete" =>
             /\ adm.enabled <=> SwitchesTo(call, row) = "active"
             /\ adm.limit = (IF Limits(call.op) THEN call.limit ELSE row.limit)
    ELSE (adm.enabled <=> row.status = "active") /\ adm.limit = call.limit
JobAgrees(pc, row, adm) == pc # "drop" => ~adm.enabled /\ adm.limit = row.limit

PanelAgrees ==
    panel /\ ~astray /\ account.exists =>
        /\ Ahead = {} => Agrees(account, admin)
        /\ Ahead \cap outdated = {} =>
              /\ \A c \in Callers : Ahead = {c} => CallAgrees(calls[c], account, admin)
              /\ Ahead = {"job"} => JobAgrees(job.pc, account, admin)

TermInv ==
    /\ TermTyped /\ Term!BoughtOrRefunded /\ Term!PaidTermKept /\ CallsOK /\ AdminGone /\ ListedOverdue
    /\ PanelAgrees

-----------------------------------------------------------------------------
(* The operators.                                                          *)

RowType == [exists : BOOLEAN, status : Term!Statuses, expires : Nat, limit : Nat]

LEMMA FirstStepFits ==
    ASSUME account \in RowType, NEW op \in TermOps, NEW status \in Term!Statuses,
           NEW call \in RequestType, call.pc = Term!FirstStep(op, status), call.op = op,
           call.status = status, call.limit = 0 <=> account.limit = 0,
           op = "volume" => call.limit # 0
    PROVE  Fits(call) /\ call.pc \notin {"idle", "debit"}
<1>1. CASE op \in Term!Renewals
  BY <1>1 DEF Term!FirstStep, Term!AfterModify, Fits, Term!Renewals, RowType
<1>2. CASE op \in {"days", "extend"}
  BY <1>2 DEF Term!FirstStep, Fits, Term!Renewals
<1>3. CASE op \in {"volume", "setVolume", "resync"}
  BY <1>3 DEF Term!FirstStep, Fits, Term!Renewals
<1>4. CASE op \in {"pause", "lock"}
  BY <1>4 DEF Term!FirstStep, Fits, Term!Renewals
<1>5. CASE op \in {"resume", "unlock"}
  BY <1>5 DEF Term!FirstStep, Fits, Term!Renewals
<1>6. CASE op = "delete"
  BY <1>6 DEF Term!FirstStep, Fits, Term!Renewals
<1> QED
  BY <1>1, <1>2, <1>3, <1>4, <1>5, <1>6 DEF TermOps, Term!Renewals

\* A request is ahead at once only if it leaves the panel as it is.
LEMMA FirstStepAhead ==
    ASSUME account \in RowType, NEW op \in TermOps, NEW status \in Term!Statuses,
           NEW call \in RequestType, call.pc = Term!FirstStep(op, status), call.op = op,
           call.status = status, IsAhead(call),
           call.limit = 0 <=> account.limit = 0
    PROVE  /\ call.pc = "store"
           /\ \/ op \in Term!Renewals /\ status = "admin_paused" /\ account.limit = 0
              \/ op \in {"days", "extend"} /\ status # "expired"
<1>1. CASE op \in Term!Renewals
  BY <1>1 DEF Term!FirstStep, Term!AfterModify, IsAhead, Term!Renewals, RowType
<1>2. CASE op \in {"days", "extend"}
  BY <1>2 DEF Term!FirstStep, IsAhead, Term!Renewals
<1>3. CASE op \in {"volume", "setVolume", "resync"}
  BY <1>3 DEF Term!FirstStep, IsAhead, Term!Renewals
<1>4. CASE op \in {"pause", "lock"}
  BY <1>4 DEF Term!FirstStep, IsAhead, Term!Renewals
<1>5. CASE op \in {"resume", "unlock"}
  BY <1>5 DEF Term!FirstStep, IsAhead, Term!Renewals
<1>6. CASE op = "delete"
  BY <1>6 DEF Term!FirstStep, IsAhead, Term!Renewals
<1> QED
  BY <1>1, <1>2, <1>3, <1>4, <1>5, <1>6 DEF TermOps, Term!Renewals

LEMMA StoredIs ==
    ASSUME account \in RowType, NEW call \in RequestType, call.op # "resync"
    PROVE  /\ Term!Stored(call) \in RowType
           /\ Term!Stored(call).exists = (account.exists /\ call.op # "delete")
           /\ Term!Stored(call).expires = (IF Term!Extends(call.op) THEN call.after ELSE account.expires)
           /\ Term!Stored(call).limit = (IF Limits(call.op) THEN call.limit ELSE account.limit)
           /\ Term!Stored(call).status = SwitchesTo(call, account)
<1> USE DEF Term!Stored, SwitchesTo, RowType, RequestType, Term!Statuses, Term!Renewals, Term!Extends, Limits
<1>1. CASE call.op \in Term!Renewals
  BY <1>1
<1>2. CASE call.op \in {"days", "extend"}
  BY <1>2
<1>3. CASE call.op \in {"volume", "setVolume"}
  BY <1>3
<1>4. CASE call.op \in {"pause", "lock"}
  BY <1>4
<1>5. CASE call.op \in {"resume", "unlock"}
  BY <1>5
<1>6. CASE call.op = "delete"
  BY <1>6
<1> QED
  BY <1>1, <1>2, <1>3, <1>4, <1>5, <1>6 DEF TermOps

IsUnsettled(call) == Term!Paid(call.op) /\ call.pc \notin {"idle", "debit"}

\* One request moves.
LEMMA CallMoved ==
    ASSUME calls \in [Callers -> RequestType], NEW c \in Callers, NEW r \in RequestType,
           calls' = [calls EXCEPT ![c] = r]
    PROVE  /\ calls' \in [Callers -> RequestType]
           /\ calls'[c] = r /\ \A d \in Callers \ {c} : calls'[d] = calls[d]
OBVIOUS

LEMMA UnsettledCounts ==
    ASSUME IsFiniteSet(Callers), calls \in [Callers -> RequestType], NEW c \in Callers,
           NEW r \in RequestType, calls' = [calls EXCEPT ![c] = r]
    PROVE  /\ Cardinality(Term!Unsettled) \in Nat /\ Cardinality(Term!Unsettled') \in Nat
           /\ Cardinality(Term!Unsettled') =
                Cardinality(Term!Unsettled) + (IF IsUnsettled(r) THEN 1 ELSE 0)
                                            - (IF IsUnsettled(calls[c]) THEN 1 ELSE 0)
<1>1. calls'[c] = r /\ \A d \in Callers \ {c} : calls'[d] = calls[d]
  BY CallMoved
<1>2. /\ Term!Unsettled = {d \in Callers : IsUnsettled(calls[d])}
      /\ Term!Unsettled' = {d \in Callers : IsUnsettled(calls'[d])}
  BY DEF Term!Unsettled, IsUnsettled
<1>3. IsFiniteSet(Term!Unsettled) /\ IsFiniteSet(Term!Unsettled')
  BY <1>2, FS_Subset
<1>4. Cardinality(Term!Unsettled) \in Nat /\ Cardinality(Term!Unsettled') \in Nat
  BY <1>3, FS_CardinalityType
<1>5. CASE IsUnsettled(r) /\ IsUnsettled(calls[c])
  <2>1. Term!Unsettled' = Term!Unsettled
    BY <1>1, <1>2, <1>5
  <2> QED
    BY <1>4, <1>5, <2>1
<1>6. CASE IsUnsettled(r) /\ ~ IsUnsettled(calls[c])
  <2>1. Term!Unsettled' = Term!Unsettled \cup {c} /\ c \notin Term!Unsettled
    BY <1>1, <1>2, <1>6
  <2>2. Cardinality(Term!Unsettled') = Cardinality(Term!Unsettled) + 1
    BY <1>3, <2>1, FS_AddElement
  <2> QED
    BY <1>4, <1>6, <2>2
<1>7. CASE ~ IsUnsettled(r) /\ IsUnsettled(calls[c])
  <2>1. Term!Unsettled' = Term!Unsettled \ {c} /\ c \in Term!Unsettled
    BY <1>1, <1>2, <1>7
  <2>2. Cardinality(Term!Unsettled') = Cardinality(Term!Unsettled) - 1
    BY <1>3, <2>1, FS_RemoveElement
  <2> QED
    BY <1>4, <1>7, <2>2
<1>8. CASE ~ IsUnsettled(r) /\ ~ IsUnsettled(calls[c])
  <2>1. Term!Unsettled' = Term!Unsettled
    BY <1>1, <1>2, <1>8
  <2> QED
    BY <1>4, <1>8, <2>1
<1> QED
  BY <1>4, <1>5, <1>6, <1>7, <1>8

\* Who is ahead after a request moved.
LEMMA AheadAfterCall ==
    ASSUME "job" \notin Callers, calls \in [Callers -> RequestType], NEW c \in Callers,
           NEW r \in RequestType, calls' = [calls EXCEPT ![c] = r], job' = job
    PROVE  Ahead' = (Ahead \ {c}) \cup {w \in {c} : IsAhead(r)}
BY CallMoved DEF Ahead, JobAhead

LEMMA TermStepFacts ==
    ASSUME TermTyped, NEW c \in Callers
    PROVE  calls[c] \in RequestType /\ account \in RowType
BY DEF TermTyped, RowType

LEMMA TermInitOK == TermAssumptions /\ Term!Init => TermInv
<1> SUFFICES ASSUME TermAssumptions, Term!Init PROVE TermInv
  OBVIOUS
<1>1. Term!IdleCall \in RequestType
  BY DEF Term!IdleCall, RequestType, CallPcs, TermOps, Term!Statuses
<1>2. calls \in [Callers -> RequestType] /\ \A c \in Callers : calls[c] = Term!IdleCall
  BY <1>1 DEF Term!Init
<1>3. TermTyped
  <2>1. PICK v \in {0, 1} :
         /\ account = [exists |-> TRUE, status |-> "active", expires |-> 1, limit |-> v]
         /\ admin = [exists |-> TRUE, enabled |-> TRUE, limit |-> v, users |-> TRUE]
    BY DEF Term!Init
  <2>2. wallet \in Nat
    BY DEF Term!Init, TermAssumptions, Term!TermAssumption
  <2> QED
    <3>1. account \in [exists : BOOLEAN, status : Term!Statuses, expires : Nat, limit : Nat]
      BY <2>1 DEF Term!Statuses
    <3>2. admin \in PanelAdminType
      BY <2>1 DEF PanelAdminType
    <3>3. job \in [pc : TermJobPcs, now : Nat]
      BY DEF Term!Init, Term!IdleJob, TermJobPcs
    <3>4. books \in [bought : Nat, dropped : Nat, crashed : Nat, granted : Nat]
      BY DEF Term!Init
    <3> QED
      BY <1>2, <2>2, <3>1, <3>2, <3>3, <3>4 DEF Term!Init, TermTyped
<1>4. Term!BoughtOrRefunded
  <2>1. Term!Unsettled = {}
    BY <1>2 DEF Term!Unsettled, Term!IdleCall
  <2>2. WALLET \in Nat
    BY DEF TermAssumptions, Term!TermAssumption
  <2> QED
    BY <2>1, <2>2, FS_EmptySet, SameCardinality DEF Term!Init, Term!BoughtOrRefunded
<1>5. Term!PaidTermKept
  BY DEF Term!Init, Term!PaidTermKept
<1>6. CallsOK
  BY <1>2 DEF CallsOK, Fits, LimitsAlike, Term!IdleCall
<1>7. AdminGone
  BY <1>2 DEF Term!Init, AdminGone, Term!IdleCall, Term!IdleJob
<1>8. ListedOverdue
  BY DEF Term!Init, ListedOverdue, Term!IdleJob
<1>9. PanelAgrees
  <2>1. Ahead = {}
    BY <1>2 DEF Ahead, IsAhead, JobAhead, Term!Init, Term!IdleJob, Term!IdleCall
  <2> QED
    BY <2>1 DEF PanelAgrees, Agrees, Term!Init
<1> QED
  BY <1>3, <1>4, <1>5, <1>6, <1>7, <1>8, <1>9 DEF TermInv


-----------------------------------------------------------------------------
(* What a step of one request keeps.                                       *)

LEMMA CallsKept ==
    ASSUME TermTyped, CallsOK, NEW c \in Callers, NEW r \in RequestType,
           calls' = [calls EXCEPT ![c] = r], Fits(r), LimitsAlike(r, account'),
           account'.limit = 0 <=> account.limit = 0,
           ~raced' => ~raced, account'.exists => account.exists,
           \A d \in Callers \ {c} : d \notin outdated' /\ calls[d].pc # "idle" =>
               d \notin outdated /\ account' = account,
           ~raced' /\ account'.exists /\ c \notin outdated' /\ r.pc # "idle" => CopyOf(r, account')
    PROVE  CallsOK'
<1>1. calls'[c] = r /\ \A d \in Callers \ {c} : calls'[d] = calls[d]
  BY CallMoved DEF TermTyped
<1>2. \A d \in Callers : Fits(calls'[d]) /\ LimitsAlike(calls'[d], account')
  <2> SUFFICES ASSUME NEW d \in Callers PROVE Fits(calls'[d]) /\ LimitsAlike(calls'[d], account')
    OBVIOUS
  <2>1. CASE d = c
    BY <1>1, <2>1
  <2>2. CASE d # c
    BY <1>1, <2>2 DEF CallsOK, LimitsAlike
  <2> QED
    BY <2>1, <2>2
<1>3. ~raced' /\ account'.exists =>
          \A d \in Callers \ outdated' : calls'[d].pc # "idle" => CopyOf(calls'[d], account')
  <2> SUFFICES ASSUME ~raced', account'.exists, NEW d \in Callers \ outdated',
                      calls'[d].pc # "idle"
               PROVE  CopyOf(calls'[d], account')
    OBVIOUS
  <2>1. CASE d = c
    BY <1>1, <2>1
  <2>2. CASE d # c
    BY <1>1, <2>2 DEF CallsOK
  <2> QED
    BY <2>1, <2>2
<1> QED
  BY <1>2, <1>3 DEF CallsOK

\* A request that was not ahead: it stays behind and leaves the panel as it is, or comes
\* ahead with a copy that agrees with the panel.
LEMMA PanelEntered ==
    ASSUME "job" \notin Callers, TermTyped, PanelAgrees, NEW c \in Callers, NEW r \in RequestType,
           calls' = [calls EXCEPT ![c] = r],
           UNCHANGED <<job, account, panel, raced, astray>>,
           \A x \in Callers \cup {"job"} : x # c => (x \in outdated' <=> x \in outdated),
           ~ IsAhead(calls[c]),
           ~ IsAhead(r) => admin'.enabled = admin.enabled /\ admin'.limit = admin.limit,
           IsAhead(r) /\ c \notin outdated' /\ ~raced /\ account.exists /\ Agrees(account, admin) =>
               CallAgrees(r, account, admin')
    PROVE  PanelAgrees'
<1>1. calls'[c] = r /\ \A d \in Callers \ {c} : calls'[d] = calls[d]
  BY CallMoved DEF TermTyped
<1>2. Ahead' = (Ahead \ {c}) \cup {w \in {c} : IsAhead(r)}
  BY AheadAfterCall DEF TermTyped
<1>3. c \notin Ahead /\ Ahead \subseteq Callers \cup {"job"}
  BY DEF Ahead
<1> SUFFICES ASSUME panel, ~astray, account.exists
             PROVE  /\ Ahead' = {} => Agrees(account, admin')
                    /\ Ahead' \cap outdated' = {} =>
                          /\ \A d \in Callers : Ahead' = {d} =>
                                CallAgrees(calls'[d], account, admin')
                          /\ Ahead' = {"job"} => JobAgrees(job.pc, account, admin')
  BY DEF PanelAgrees
<1>4. CASE ~ IsAhead(r)
  <2>1. Ahead' = Ahead /\ (Ahead' \cap outdated' = {} => Ahead \cap outdated = {})
    BY <1>2, <1>3, <1>4
  <2>2. \A d \in Callers : Ahead = {d} => d # c /\ calls'[d] = calls[d]
    BY <1>1, <1>3
  <2>3. admin'.enabled = admin.enabled /\ admin'.limit = admin.limit
    BY <1>4
  <2>4. Agrees(account, admin) => Agrees(account, admin')
    BY <2>3 DEF Agrees
  <2>5. \A d \in Callers : CallAgrees(calls[d], account, admin) => CallAgrees(calls[d], account, admin')
    BY <2>3 DEF CallAgrees
  <2>6. JobAgrees(job.pc, account, admin) => JobAgrees(job.pc, account, admin')
    BY <2>3 DEF JobAgrees
  <2> QED
    BY <2>1, <2>2, <2>4, <2>5, <2>6 DEF PanelAgrees
<1>5. CASE IsAhead(r)
  <2>1. c \in Ahead' /\ Ahead' = Ahead \cup {c}
    BY <1>2, <1>3, <1>5
  <2>2. Ahead' # {} /\ Ahead' # {"job"}
    BY <2>1
  <2>3. ASSUME NEW d \in Callers, Ahead' = {d}, Ahead' \cap outdated' = {}
        PROVE  CallAgrees(calls'[d], account, admin')
    <3>1. d = c /\ Ahead = {} /\ c \notin outdated'
      BY <1>3, <2>1, <2>3
    <3>2. Agrees(account, admin)
      BY <3>1 DEF PanelAgrees
    <3>3. ~raced
      BY DEF TermTyped
    <3> QED
      BY <1>1, <1>5, <3>1, <3>2, <3>3
  <2> QED
    BY <2>2, <2>3
<1> QED
  BY <1>4, <1>5

\* A write makes all others outdated.
LEMMA PanelWritten ==
    ASSUME "job" \notin Callers, TermTyped, NEW c \in Callers, NEW r \in RequestType,
           calls' = [calls EXCEPT ![c] = r], job' = job, Term!MarkWrite(c), ~ IsAhead(r),
           panel' /\ ~astray' /\ account'.exists /\ Ahead \subseteq {c} => Agrees(account', admin')
    PROVE  PanelAgrees'
<1>0. Ahead' = (Ahead \ {c}) \cup {w \in {c} : IsAhead(r)}
  BY AheadAfterCall DEF TermTyped
<1>1. Ahead' = Ahead \ {c}
  BY <1>0
<1>2. Ahead' \subseteq outdated'
  <2>1. Ahead \subseteq Term!InFlight
    BY DEF Ahead, Term!InFlight, IsAhead, JobAhead
  <2> QED
    BY <1>1, <2>1 DEF Term!MarkWrite
<1>3. CASE Ahead' = {}
  BY <1>1, <1>3 DEF PanelAgrees
<1>4. CASE Ahead' # {}
  BY <1>2, <1>4 DEF PanelAgrees
<1> QED
  BY <1>3, <1>4

\* A write of another makes every copy outdated.
LEMMA WriteMarks ==
    ASSUME NEW w, Term!MarkWrite(w)
    PROVE  /\ ~raced' => ~raced /\ w \notin outdated
           /\ ~astray' => ~astray /\ w \notin outdated
           /\ (raced => astray) => (raced' => astray')
           /\ \A d \in Callers \ {w} : calls[d].pc # "idle" => d \in outdated'
           /\ w # "job" /\ job.pc # "idle" => "job" \in outdated'
           /\ w \notin outdated' /\ outdated' \subseteq Callers \cup {"job"}
BY DEF Term!MarkWrite, Term!InFlight

LEMMA GoneKept ==
    ASSUME TermTyped, AdminGone, NEW c \in Callers, NEW r \in RequestType,
           calls' = [calls EXCEPT ![c] = r], job' = job, panel' = panel,
           ~admin.exists => ~admin'.exists,
           panel /\ ~account'.exists => ~account.exists \/ ~admin'.exists,
           panel /\ r.pc = "store" /\ r.op = "delete" => ~admin'.exists
    PROVE  AdminGone'
<1>1. calls'[c] = r /\ \A d \in Callers \ {c} : calls'[d] = calls[d]
  BY CallMoved DEF TermTyped
<1> QED
  BY <1>1 DEF AdminGone

LEMMA ListKept ==
    ASSUME ListedOverdue, job' = job, clock' = clock,
           job.pc = "users" /\ "job" \notin outdated' => "job" \notin outdated /\ account' = account
    PROVE  ListedOverdue'
BY DEF ListedOverdue

\* The copies stay: the row is the same and nobody wrote.
LEMMA Behind ==
    ASSUME TermAssumptions, TermInv, NEW c \in Callers, NEW r \in RequestType,
           calls' = [calls EXCEPT ![c] = r],
           UNCHANGED <<job, clock, account, panel, raced, outdated>>, astray' \in {astray, TRUE},
           admin' \in PanelAdminType,
           wallet' \in Nat, books' \in [bought : Nat, dropped : Nat, crashed : Nat, granted : Nat],
           Fits(r), LimitsAlike(r, account), Term!BoughtOrRefunded', books'.granted = books.granted,
           ~raced /\ account.exists /\ c \notin outdated /\ r.pc # "idle" => CopyOf(r, account),
           PanelAgrees', ~admin.exists => ~admin'.exists,
           panel /\ r.pc = "store" /\ r.op = "delete" => ~admin'.exists
    PROVE  TermInv'
<1> USE DEF TermInv
<1>1. TermTyped'
  <2>1. calls' \in [Callers -> RequestType]
    BY CallMoved DEF TermTyped
  <2> QED
    BY <2>1 DEF TermTyped
<1>2. CallsOK'
  BY CallsKept
<1>3. Term!PaidTermKept'
  BY DEF Term!PaidTermKept
<1>4. AdminGone'
  BY GoneKept
<1>5. ListedOverdue'
  BY ListKept
<1> QED
  BY <1>1, <1>2, <1>3, <1>4, <1>5

-----------------------------------------------------------------------------
(* The requests.                                                           *)

LEMMA RequestKeeps ==
    \A c \in Callers : TermAssumptions /\ TermInv /\ Term!Request(c) => TermInv'
<1> SUFFICES ASSUME NEW c \in Callers, TermAssumptions, TermInv, Term!Request(c) PROVE TermInv'
  OBVIOUS
<1>0. PICK op \in Operations :
         /\ Term!Allowed(op)
         /\ calls' = [calls EXCEPT ![c] =
              [pc |-> IF Term!Paid(op) THEN "debit" ELSE Term!FirstStep(op, account.status),
               op |-> op, status |-> account.status,
               after |-> IF Term!Extends(op) THEN Term!Later(account.expires, clock) + 1
                                             ELSE account.expires,
               limit |-> IF account.limit = 0 THEN 0
                         ELSE CASE op \in Term!Renewals -> admin.limit + 1
                                [] op = "setVolume" -> account.limit + 1
                                [] OTHER -> account.limit]]
  BY DEF Term!Request
<1>1. /\ calls[c].pc = "idle" /\ account.exists /\ outdated' = outdated \ {c}
      /\ UNCHANGED <<account, panel, admin, wallet, clock, job, books, raced, astray>>
  BY DEF Term!Request
<1>2. op \in TermOps /\ account \in RowType /\ calls \in [Callers -> RequestType] /\ admin.limit \in Nat
      /\ clock \in Nat
  BY DEF TermAssumptions, Term!TermAssumption, TermOps, Term!Renewals, Term!Addons, TermInv,
     TermTyped, RowType, PanelAdminType
<1> DEFINE pc == IF Term!Paid(op) THEN "debit" ELSE Term!FirstStep(op, account.status)
           after == IF Term!Extends(op) THEN Term!Later(account.expires, clock) + 1 ELSE account.expires
           limit == IF account.limit = 0 THEN 0
                    ELSE CASE op \in Term!Renewals -> admin.limit + 1
                           [] op = "setVolume" -> account.limit + 1
                           [] OTHER -> account.limit
           r == [pc |-> pc, op |-> op, status |-> account.status, after |-> after, limit |-> limit]
<1>3. pc \in CallPcs \ {"idle"} /\ (~ Term!Paid(op) => pc = Term!FirstStep(op, account.status))
  <2>1. Term!FirstStep(op, account.status) \in CallPcs \ {"idle"}
    <3>1. CASE op \in Term!Renewals
      BY <1>2, <3>1 DEF Term!FirstStep, Term!AfterModify, CallPcs, Term!Renewals
    <3>2. CASE op \in {"days", "extend"}
      BY <3>2 DEF Term!FirstStep, CallPcs, Term!Renewals
    <3>3. CASE op \in {"volume", "setVolume", "resync"}
      BY <3>3 DEF Term!FirstStep, CallPcs, Term!Renewals
    <3>4. CASE op \in {"pause", "lock", "resume", "unlock", "delete"}
      BY <3>4 DEF Term!FirstStep, CallPcs, Term!Renewals
    <3> QED
      BY <1>2, <3>1, <3>2, <3>3, <3>4 DEF TermOps, Term!Renewals
  <2> QED
    BY <2>1 DEF CallPcs
<1>4. after \in Nat /\ (Term!Extends(op) => after >= account.expires + 1)
  BY <1>2 DEF Term!Later, RowType
<1>5. /\ limit \in Nat /\ (limit = 0 <=> account.limit = 0)
      /\ op = "resync" => limit = account.limit
  <2>1. account.limit \in Nat
    BY <1>2 DEF RowType
  <2>2. CASE account.limit = 0
    <3>1. limit = 0
      BY <2>2
    <3> QED
      BY <2>2, <3>1
  <2>3. CASE account.limit # 0 /\ op \in Term!Renewals
    <3>1. limit = admin.limit + 1 /\ op # "resync"
      BY <2>3 DEF Term!Renewals
    <3> QED
      BY <1>2, <2>3, <3>1
  <2>4. CASE account.limit # 0 /\ op = "setVolume"
    <3>1. limit = account.limit + 1
      BY <2>4 DEF Term!Renewals
    <3> QED
      BY <2>1, <2>4, <3>1
  <2>5. CASE account.limit # 0 /\ op \notin Term!Renewals \cup {"setVolume"}
    <3>1. limit = account.limit
      BY <2>5
    <3> QED
      BY <2>1, <2>5, <3>1
  <2> QED
    BY <2>2, <2>3, <2>4, <2>5
<1>6. calls' = [calls EXCEPT ![c] = r]
  BY <1>0
<1> HIDE DEF pc, after, limit
<1>7. r \in RequestType /\ account.status \in Term!Statuses
  BY <1>2, <1>3, <1>4, <1>5 DEF RequestType, RowType
<1>8. /\ r.pc = pc /\ r.op = op /\ r.status = account.status /\ r.after = after
      /\ r.limit = limit
  OBVIOUS
<1> HIDE DEF r
<1>9. Fits(r) /\ LimitsAlike(r, account)
  <2>0. op = "volume" => r.limit # 0
    BY <1>0, <1>2, <1>5, <1>8 DEF Term!Allowed, RowType
  <2>1. CASE Term!Paid(op)
    <3>1. pc = "debit" /\ op # "delete"
      BY <2>1 DEF pc, Term!Paid, Term!Renewals, Term!Addons
    <3> QED
      BY <1>5, <1>8, <2>0, <2>1, <3>1 DEF Fits, LimitsAlike
  <2>2. CASE ~ Term!Paid(op)
    <3>1. r.limit = 0 <=> account.limit = 0
      BY <1>5, <1>8
    <3> QED
      BY <1>2, <1>3, <1>7, <1>8, <2>0, <2>2, <3>1, FirstStepFits DEF LimitsAlike
  <2> QED
    BY <2>1, <2>2
<1>10. CopyOf(r, account)
  BY <1>4, <1>5, <1>8 DEF CopyOf
<1>11. Term!BoughtOrRefunded'
  <2>1. ~ IsUnsettled(r) /\ ~ IsUnsettled(calls[c])
    BY <1>1, <1>8 DEF IsUnsettled, pc
  <2>2. Cardinality(Term!Unsettled') = Cardinality(Term!Unsettled)
    <3>1. IsFiniteSet(Callers)
      BY DEF TermAssumptions
    <3>2. /\ Cardinality(Term!Unsettled) \in Nat
          /\ Cardinality(Term!Unsettled') =
               Cardinality(Term!Unsettled) + (IF IsUnsettled(r) THEN 1 ELSE 0)
                                           - (IF IsUnsettled(calls[c]) THEN 1 ELSE 0)
      BY <1>2, <1>6, <1>7, <3>1, UnsettledCounts
    <3> QED
      BY <2>1, <3>2
  <2> QED
    BY <1>1, <2>2, SameCardinality DEF Term!BoughtOrRefunded, TermInv
<1>12. PanelAgrees'
  <2>1. ~ IsAhead(calls[c])
    BY <1>1 DEF IsAhead
  <2>2. ASSUME IsAhead(r), Agrees(account, admin) PROVE CallAgrees(r, account, admin')
    <3>1. ~ Term!Paid(op) \/ pc = "debit"
      BY DEF pc
    <3>2. ~ Term!Paid(op)
      BY <1>8, <2>2, <3>1 DEF IsAhead, pc
    <3>3. /\ r.pc = "store"
          /\ \/ op \in Term!Renewals /\ account.status = "admin_paused" /\ account.limit = 0
             \/ op \in {"days", "extend"} /\ account.status # "expired"
      BY <1>2, <1>3, <1>5, <1>7, <1>8, <2>2, <3>2, FirstStepAhead
    <3>4. op \in {"days", "extend"} /\ account.status # "expired"
      BY <3>2, <3>3 DEF Term!Paid
    <3> QED
      BY <1>1, <1>8, <2>2, <3>3, <3>4 DEF CallAgrees, Agrees, SwitchesTo, Limits, Term!Renewals
  <2> QED
    BY <1>1, <1>6, <1>7, <2>1, <2>2, PanelEntered DEF TermAssumptions, TermInv
<1>13. TermTyped'
  BY <1>1, <1>6, <1>7, CallMoved DEF TermTyped, TermInv
<1>14. CallsOK'
  BY <1>1, <1>6, <1>7, <1>9, <1>10, CallsKept DEF TermInv
<1>15. Term!PaidTermKept'
  BY <1>1 DEF Term!PaidTermKept, TermInv
<1>16. AdminGone'
  <2>1. ~ (r.pc = "store" /\ r.op = "delete")
    <3>1. CASE op = "delete"
      BY <1>3, <1>8, <3>1 DEF Term!FirstStep, Term!Paid, Term!Renewals, Term!Addons
    <3> QED
      BY <1>8, <3>1
  <2> QED
    BY <1>1, <1>6, <1>7, <2>1, GoneKept DEF TermInv
<1>17. ListedOverdue'
  <2>1. "job" # c
    BY DEF TermAssumptions
  <2> QED
    BY <1>1, <2>1, ListKept DEF TermInv
<1> QED
  BY <1>11, <1>12, <1>13, <1>14, <1>15, <1>16, <1>17 DEF TermInv

Spent(call) == IF IsUnsettled(call) THEN 1 ELSE 0

LEMMA UnsettledMoves ==
    ASSUME TermAssumptions, TermTyped, Term!BoughtOrRefunded, NEW c \in Callers, NEW r \in RequestType,
           calls' = [calls EXCEPT ![c] = r],
           wallet' \in Nat, books' \in [bought : Nat, dropped : Nat, crashed : Nat, granted : Nat],
           wallet' + books'.bought + books'.dropped + books'.crashed + Spent(r) =
               wallet + books.bought + books.dropped + books.crashed + Spent(calls[c])
    PROVE  Term!BoughtOrRefunded'
<1>1. IsFiniteSet(Callers) /\ calls \in [Callers -> RequestType]
  BY DEF TermAssumptions, TermTyped
<1>2. /\ Cardinality(Term!Unsettled) \in Nat /\ Cardinality(Term!Unsettled') \in Nat
      /\ Cardinality(Term!Unsettled') =
           Cardinality(Term!Unsettled) + (IF IsUnsettled(r) THEN 1 ELSE 0)
                                       - (IF IsUnsettled(calls[c]) THEN 1 ELSE 0)
  BY <1>1, UnsettledCounts
<1>3. /\ wallet \in Nat /\ books.bought \in Nat /\ books.dropped \in Nat /\ books.crashed \in Nat
      /\ books'.bought \in Nat /\ books'.dropped \in Nat /\ books'.crashed \in Nat
  BY DEF TermTyped
<1>4. wallet + books.bought + books.dropped + books.crashed + Cardinality(Term!Unsettled) = WALLET
  BY SameCardinality DEF Term!BoughtOrRefunded
<1>5. wallet' + books'.bought + books'.dropped + books'.crashed + Cardinality(Term!Unsettled') = WALLET
  <2> DEFINE m == IF IsUnsettled(r) THEN 1 ELSE 0
             n == IF IsUnsettled(calls[c]) THEN 1 ELSE 0
  <2>1. m \in Nat /\ n \in Nat
    OBVIOUS
  <2>2. /\ Cardinality(Term!Unsettled') = Cardinality(Term!Unsettled) + m - n
        /\ wallet' + books'.bought + books'.dropped + books'.crashed + m =
             wallet + books.bought + books.dropped + books.crashed + n
    BY <1>2 DEF Spent
  <2> HIDE DEF m, n
  <2> QED
    BY <1>2, <1>3, <1>4, <2>1, <2>2
<1> QED
  BY <1>5, SameCardinality DEF Term!BoughtOrRefunded

\* What a moved request is: its copy is taken along.
LEMMA GoesTo ==
    ASSUME calls \in [Callers -> RequestType], NEW c \in Callers, NEW pc \in CallPcs,
           calls' = [calls EXCEPT ![c].pc = pc]
    PROVE  \E r \in RequestType :
              /\ calls' = [calls EXCEPT ![c] = r]
              /\ r.pc = pc /\ r.op = calls[c].op /\ r.status = calls[c].status
              /\ r.after = calls[c].after /\ r.limit = calls[c].limit
<1> DEFINE r == [calls[c] EXCEPT !.pc = pc]
<1>1. r \in RequestType /\ calls[c] \in RequestType
  BY DEF RequestType
<1>2. calls' = [calls EXCEPT ![c] = r]
  BY <1>1 DEF RequestType
<1>3. /\ r.pc = pc /\ r.op = calls[c].op /\ r.status = calls[c].status
      /\ r.after = calls[c].after /\ r.limit = calls[c].limit
  BY <1>1 DEF RequestType
<1> HIDE DEF r
<1> QED
  BY <1>1, <1>2, <1>3

LEMMA IdleIs ==
    /\ Term!IdleCall \in RequestType /\ Fits(Term!IdleCall) /\ ~ IsAhead(Term!IdleCall) /\ ~ IsUnsettled(Term!IdleCall)
    /\ \A row : LimitsAlike(Term!IdleCall, row)
    /\ Term!IdleCall.pc = "idle"
BY DEF Term!IdleCall, RequestType, CallPcs, TermOps, Term!Statuses, Fits, IsAhead, IsUnsettled,
   LimitsAlike

LEMMA DebitKeeps == \A c \in Callers : TermAssumptions /\ TermInv /\ Term!Debit(c) => TermInv'
<1> SUFFICES ASSUME NEW c \in Callers, TermAssumptions, TermInv, Term!Debit(c) PROVE TermInv'
  OBVIOUS
<1>1. /\ calls[c].pc = "debit" /\ calls[c] \in RequestType /\ Fits(calls[c])
      /\ LimitsAlike(calls[c], account) /\ Term!Paid(calls[c].op)
      /\ calls \in [Callers -> RequestType] /\ TermTyped /\ wallet \in Nat
      /\ admin.limit \in Nat /\ account \in RowType
      /\ UNCHANGED <<account, panel, admin, clock, job, books, raced, astray, outdated>>
  BY DEF Term!Debit, TermInv, TermTyped, CallsOK, Fits, RowType, PanelAdminType, Term!marks
<1>2. ~ IsAhead(calls[c]) /\ ~ IsUnsettled(calls[c])
  BY <1>1 DEF IsAhead, IsUnsettled
<1>3. CASE wallet = 0
  <2>1. calls' = [calls EXCEPT ![c] = Term!IdleCall] /\ wallet' = wallet
    BY <1>3 DEF Term!Debit, Term!Finished
  <2>2. Term!BoughtOrRefunded'
    <3>1. Spent(Term!IdleCall) = Spent(calls[c])
      BY <1>2, IdleIs DEF Spent
    <3>2. wallet' + books'.bought + books'.dropped + books'.crashed + Spent(Term!IdleCall) =
            wallet + books.bought + books.dropped + books.crashed + Spent(calls[c])
      BY <1>1, <2>1, <3>1
    <3>3. wallet' \in Nat /\ books' \in [bought : Nat, dropped : Nat, crashed : Nat, granted : Nat]
      BY <1>1, <2>1 DEF TermTyped
    <3> QED
      BY <1>1, <2>1, <3>2, <3>3, IdleIs, UnsettledMoves DEF TermInv
  <2>3. PanelAgrees'
    BY <1>1, <1>2, <2>1, IdleIs, PanelEntered DEF TermAssumptions, TermInv
  <2> QED
    BY <1>1, <2>1, <2>2, <2>3, IdleIs, Behind DEF TermTyped
<1>4. CASE wallet # 0
  <2> DEFINE op == calls[c].op
             pc == Term!FirstStep(op, calls[c].status)
             limit == IF op = "volume" THEN admin.limit + 1 ELSE calls[c].limit
             r == [calls[c] EXCEPT !.pc = pc, !.limit = limit]
  <2>1. wallet' = wallet - 1 /\ wallet' \in Nat
    BY <1>1, <1>4 DEF Term!Debit
  <2>2. pc \in CallPcs \ {"idle", "debit"}
    <3>1. CASE op \in Term!Renewals
      BY <3>1 DEF Term!FirstStep, Term!AfterModify, CallPcs, Term!Renewals
    <3>2. CASE op \in Term!Addons
      BY <3>2 DEF Term!FirstStep, CallPcs, Term!Renewals, Term!Addons
    <3> QED
      BY <1>1, <3>1, <3>2 DEF Term!Paid
  <2>3. limit \in Nat /\ (limit = 0 <=> account.limit = 0)
    <3>1. calls[c].limit \in Nat /\ (calls[c].limit = 0 <=> account.limit = 0)
      BY <1>1 DEF RequestType, LimitsAlike
    <3>2. CASE op = "volume"
      <4>1. account.limit # 0
        BY <1>1, <3>1, <3>2 DEF Fits
      <4> QED
        BY <1>1, <3>2, <4>1
    <3> QED
      BY <3>1, <3>2
  <2>4. calls' = [calls EXCEPT ![c] = r]
    <3>1. calls' = [calls EXCEPT ![c].pc = pc, ![c].limit = IF op = "volume" THEN admin.limit + 1 ELSE @]
      BY <1>4 DEF Term!Debit
    <3> QED
      BY <1>1, <3>1 DEF RequestType
  <2>5. r \in RequestType
    BY <1>1, <2>2, <2>3 DEF RequestType
  <2>6. /\ r.pc = pc /\ r.op = op /\ r.status = calls[c].status /\ r.after = calls[c].after
        /\ r.limit = limit /\ op \in TermOps /\ calls[c].status \in Term!Statuses
    BY <1>1 DEF RequestType
  <2>7. op # "resync" /\ op # "delete"
    BY <1>1 DEF Term!Paid, Term!Renewals, Term!Addons
  <2> HIDE DEF r, limit
  <2>8. Fits(r) /\ LimitsAlike(r, account)
    <3>1. op = "volume" => r.limit # 0
      BY <1>1, <2>6 DEF limit
    <3> QED
      BY <1>1, <2>3, <2>5, <2>6, <3>1, FirstStepFits DEF LimitsAlike
  <2>9. Term!BoughtOrRefunded'
    <3>1. IsUnsettled(r)
      BY <1>1, <2>2, <2>6 DEF IsUnsettled
    <3> QED
      <4>1. Spent(r) = 1 /\ Spent(calls[c]) = 0
        BY <1>2, <3>1 DEF Spent
      <4>2. /\ books.bought \in Nat /\ books.dropped \in Nat /\ books.crashed \in Nat
            /\ books' = books
        BY <1>1 DEF TermTyped
      <4>3. wallet' + books'.bought + books'.dropped + books'.crashed + Spent(r) =
              wallet + books.bought + books.dropped + books.crashed + Spent(calls[c])
        BY <1>1, <2>1, <4>1, <4>2
      <4> QED
        BY <1>1, <2>1, <2>4, <2>5, <4>3, UnsettledMoves DEF TermInv, TermTyped
  <2>10. ~raced /\ account.exists /\ c \notin outdated => CopyOf(r, account)
    BY <1>1, <2>6, <2>7 DEF TermInv, CallsOK, CopyOf
  <2>11. PanelAgrees'
    <3>1. ASSUME IsAhead(r), c \notin outdated, ~raced, account.exists, Agrees(account, admin)
          PROVE  CallAgrees(r, account, admin')
      <4>1. /\ r.pc = "store"
            /\ \/ op \in Term!Renewals /\ r.status = "admin_paused" /\ account.limit = 0
               \/ op \in {"days", "extend"} /\ r.status # "expired"
        BY <1>1, <2>3, <2>5, <2>6, <3>1, FirstStepAhead
      <4>2. r.status = account.status
        BY <2>10, <3>1 DEF CopyOf
      <4>3. CASE op \in Term!Renewals
        <5>1. r.limit = 0 /\ account.limit = 0 /\ r.status = "admin_paused"
          BY <2>3, <2>6, <4>1, <4>3 DEF Term!Renewals
        <5> QED
          BY <1>1, <2>6, <2>7, <3>1, <4>1, <4>2, <4>3, <5>1
          DEF CallAgrees, Agrees, SwitchesTo, Limits, Term!Renewals
      <4>4. CASE op \in {"days", "extend"}
        BY <1>1, <2>6, <2>7, <3>1, <4>1, <4>2, <4>4
        DEF CallAgrees, Agrees, SwitchesTo, Limits, Term!Renewals
      <4> QED
        BY <4>1, <4>3, <4>4
    <3> QED
      BY <1>1, <1>2, <2>4, <2>5, <3>1, PanelEntered DEF TermAssumptions, TermInv
  <2> QED
    BY <1>1, <2>1, <2>4, <2>5, <2>6, <2>7, <2>8, <2>9, <2>10, <2>11, Behind
    DEF TermTyped
<1> QED
  BY <1>3, <1>4

\* What a call of the panel does.
LEMMA OnPanelIs ==
    ASSUME TermTyped, NEW c \in Callers,
           calls[c].pc \in {"modify", "activate", "disable", "purge", "remove"}
    PROVE  /\ Term!OnPanel(calls[c]) \in PanelAdminType
           /\ ~admin.exists => ~Term!OnPanel(calls[c]).exists
           /\ calls[c].pc = "modify" => Term!OnPanel(calls[c]) = [admin EXCEPT !.limit = calls[c].limit]
           /\ calls[c].pc \in {"activate", "disable"} =>
                  Term!OnPanel(calls[c]) = [admin EXCEPT !.enabled = (calls[c].pc = "activate")]
           /\ calls[c].pc = "purge" => Term!OnPanel(calls[c]) = [admin EXCEPT !.users = FALSE]
           /\ calls[c].pc = "remove" =>
                  Term!OnPanel(calls[c]) = [admin EXCEPT !.exists = FALSE, !.enabled = FALSE]
<1>1. admin \in PanelAdminType /\ calls[c].limit \in Nat
  BY DEF TermTyped, RequestType
<1>2. CASE calls[c].pc = "modify"
  BY <1>1, <1>2 DEF Term!OnPanel, PanelAdminType
<1>3. CASE calls[c].pc = "activate"
  BY <1>1, <1>3 DEF Term!OnPanel, PanelAdminType
<1>4. CASE calls[c].pc = "disable"
  BY <1>1, <1>4 DEF Term!OnPanel, PanelAdminType
<1>5. CASE calls[c].pc = "purge"
  BY <1>1, <1>5 DEF Term!OnPanel, PanelAdminType
<1>6. CASE calls[c].pc = "remove"
  BY <1>1, <1>6 DEF Term!OnPanel, PanelAdminType
<1> QED
  BY <1>2, <1>3, <1>4, <1>5, <1>6

\* A request that fails gives back what it took; what its call did is not written down.
LEMMA PanelFailsKeeps == \A c \in Callers : TermAssumptions /\ TermInv /\ Term!PanelFails(c) => TermInv'
<1> SUFFICES ASSUME NEW c \in Callers, TermAssumptions, TermInv, Term!PanelFails(c) PROVE TermInv'
  OBVIOUS
<1>1. /\ calls[c].pc \in {"modify", "activate", "disable", "purge", "remove"}
      /\ calls[c].pc = "activate" => calls[c].op \notin Term!Renewals
      /\ wallet' = wallet + IF Term!Paid(calls[c].op) THEN 1 ELSE 0
      /\ calls' = [calls EXCEPT ![c] = Term!IdleCall]
      /\ UNCHANGED <<account, panel, clock, job, books, raced, outdated>>
      /\ \/ UNCHANGED <<admin, astray>>
         \/ astray' = TRUE /\ admin' = Term!OnPanel(calls[c])
  BY DEF Term!PanelFails, Term!RaisesAfter, Term!GoApart, Term!Refund, Term!Finished, Term!marks
<1>2. /\ calls \in [Callers -> RequestType] /\ TermTyped /\ wallet \in Nat /\ wallet' \in Nat
  BY <1>1 DEF TermInv, TermTyped
<1>3. ~ IsAhead(calls[c]) /\ (IsUnsettled(calls[c]) <=> Term!Paid(calls[c].op))
  BY <1>1 DEF IsAhead, IsUnsettled
<1>4. Term!BoughtOrRefunded'
  <2>1. Spent(Term!IdleCall) = 0 /\ Spent(calls[c]) = (IF Term!Paid(calls[c].op) THEN 1 ELSE 0)
    BY <1>3, IdleIs DEF Spent
  <2>2. /\ books.bought \in Nat /\ books.dropped \in Nat /\ books.crashed \in Nat
        /\ books' = books
    BY <1>1, <1>2 DEF TermTyped
  <2>3. wallet' + books'.bought + books'.dropped + books'.crashed + Spent(Term!IdleCall) =
          wallet + books.bought + books.dropped + books.crashed + Spent(calls[c])
    BY <1>1, <1>2, <2>1, <2>2
  <2> QED
    BY <1>1, <1>2, <2>3, IdleIs, UnsettledMoves DEF TermInv, TermTyped
<1>5. PanelAgrees'
  <2>1. CASE UNCHANGED <<admin, astray>>
    BY <1>1, <1>2, <1>3, <2>1, IdleIs, PanelEntered DEF TermAssumptions, TermInv
  <2>2. CASE astray' = TRUE
    BY <2>2 DEF PanelAgrees
  <2> QED
    BY <1>1, <2>1, <2>2
<1>6. /\ admin' \in PanelAdminType /\ (~admin.exists => ~admin'.exists)
      /\ astray' \in {astray, TRUE}
      /\ books' \in [bought : Nat, dropped : Nat, crashed : Nat, granted : Nat]
  <2>1. /\ admin \in PanelAdminType /\ astray \in BOOLEAN
        /\ books \in [bought : Nat, dropped : Nat, crashed : Nat, granted : Nat]
    BY <1>2 DEF TermTyped
  <2>2. Term!OnPanel(calls[c]) \in PanelAdminType /\ (~admin.exists => ~Term!OnPanel(calls[c]).exists)
    BY <1>1, <1>2, OnPanelIs
  <2>3. (UNCHANGED <<admin, astray>> \/ (astray' = TRUE /\ admin' = Term!OnPanel(calls[c]))) /\ books' = books
    BY <1>1
  <2> QED
    BY <2>1, <2>2, <2>3
<1> QED
  BY <1>1, <1>2, <1>4, <1>5, <1>6, IdleIs, Behind

LEMMA PurgeKeeps == \A c \in Callers : TermAssumptions /\ TermInv /\ Term!Purge(c) => TermInv'
<1> SUFFICES ASSUME NEW c \in Callers, TermAssumptions, TermInv, Term!Purge(c) PROVE TermInv'
  OBVIOUS
<1>1. /\ calls[c].pc = "purge" /\ admin' = [admin EXCEPT !.users = FALSE]
      /\ calls' = [calls EXCEPT ![c].pc = "remove"]
      /\ UNCHANGED <<account, panel, wallet, clock, job, books, raced, astray, outdated>>
  BY OnPanelIs DEF Term!Purge, Term!Goes, Term!marks, TermInv
<1>2. /\ calls \in [Callers -> RequestType] /\ TermTyped /\ wallet \in Nat /\ Fits(calls[c])
      /\ LimitsAlike(calls[c], account) /\ "remove" \in CallPcs
  BY DEF TermInv, TermTyped, CallsOK, CallPcs
<1>3. PICK r \in RequestType :
         /\ calls' = [calls EXCEPT ![c] = r]
         /\ r.pc = "remove" /\ r.op = calls[c].op /\ r.status = calls[c].status
         /\ r.after = calls[c].after /\ r.limit = calls[c].limit
  BY <1>1, <1>2, GoesTo
<1>4. /\ admin' \in PanelAdminType
      /\ admin'.enabled = admin.enabled /\ admin'.limit = admin.limit
      /\ admin'.exists = admin.exists
  BY <1>1 DEF TermInv, TermTyped, PanelAdminType
<1>5. Fits(r) /\ LimitsAlike(r, account)
  BY <1>1, <1>2, <1>3 DEF Fits, LimitsAlike
<1>6. Term!BoughtOrRefunded'
  <2>1. IsUnsettled(r) <=> IsUnsettled(calls[c])
    BY <1>1, <1>3 DEF IsUnsettled
  <2>2. Spent(r) = Spent(calls[c])
    BY <2>1 DEF Spent
  <2>3. wallet' + books'.bought + books'.dropped + books'.crashed + Spent(r) =
          wallet + books.bought + books.dropped + books.crashed + Spent(calls[c])
    BY <1>1, <2>2
  <2>4. wallet' \in Nat /\ books' \in [bought : Nat, dropped : Nat, crashed : Nat, granted : Nat]
    BY <1>1, <1>2 DEF TermTyped
  <2> QED
    BY <1>2, <1>3, <2>3, <2>4, UnsettledMoves DEF TermInv
<1>7. PanelAgrees'
  <2>1. ~ IsAhead(calls[c]) /\ ~ IsAhead(r)
    BY <1>1, <1>3 DEF IsAhead
  <2> QED
    BY <1>1, <1>2, <1>3, <1>4, <2>1, PanelEntered DEF TermAssumptions, TermInv
<1>8. ~raced /\ account.exists /\ c \notin outdated => CopyOf(r, account)
  BY <1>1, <1>3 DEF TermInv, CallsOK, CopyOf
<1> QED
  BY <1>1, <1>2, <1>3, <1>4, <1>5, <1>6, <1>7, <1>8, Behind DEF TermTyped

\* Nothing is said of a panel the bot no longer has.
LEMMA PurgeWithoutPanelKeeps == \A c \in Callers : TermAssumptions /\ TermInv /\ Term!PurgeWithoutPanel(c) => TermInv'
<1> SUFFICES ASSUME NEW c \in Callers, TermAssumptions, TermInv, Term!PurgeWithoutPanel(c) PROVE TermInv'
  OBVIOUS
<1>1. /\ calls[c].pc = "purge" /\ ~panel
      /\ calls' = [calls EXCEPT ![c].pc = "store"]
      /\ UNCHANGED <<account, panel, admin, wallet, clock, job, books, raced, astray, outdated>>
  BY DEF Term!PurgeWithoutPanel, Term!Goes, Term!marks
<1>2. /\ calls \in [Callers -> RequestType] /\ TermTyped /\ wallet \in Nat /\ Fits(calls[c])
      /\ LimitsAlike(calls[c], account) /\ "store" \in CallPcs
  BY DEF TermInv, TermTyped, CallsOK, CallPcs
<1>3. PICK r \in RequestType :
         /\ calls' = [calls EXCEPT ![c] = r]
         /\ r.pc = "store" /\ r.op = calls[c].op /\ r.status = calls[c].status
         /\ r.after = calls[c].after /\ r.limit = calls[c].limit
  BY <1>1, <1>2, GoesTo
<1>4. /\ admin' \in PanelAdminType
      /\ admin'.enabled = admin.enabled /\ admin'.limit = admin.limit
      /\ admin'.exists = admin.exists
  BY <1>1 DEF TermInv, TermTyped, PanelAdminType
<1>5. Fits(r) /\ LimitsAlike(r, account)
  BY <1>1, <1>2, <1>3 DEF Fits, LimitsAlike
<1>6. Term!BoughtOrRefunded'
  <2>1. IsUnsettled(r) <=> IsUnsettled(calls[c])
    BY <1>1, <1>3 DEF IsUnsettled
  <2>2. Spent(r) = Spent(calls[c])
    BY <2>1 DEF Spent
  <2>3. wallet' + books'.bought + books'.dropped + books'.crashed + Spent(r) =
          wallet + books.bought + books.dropped + books.crashed + Spent(calls[c])
    BY <1>1, <2>2
  <2>4. wallet' \in Nat /\ books' \in [bought : Nat, dropped : Nat, crashed : Nat, granted : Nat]
    BY <1>1, <1>2 DEF TermTyped
  <2> QED
    BY <1>2, <1>3, <2>3, <2>4, UnsettledMoves DEF TermInv
<1>7. PanelAgrees'
  BY <1>1 DEF PanelAgrees
<1>8. ~raced /\ account.exists /\ c \notin outdated => CopyOf(r, account)
  BY <1>1, <1>3 DEF TermInv, CallsOK, CopyOf
<1> QED
  BY <1>1, <1>2, <1>3, <1>4, <1>5, <1>6, <1>7, <1>8, Behind DEF TermTyped

LEMMA RemoveKeeps == \A c \in Callers : TermAssumptions /\ TermInv /\ Term!Remove(c) => TermInv'
<1> SUFFICES ASSUME NEW c \in Callers, TermAssumptions, TermInv, Term!Remove(c) PROVE TermInv'
  OBVIOUS
<1>1. /\ calls[c].pc = "remove" /\ admin' = [admin EXCEPT !.exists = FALSE, !.enabled = FALSE]
      /\ calls' = [calls EXCEPT ![c].pc = "store"]
      /\ UNCHANGED <<account, panel, wallet, clock, job, books, raced, astray, outdated>>
  BY OnPanelIs DEF Term!Remove, Term!Goes, Term!marks, TermInv
<1>2. /\ calls \in [Callers -> RequestType] /\ TermTyped /\ wallet \in Nat /\ Fits(calls[c])
      /\ LimitsAlike(calls[c], account) /\ "store" \in CallPcs /\ calls[c].op = "delete"
  BY <1>1 DEF TermInv, TermTyped, CallsOK, CallPcs, Fits
<1>3. PICK r \in RequestType :
         /\ calls' = [calls EXCEPT ![c] = r]
         /\ r.pc = "store" /\ r.op = calls[c].op /\ r.status = calls[c].status
         /\ r.after = calls[c].after /\ r.limit = calls[c].limit
  BY <1>1, <1>2, GoesTo
<1>4. /\ admin' \in PanelAdminType
      /\ ~admin'.exists
  BY <1>1 DEF TermInv, TermTyped, PanelAdminType
<1>5. Fits(r) /\ LimitsAlike(r, account)
  BY <1>1, <1>2, <1>3 DEF Fits, LimitsAlike
<1>6. Term!BoughtOrRefunded'
  <2>1. IsUnsettled(r) <=> IsUnsettled(calls[c])
    BY <1>1, <1>3 DEF IsUnsettled
  <2>2. Spent(r) = Spent(calls[c])
    BY <2>1 DEF Spent
  <2>3. wallet' + books'.bought + books'.dropped + books'.crashed + Spent(r) =
          wallet + books.bought + books.dropped + books.crashed + Spent(calls[c])
    BY <1>1, <2>2
  <2>4. wallet' \in Nat /\ books' \in [bought : Nat, dropped : Nat, crashed : Nat, granted : Nat]
    BY <1>1, <1>2 DEF TermTyped
  <2> QED
    BY <1>2, <1>3, <2>3, <2>4, UnsettledMoves DEF TermInv
<1>7. PanelAgrees'
  <2>1. ~ IsAhead(calls[c]) /\ IsAhead(r) /\ CallAgrees(r, account, admin')
    BY <1>1, <1>2, <1>3 DEF IsAhead, CallAgrees
  <2> QED
    BY <1>1, <1>2, <1>3, <2>1, PanelEntered DEF TermAssumptions, TermInv
<1>8. ~raced /\ account.exists /\ c \notin outdated => CopyOf(r, account)
  BY <1>1, <1>3 DEF TermInv, CallsOK, CopyOf
<1> QED
  BY <1>1, <1>2, <1>3, <1>4, <1>5, <1>6, <1>7, <1>8, Behind DEF TermTyped

\* A request that is ahead and stays so.
LEMMA PanelStays ==
    ASSUME "job" \notin Callers, TermTyped, PanelAgrees, NEW c \in Callers, NEW r \in RequestType,
           calls' = [calls EXCEPT ![c] = r], UNCHANGED <<job, account, panel, astray, outdated>>,
           IsAhead(calls[c]), IsAhead(r),
           CallAgrees(calls[c], account, admin) => CallAgrees(r, account, admin')
    PROVE  PanelAgrees'
<1>1. calls'[c] = r
  BY CallMoved DEF TermTyped
<1>2. Ahead' = (Ahead \ {c}) \cup {w \in {c} : IsAhead(r)}
  BY AheadAfterCall DEF TermTyped
<1>3. c \in Ahead
  BY DEF Ahead
<1>4. Ahead' = Ahead
  BY <1>2, <1>3
<1>5. ASSUME NEW d \in Callers, Ahead = {d}, panel, ~astray, account.exists, Ahead \cap outdated = {}
      PROVE  CallAgrees(calls'[d], account', admin')
  <2>1. d = c
    BY <1>3, <1>5
  <2>2. CallAgrees(calls[c], account, admin)
    BY <1>5, <2>1 DEF PanelAgrees
  <2> QED
    BY <1>1, <2>1, <2>2
<1>6. Ahead # {} /\ Ahead # {"job"}
  BY <1>3
<1> QED
  BY <1>4, <1>5, <1>6 DEF PanelAgrees

\* A write of the row, or of what the panel follows.
LEMMA Written ==
    ASSUME TermAssumptions, TermInv, NEW c \in Callers, NEW r \in RequestType,
           calls' = [calls EXCEPT ![c] = r], UNCHANGED <<job, clock, panel>>, Term!MarkWrite(c),
           account' \in RowType, account'.exists => account.exists,
           account'.limit = 0 <=> account.limit = 0,
           admin' \in PanelAdminType,
           wallet' \in Nat, books' \in [bought : Nat, dropped : Nat, crashed : Nat, granted : Nat],
           Fits(r), LimitsAlike(r, account'), ~ IsAhead(r), Term!BoughtOrRefunded', Term!PaidTermKept',
           ~raced' /\ account'.exists /\ r.pc # "idle" => CopyOf(r, account'),
           panel /\ ~astray' /\ account'.exists /\ Ahead \subseteq {c} => Agrees(account', admin'),
           ~admin.exists => ~admin'.exists,
           panel /\ ~account'.exists => ~account.exists \/ ~admin'.exists
    PROVE  TermInv'
<1> USE DEF TermInv
<1>1. "job" \notin Callers /\ "job" # c
  BY DEF TermAssumptions
<1>2. /\ ~raced' => ~raced /\ c \notin outdated
      /\ \A d \in Callers \ {c} : calls[d].pc # "idle" => d \in outdated'
      /\ job.pc # "idle" => "job" \in outdated'
      /\ outdated' \subseteq Callers \cup {"job"}
  BY <1>1, WriteMarks
<1>3. TermTyped'
  <2>1. calls' \in [Callers -> RequestType]
    BY CallMoved DEF TermTyped
  <2>2. {raced', astray'} \subseteq BOOLEAN /\ (raced' => astray')
    BY DEF Term!MarkWrite, TermTyped
  <2> QED
    BY <1>2, <2>1, <2>2 DEF TermTyped, RowType
<1>4. CallsOK'
  BY <1>2, CallsKept
<1>5. AdminGone'
  BY GoneKept DEF IsAhead
<1>6. ListedOverdue'
  BY <1>2, ListKept
<1>7. PanelAgrees'
  BY <1>1, PanelWritten
<1> QED
  BY <1>3, <1>4, <1>5, <1>6, <1>7

\* A step that leaves the panel behind the row: nothing is said of them any more.
LEMMA LeftBehind ==
    ASSUME TermAssumptions, TermInv, NEW c \in Callers, NEW r \in RequestType,
           calls' = [calls EXCEPT ![c] = r], astray' = TRUE,
           UNCHANGED <<job, clock, account, panel, admin, raced, outdated>>,
           wallet' \in Nat, books' \in [bought : Nat, dropped : Nat, crashed : Nat, granted : Nat],
           books'.granted = books.granted,
           Fits(r), LimitsAlike(r, account), Term!BoughtOrRefunded',
           ~raced /\ account.exists /\ c \notin outdated /\ r.pc # "idle" => CopyOf(r, account),
           panel /\ r.pc = "store" /\ r.op = "delete" => ~admin.exists
    PROVE  TermInv'
<1>1. admin' \in PanelAdminType /\ PanelAgrees'
  BY DEF TermInv, TermTyped, PanelAgrees
<1> QED
  BY <1>1, Behind

LEMMA ModifyKeeps == \A c \in Callers : TermAssumptions /\ TermInv /\ Term!Modify(c) => TermInv'
<1> SUFFICES ASSUME NEW c \in Callers, TermAssumptions, TermInv, Term!Modify(c) PROVE TermInv'
  OBVIOUS
<1>1. /\ calls[c].pc = "modify" /\ admin' = [admin EXCEPT !.limit = calls[c].limit]
      /\ UNCHANGED <<account, panel, wallet, clock, job, books>>
  BY OnPanelIs DEF Term!Modify, TermInv
<1>2. /\ calls \in [Callers -> RequestType] /\ TermTyped /\ wallet \in Nat /\ Fits(calls[c])
      /\ LimitsAlike(calls[c], account) /\ calls[c].limit \in Nat /\ account \in RowType
      /\ ~ IsAhead(calls[c]) /\ c \notin Ahead /\ calls[c] \in RequestType
  BY <1>1 DEF TermInv, TermTyped, CallsOK, RequestType, IsAhead, RowType, Ahead, TermAssumptions
<1>3. /\ admin' \in PanelAdminType
      /\ admin'.enabled = admin.enabled /\ admin'.limit = calls[c].limit
      /\ admin'.exists = admin.exists
  BY <1>1, <1>2 DEF TermTyped, PanelAdminType
<1>4. wallet' \in Nat /\ books' \in [bought : Nat, dropped : Nat, crashed : Nat, granted : Nat]
  BY <1>1, <1>2 DEF TermTyped
<1>5. ASSUME NEW pc \in CallPcs \ {"idle", "debit"}, calls' = [calls EXCEPT ![c].pc = pc]
      PROVE  \E r \in RequestType :
               /\ calls' = [calls EXCEPT ![c] = r]
               /\ r.pc = pc /\ r.op = calls[c].op /\ r.status = calls[c].status
               /\ r.after = calls[c].after /\ r.limit = calls[c].limit
               /\ LimitsAlike(r, account) /\ Term!BoughtOrRefunded'
  <2>1. PICK r \in RequestType :
           /\ calls' = [calls EXCEPT ![c] = r]
           /\ r.pc = pc /\ r.op = calls[c].op /\ r.status = calls[c].status
           /\ r.after = calls[c].after /\ r.limit = calls[c].limit
    BY <1>2, <1>5, GoesTo
  <2>2. Spent(r) = Spent(calls[c])
    BY <1>1, <2>1 DEF Spent, IsUnsettled
  <2>3. wallet' + books'.bought + books'.dropped + books'.crashed + Spent(r) =
          wallet + books.bought + books.dropped + books.crashed + Spent(calls[c])
    BY <1>1, <2>2
  <2>4. Term!BoughtOrRefunded'
    BY <1>2, <1>4, <2>1, <2>3, UnsettledMoves DEF TermInv
  <2>5. LimitsAlike(r, account)
    BY <1>1, <1>2, <2>1 DEF LimitsAlike
  <2> QED
    BY <2>1, <2>4, <2>5
<1>6. CASE calls[c].op = "resync"
  <2>1. /\ Term!MarkWrite(c)
        /\ calls' = [calls EXCEPT ![c].pc =
                       IF calls[c].status = "active" THEN "activate" ELSE "disable"]
    BY <1>6 DEF Term!Modify, Term!Goes
  <2>2. (IF calls[c].status = "active" THEN "activate" ELSE "disable") \in CallPcs \ {"idle", "debit"}
    BY DEF CallPcs
  <2>3. PICK r \in RequestType :
           /\ calls' = [calls EXCEPT ![c] = r]
           /\ r.pc = (IF calls[c].status = "active" THEN "activate" ELSE "disable")
           /\ r.op = calls[c].op /\ r.status = calls[c].status
           /\ r.after = calls[c].after /\ r.limit = calls[c].limit
           /\ LimitsAlike(r, account) /\ Term!BoughtOrRefunded'
    BY <1>5, <2>1, <2>2
  <2>4. Fits(r) /\ ~ IsAhead(r)
    BY <1>6, <2>3 DEF Fits, IsAhead, Term!Renewals
  <2>5. ~raced' => ~raced /\ c \notin outdated
    BY <2>1, WriteMarks
  <2>6. ~raced' /\ account.exists => CopyOf(calls[c], account)
    BY <1>1, <2>5 DEF TermInv, CallsOK
  <2>7. ~raced' /\ account.exists => CopyOf(r, account)
    BY <2>3, <2>6 DEF CopyOf
  <2>8. panel /\ ~astray' /\ account.exists /\ Ahead \subseteq {c} => Agrees(account, admin')
    <3> SUFFICES ASSUME panel, ~astray', account.exists, Ahead \subseteq {c} PROVE Agrees(account, admin')
      OBVIOUS
    <3>0. ~astray /\ ~raced'
      BY <1>2, <2>1, WriteMarks DEF TermTyped
    <3>1. Agrees(account, admin)
      BY <1>2, <3>0 DEF TermInv, PanelAgrees
    <3> QED
      BY <1>3, <1>6, <2>6, <3>0, <3>1 DEF Agrees, CopyOf
  <2>9. Term!PaidTermKept'
    BY <1>1, <2>5 DEF TermInv, Term!PaidTermKept
  <2> QED
    BY <1>1, <1>2, <1>3, <1>4, <2>1, <2>3, <2>4, <2>7, <2>8, <2>9, Written
<1>7. CASE calls[c].op # "resync"
  <2> DEFINE pc == IF calls[c].op \in Term!Renewals THEN Term!AfterModify(calls[c].status) ELSE "store"
  <2>1. calls' = [calls EXCEPT ![c].pc = pc] /\ UNCHANGED <<raced, astray, outdated>>
    BY <1>7 DEF Term!Modify, Term!Goes, Term!marks
  <2>2. pc \in CallPcs \ {"idle", "debit"}
    BY DEF CallPcs, Term!AfterModify
  <2>3. PICK r \in RequestType :
           /\ calls' = [calls EXCEPT ![c] = r]
           /\ r.pc = pc /\ r.op = calls[c].op /\ r.status = calls[c].status
           /\ r.after = calls[c].after /\ r.limit = calls[c].limit
           /\ LimitsAlike(r, account) /\ Term!BoughtOrRefunded'
    BY <1>5, <2>1, <2>2
  <2>4. calls[c].op \in Term!Renewals \cup {"volume", "setVolume"}
        /\ (calls[c].op \in Term!Renewals => calls[c].limit # 0)
    BY <1>1, <1>2, <1>7 DEF Fits
  <2>5. Fits(r)
    BY <1>1, <1>2, <2>3, <2>4 DEF Fits, Term!AfterModify, Term!Renewals
  <2>6. ~raced /\ account.exists /\ c \notin outdated => CopyOf(r, account)
    BY <1>1, <2>3 DEF TermInv, CallsOK, CopyOf
  <2>7. ASSUME c \notin outdated, ~raced, account.exists, Agrees(account, admin)
        PROVE  CallAgrees(r, account, admin')
    <3>1. r.status = account.status
      BY <2>6, <2>7 DEF CopyOf
    <3>2. CASE r.op \in Term!Renewals /\ r.status # "admin_paused"
      <4>1. r.pc = "activate"
        BY <2>3, <3>2 DEF Term!AfterModify
      <4> QED
        BY <1>3, <2>3, <2>7, <4>1 DEF CallAgrees, Agrees
    <3>3. CASE r.op \in Term!Renewals /\ r.status = "admin_paused"
      <4>1. r.pc = "store"
        BY <2>3, <3>3 DEF Term!AfterModify
      <4> QED
        BY <1>3, <2>3, <2>7, <3>1, <3>3, <4>1
        DEF CallAgrees, Agrees, SwitchesTo, Limits, Term!Renewals
    <3>4. CASE r.op \in {"volume", "setVolume"}
      <4>1. r.pc = "store"
        BY <2>3, <3>4 DEF Term!Renewals
      <4> QED
        BY <1>3, <2>3, <2>7, <3>4, <4>1
        DEF CallAgrees, Agrees, SwitchesTo, Limits, Term!Renewals
    <3> QED
      BY <2>3, <2>4, <3>2, <3>3, <3>4
  <2>8. IsAhead(r)
    BY <2>3, <2>4 DEF IsAhead, Term!AfterModify
  <2>9. PanelAgrees'
    BY <1>1, <1>2, <2>1, <2>3, <2>7, <2>8, PanelEntered DEF TermAssumptions, TermInv
  <2>10. ~ (r.pc = "store" /\ r.op = "delete")
    BY <2>3, <2>4 DEF Term!Renewals
  <2> QED
    BY <1>1, <1>2, <1>3, <1>4, <2>1, <2>3, <2>5, <2>6, <2>9, <2>10, Behind
<1> QED
  BY <1>6, <1>7

LEMMA SwitchKeeps == \A c \in Callers : TermAssumptions /\ TermInv /\ Term!Switch(c) => TermInv'
<1> SUFFICES ASSUME NEW c \in Callers, TermAssumptions, TermInv, Term!Switch(c) PROVE TermInv'
  OBVIOUS
<1>1. /\ calls[c].pc \in {"activate", "disable"}
      /\ admin' = [admin EXCEPT !.enabled = (calls[c].pc = "activate")]
      /\ UNCHANGED <<account, panel, wallet, clock, job, books>>
  BY OnPanelIs DEF Term!Switch, TermInv
<1>2. /\ calls \in [Callers -> RequestType] /\ TermTyped /\ wallet \in Nat /\ Fits(calls[c])
      /\ LimitsAlike(calls[c], account) /\ account \in RowType
      /\ calls[c] \in RequestType
  BY <1>1 DEF TermInv, TermTyped, CallsOK, RowType
<1>3. /\ admin' \in PanelAdminType
      /\ (admin'.enabled <=> calls[c].pc = "activate") /\ admin'.limit = admin.limit
      /\ admin'.exists = admin.exists
  BY <1>1, <1>2 DEF TermTyped, PanelAdminType
<1>4. wallet' \in Nat /\ books' \in [bought : Nat, dropped : Nat, crashed : Nat, granted : Nat]
  BY <1>1, <1>2 DEF TermTyped
<1>6. CASE calls[c].op = "resync"
  <2>1. Term!MarkWrite(c) /\ calls' = [calls EXCEPT ![c] = Term!IdleCall]
    BY <1>6 DEF Term!Switch, Term!Finished
  <2>2. c \notin Ahead
    BY <1>1, <1>6 DEF Ahead, IsAhead, Term!Renewals, TermAssumptions
  <2>3. Term!BoughtOrRefunded'
    <3>1. Spent(Term!IdleCall) = Spent(calls[c])
      BY <1>6, IdleIs DEF Spent, IsUnsettled, Term!Paid, Term!Renewals, Term!Addons
    <3>2. wallet' + books'.bought + books'.dropped + books'.crashed + Spent(Term!IdleCall) =
            wallet + books.bought + books.dropped + books.crashed + Spent(calls[c])
      BY <1>1, <3>1
    <3> QED
      BY <1>2, <1>4, <2>1, <3>2, IdleIs, UnsettledMoves DEF TermInv
  <2>5. ~raced' => ~raced /\ c \notin outdated
    BY <2>1, WriteMarks
  <2>8. panel /\ ~astray' /\ account.exists /\ Ahead \subseteq {c} => Agrees(account, admin')
    <3> SUFFICES ASSUME panel, ~astray', account.exists, Ahead \subseteq {c} PROVE Agrees(account, admin')
      OBVIOUS
    <3>0. ~astray /\ ~raced'
      BY <1>2, <2>1, WriteMarks DEF TermTyped
    <3>1. Agrees(account, admin)
      BY <2>2, <3>0 DEF TermInv, PanelAgrees
    <3>2. calls[c].status = account.status
      BY <1>1, <2>5, <3>0 DEF TermInv, CallsOK, CopyOf
    <3>3. calls[c].pc = "activate" <=> calls[c].status = "active"
      BY <1>1, <1>2, <1>6 DEF Fits
    <3> QED
      BY <1>3, <3>1, <3>2, <3>3 DEF Agrees
  <2>9. Term!PaidTermKept'
    BY <1>1, <2>5 DEF TermInv, Term!PaidTermKept
  <2> QED
    BY <1>1, <1>2, <1>3, <1>4, <2>1, <2>3, <2>8, <2>9, IdleIs, Written
<1>7. CASE calls[c].op # "resync"
  <2>1. calls' = [calls EXCEPT ![c].pc = "store"] /\ UNCHANGED <<raced, astray, outdated>>
    BY <1>7 DEF Term!Switch, Term!Goes, Term!marks
  <2>2. "store" \in CallPcs
    BY DEF CallPcs
  <2>3. PICK r \in RequestType :
           /\ calls' = [calls EXCEPT ![c] = r]
           /\ r.pc = "store" /\ r.op = calls[c].op /\ r.status = calls[c].status
           /\ r.after = calls[c].after /\ r.limit = calls[c].limit
    BY <1>2, <2>1, <2>2, GoesTo
  <2>4. Term!BoughtOrRefunded'
    <3>1. Spent(r) = Spent(calls[c])
      BY <1>1, <2>3 DEF Spent, IsUnsettled
    <3>2. wallet' + books'.bought + books'.dropped + books'.crashed + Spent(r) =
            wallet + books.bought + books.dropped + books.crashed + Spent(calls[c])
      BY <1>1, <3>1
    <3> QED
      BY <1>2, <1>4, <2>3, <3>2, UnsettledMoves DEF TermInv
  <2>5. Fits(r) /\ LimitsAlike(r, account) /\ r.op # "delete"
    BY <1>1, <1>2, <1>7, <2>3 DEF Fits, LimitsAlike
  <2>6. ~raced /\ account.exists /\ c \notin outdated => CopyOf(r, account)
    BY <1>1, <2>3 DEF TermInv, CallsOK, CopyOf
  <2>7. IsAhead(r)
    BY <2>3 DEF IsAhead
  <2>8. (admin'.enabled <=> SwitchesTo(r, account) = "active")
    <3>1. CASE calls[c].pc = "activate" /\ r.op \in Term!Renewals
      BY <1>2, <1>3, <2>3, <3>1 DEF Fits, SwitchesTo, Term!Renewals
    <3>2. CASE calls[c].pc = "activate" /\ r.op \in {"resume", "unlock", "days", "extend"}
      BY <1>2, <1>3, <2>3, <3>2 DEF Fits, SwitchesTo, Term!Renewals
    <3>3. CASE calls[c].pc = "disable"
      BY <1>2, <1>3, <1>7, <2>3, <3>3 DEF Fits, SwitchesTo, Term!Renewals
    <3> QED
      BY <1>1, <1>2, <1>7, <2>3, <3>1, <3>2, <3>3 DEF Fits
  <2>9. PanelAgrees'
    <3>1. CASE IsAhead(calls[c])
      <4>1. calls[c].op \in Term!Renewals /\ calls[c].pc # "store"
        BY <1>1, <3>1 DEF IsAhead
      <4>2. CallAgrees(calls[c], account, admin) => CallAgrees(r, account, admin')
        BY <1>3, <2>3, <2>8, <4>1 DEF CallAgrees, Limits
      <4> QED
        BY <1>1, <1>2, <2>1, <2>3, <2>7, <3>1, <4>2, PanelStays DEF TermAssumptions, TermInv
    <3>2. CASE ~ IsAhead(calls[c])
      <4>1. Limits(r.op) => r.limit = 0 /\ account.limit = 0
        BY <1>1, <1>2, <2>3, <3>2 DEF IsAhead, Fits, Limits, LimitsAlike, Term!Renewals
      <4>2. Agrees(account, admin) => CallAgrees(r, account, admin')
        BY <1>3, <2>3, <2>8, <4>1 DEF CallAgrees, Agrees
      <4> QED
        BY <1>1, <1>2, <2>1, <2>3, <2>7, <3>2, <4>2, PanelEntered DEF TermAssumptions, TermInv
    <3> QED
      BY <3>1, <3>2
  <2> QED
    BY <1>1, <1>2, <1>3, <1>4, <2>1, <2>3, <2>4, <2>5, <2>6, <2>9, Behind
<1> QED
  BY <1>6, <1>7

LEMMA NotSwitchedOnKeeps ==
    \A c \in Callers : TermAssumptions /\ TermInv /\ Term!RenewalNotSwitchedOn(c) => TermInv'
<1> SUFFICES ASSUME NEW c \in Callers, TermAssumptions, TermInv, Term!RenewalNotSwitchedOn(c)
             PROVE  TermInv'
  OBVIOUS
<1>1. /\ calls[c].pc = "activate" /\ calls[c].op \in Term!Renewals
      /\ calls' = [calls EXCEPT ![c].pc = "store"] /\ astray' = TRUE
      /\ UNCHANGED <<account, panel, admin, wallet, clock, job, books, raced, outdated>>
  BY DEF Term!RenewalNotSwitchedOn, Term!Goes, Term!GoApart
<1>2. /\ calls \in [Callers -> RequestType] /\ TermTyped /\ Fits(calls[c])
      /\ LimitsAlike(calls[c], account) /\ "store" \in CallPcs
  BY DEF TermInv, TermTyped, CallsOK, CallPcs
<1>3. PICK r \in RequestType :
         /\ calls' = [calls EXCEPT ![c] = r]
         /\ r.pc = "store" /\ r.op = calls[c].op /\ r.status = calls[c].status
         /\ r.after = calls[c].after /\ r.limit = calls[c].limit
  BY <1>1, <1>2, GoesTo
<1>4. wallet' \in Nat /\ books' \in [bought : Nat, dropped : Nat, crashed : Nat, granted : Nat]
  BY <1>1, <1>2 DEF TermTyped
<1>5. Fits(r) /\ LimitsAlike(r, account) /\ r.op # "delete"
  BY <1>1, <1>2, <1>3 DEF Fits, LimitsAlike, Term!Renewals
<1>6. Term!BoughtOrRefunded'
  <2>1. Spent(r) = Spent(calls[c])
    BY <1>1, <1>3 DEF Spent, IsUnsettled
  <2>2. wallet' + books'.bought + books'.dropped + books'.crashed + Spent(r) =
          wallet + books.bought + books.dropped + books.crashed + Spent(calls[c])
    BY <1>1, <2>1
  <2> QED
    BY <1>2, <1>3, <1>4, <2>2, UnsettledMoves DEF TermInv
<1>7. ~raced /\ account.exists /\ c \notin outdated => CopyOf(r, account)
  BY <1>1, <1>3 DEF TermInv, CallsOK, CopyOf
<1> QED
  BY <1>1, <1>3, <1>4, <1>5, <1>6, <1>7, LeftBehind

\* What was paid is bought now; the term grows by what was granted.
LEMMA StoreKeeps == \A c \in Callers : TermAssumptions /\ TermInv /\ Term!Store(c) => TermInv'
<1> SUFFICES ASSUME NEW c \in Callers, TermAssumptions, TermInv, Term!Store(c) PROVE TermInv'
  OBVIOUS
<1> DEFINE call == calls[c]
           paid == IF Term!Paid(call.op) THEN 1 ELSE 0
           given == IF Term!Extends(call.op) THEN 1 ELSE 0
<1>1. /\ call.pc = "store" /\ account.exists /\ account' = Term!Stored(call) /\ Term!MarkWrite(c)
      /\ books' = [books EXCEPT !.bought = @ + paid, !.granted = @ + given]
      /\ calls' = [calls EXCEPT ![c] = Term!IdleCall]
      /\ UNCHANGED <<panel, admin, wallet, clock, job>>
  BY DEF Term!Store, Term!Finished
<1>2. /\ calls \in [Callers -> RequestType] /\ TermTyped /\ Fits(call) /\ call \in RequestType
      /\ LimitsAlike(call, account) /\ account \in RowType /\ wallet \in Nat
  BY DEF TermInv, TermTyped, CallsOK, RowType
<1>3. paid \in Nat /\ given \in Nat
  OBVIOUS
<1>4. /\ books' \in [bought : Nat, dropped : Nat, crashed : Nat, granted : Nat]
      /\ books'.bought = books.bought + paid /\ books'.granted = books.granted + given
      /\ books'.dropped = books.dropped /\ books'.crashed = books.crashed
      /\ books.bought \in Nat /\ books.dropped \in Nat /\ books.crashed \in Nat
      /\ books.granted \in Nat
  <2> HIDE DEF paid, given
  <2>1. /\ books \in [bought : Nat, dropped : Nat, crashed : Nat, granted : Nat]
        /\ books.bought + paid \in Nat /\ books.granted + given \in Nat
    BY <1>2, <1>3 DEF TermTyped
  <2>2. books' = [books EXCEPT !.bought = books.bought + paid, !.granted = books.granted + given]
    BY <1>1, <2>1
  <2> QED
    BY <2>1, <2>2
<1>5. /\ account' \in RowType
      /\ account'.exists = (account.exists /\ call.op # "delete")
      /\ account'.expires = (IF Term!Extends(call.op) THEN call.after ELSE account.expires)
      /\ account'.limit = (IF Limits(call.op) THEN call.limit ELSE account.limit)
      /\ account'.status = SwitchesTo(call, account)
  <2>1. call.op # "resync"
    BY <1>1, <1>2 DEF Fits
  <2>2. /\ Term!Stored(call) \in RowType
        /\ Term!Stored(call).exists = (account.exists /\ call.op # "delete")
        /\ Term!Stored(call).expires = (IF Term!Extends(call.op) THEN call.after ELSE account.expires)
        /\ Term!Stored(call).limit = (IF Limits(call.op) THEN call.limit ELSE account.limit)
        /\ Term!Stored(call).status = SwitchesTo(call, account)
    BY <1>2, <2>1, StoredIs
  <2> QED
    BY <1>1, <2>2
<1>6. /\ Spent(Term!IdleCall) = 0 /\ Spent(call) = paid
  BY <1>1, IdleIs DEF Spent, IsUnsettled
<1> HIDE DEF paid, given
<1>7. Term!BoughtOrRefunded'
  <2>1. wallet' + books'.bought + books'.dropped + books'.crashed + Spent(Term!IdleCall) =
          wallet + books.bought + books.dropped + books.crashed + Spent(call)
    BY <1>1, <1>2, <1>3, <1>4, <1>6
  <2> QED
    BY <1>1, <1>2, <1>4, <2>1, IdleIs, UnsettledMoves DEF TermInv
<1>8. ~raced' => ~raced /\ c \notin outdated
  BY <1>1, WriteMarks
<1>9. ~raced' /\ account'.exists => CopyOf(call, account)
  BY <1>1, <1>8 DEF TermInv, CallsOK
<1>10. Term!PaidTermKept'
  <2> SUFFICES ASSUME ~raced', account'.exists PROVE account'.expires >= 1 + books'.granted
    BY DEF Term!PaidTermKept
  <2>1. account.expires >= 1 + books.granted /\ account.expires \in Nat
    BY <1>1, <1>2, <1>8 DEF TermInv, Term!PaidTermKept, RowType
  <2>2. CASE Term!Extends(call.op)
    <3>1. call.after >= account.expires + 1 /\ call.after \in Nat /\ given = 1
      BY <1>2, <1>9, <2>2 DEF CopyOf, RequestType, given
    <3>2. account'.expires = call.after /\ books'.granted = books.granted + 1
      BY <1>4, <1>5, <2>2, <3>1
    <3> QED
      BY <1>4, <2>1, <3>1, <3>2
  <2>3. CASE ~ Term!Extends(call.op)
    <3>1. account'.expires = account.expires /\ books'.granted = books.granted + 0
      BY <1>4, <1>5, <2>3 DEF given
    <3> QED
      BY <1>4, <2>1, <3>1
  <2> QED
    BY <2>2, <2>3
<1>11. panel /\ ~astray' /\ account'.exists /\ Ahead \subseteq {c} => Agrees(account', admin')
  <2> SUFFICES ASSUME panel, ~astray', account'.exists, Ahead \subseteq {c} PROVE Agrees(account', admin)
    BY <1>1
  <2>1. Ahead = {c} /\ call.op # "delete"
    BY <1>1, <1>5 DEF Ahead, IsAhead
  <2>2. CallAgrees(call, account, admin)
    <3>1. ~astray /\ c \notin outdated
      BY <1>1, WriteMarks
    <3> QED
      BY <1>1, <2>1, <3>1 DEF TermInv, PanelAgrees
  <2> QED
    BY <1>1, <1>5, <2>1, <2>2 DEF CallAgrees, Agrees
<1>12. account'.limit = 0 <=> account.limit = 0
  BY <1>1, <1>2, <1>5 DEF LimitsAlike
<1>13. panel /\ ~account'.exists => ~admin'.exists
  BY <1>1, <1>5 DEF TermInv, AdminGone
<1>14. account'.exists => account.exists
  BY <1>5
<1>15. /\ admin' \in PanelAdminType
       /\ wallet' \in Nat /\ admin'.exists = admin.exists
  BY <1>1, <1>2 DEF TermTyped
<1> QED
  BY <1>1, <1>4, <1>5, <1>7, <1>10, <1>11, <1>12, <1>13, <1>14, <1>15, IdleIs, Written

LEMMA StoreFailsKeeps == \A c \in Callers : TermAssumptions /\ TermInv /\ Term!StoreFails(c) => TermInv'
<1> SUFFICES ASSUME NEW c \in Callers, TermAssumptions, TermInv, Term!StoreFails(c) PROVE TermInv'
  OBVIOUS
<1>1. /\ calls[c].pc = "store" /\ astray' = TRUE
      /\ IF calls[c].op \in Term!Renewals
         THEN books' = [books EXCEPT !.dropped = @ + 1] /\ UNCHANGED wallet
         ELSE wallet' = wallet + (IF Term!Paid(calls[c].op) THEN 1 ELSE 0) /\ UNCHANGED books
      /\ calls' = [calls EXCEPT ![c] = Term!IdleCall]
      /\ UNCHANGED <<account, panel, admin, clock, job, raced, outdated>>
  BY DEF Term!StoreFails, Term!Refund, Term!Finished, Term!GoApart
<1>2. /\ calls \in [Callers -> RequestType] /\ TermTyped /\ wallet \in Nat
      /\ books \in [bought : Nat, dropped : Nat, crashed : Nat, granted : Nat]
  BY DEF TermInv, TermTyped
<1>3. /\ wallet' \in Nat /\ books' \in [bought : Nat, dropped : Nat, crashed : Nat, granted : Nat]
      /\ books'.granted = books.granted
      /\ wallet' + books'.bought + books'.dropped + books'.crashed + 0 =
           wallet + books.bought + books.dropped + books.crashed
             + (IF Term!Paid(calls[c].op) THEN 1 ELSE 0)
  <2>1. CASE calls[c].op \in Term!Renewals
    <3>1. Term!Paid(calls[c].op) /\ wallet' = wallet /\ books.dropped + 1 \in Nat
      BY <1>1, <1>2, <2>1 DEF Term!Paid
    <3>2. books' = [books EXCEPT !.dropped = books.dropped + 1]
      BY <1>1, <1>2, <2>1
    <3> QED
      BY <1>2, <3>1, <3>2
  <2>2. CASE calls[c].op \notin Term!Renewals
    <3>1. wallet' = wallet + (IF Term!Paid(calls[c].op) THEN 1 ELSE 0) /\ books' = books
      BY <1>1, <2>2
    <3> QED
      BY <1>2, <3>1
  <2> QED
    BY <2>1, <2>2
<1>4. Term!BoughtOrRefunded'
  <2>1. Spent(Term!IdleCall) = 0 /\ Spent(calls[c]) = (IF Term!Paid(calls[c].op) THEN 1 ELSE 0)
    BY <1>1, IdleIs DEF Spent, IsUnsettled
  <2>2. wallet' + books'.bought + books'.dropped + books'.crashed + Spent(Term!IdleCall) =
          wallet + books.bought + books.dropped + books.crashed + Spent(calls[c])
    BY <1>3, <2>1
  <2> QED
    BY <1>1, <1>2, <1>3, <2>2, IdleIs, UnsettledMoves DEF TermInv
<1> QED
  BY <1>1, <1>3, <1>4, IdleIs, LeftBehind

-----------------------------------------------------------------------------
(* The job and the world.                                                  *)

LEMMA UnsettledSame == ASSUME calls' = calls PROVE Term!Unsettled' = Term!Unsettled
BY DEF Term!Unsettled

\* The job moves and leaves the row as it is.
LEMMA JobMoves ==
    ASSUME TermAssumptions, TermInv, UNCHANGED <<calls, account, wallet, clock, books, panel, raced>>,
           astray' \in {astray, TRUE},
           \A c \in Callers : c \in outdated' <=> c \in outdated,
           outdated' \subseteq Callers \cup {"job"},
           job' \in [pc : TermJobPcs, now : Nat],
           admin' \in PanelAdminType,
           ~admin.exists => ~admin'.exists,
           panel /\ job'.pc = "drop" => job.pc = "drop" \/ ~admin'.exists,
           ListedOverdue', PanelAgrees'
    PROVE  TermInv'
<1> USE DEF TermInv
<1>1. TermTyped'
  BY DEF TermTyped
<1>2. Term!BoughtOrRefunded'
  BY UnsettledSame DEF Term!BoughtOrRefunded
<1>3. Term!PaidTermKept'
  BY DEF Term!PaidTermKept
<1>4. CallsOK'
  BY DEF CallsOK
<1>5. AdminGone'
  BY DEF AdminGone
<1> QED
  BY <1>1, <1>2, <1>3, <1>4, <1>5

\* It is not ahead, before and after.
LEMMA JobBehind ==
    ASSUME "job" \notin Callers, PanelAgrees, UNCHANGED <<calls, account, panel, astray>>,
           \A c \in Callers : c \in outdated' <=> c \in outdated,
           ~ JobAhead, ~ JobAhead', admin'.enabled = admin.enabled, admin'.limit = admin.limit
    PROVE  PanelAgrees'
<1>1. Ahead = {c \in Callers : IsAhead(calls[c])} /\ Ahead' = Ahead
  BY DEF Ahead
<1>2. Ahead # {"job"} /\ (Ahead \cap outdated' = {} => Ahead \cap outdated = {})
  BY <1>1
<1>3. Agrees(account, admin) => Agrees(account', admin')
  BY DEF Agrees
<1>4. \A c \in Callers : CallAgrees(calls[c], account, admin) => CallAgrees(calls'[c], account', admin')
  BY DEF CallAgrees
<1> QED
  BY <1>1, <1>2, <1>3, <1>4 DEF PanelAgrees

\* It comes ahead.
LEMMA JobEnters ==
    ASSUME "job" \notin Callers, PanelAgrees, UNCHANGED <<calls, account, panel, astray, outdated>>,
           ~ JobAhead, JobAhead',
           panel /\ Agrees(account, admin) => JobAgrees(job'.pc, account, admin')
    PROVE  PanelAgrees'
<1>1. Ahead' = Ahead \cup {"job"} /\ "job" \notin Ahead /\ Ahead \subseteq Callers
  BY DEF Ahead
<1>2. Ahead' # {} /\ (\A c \in Callers : Ahead' # {c}) /\ (Ahead' = {"job"} => Ahead = {})
  BY <1>1
<1> QED
  BY <1>2 DEF PanelAgrees

LEMMA JobKeeps == TermAssumptions /\ TermInv /\ Term!JobStep => TermInv'
<1> SUFFICES ASSUME TermAssumptions, TermInv, Term!JobStep PROVE TermInv'
  OBVIOUS
<1>0. /\ "job" \notin Callers /\ PanelAgrees /\ ListedOverdue /\ AdminGone
      /\ job \in [pc : TermJobPcs, now : Nat] /\ clock \in Nat /\ outdated \subseteq Callers \cup {"job"}
      /\ admin \in PanelAdminType
      /\ account \in RowType /\ GRACE \in Nat /\ panel' = panel /\ (raced => astray)
      /\ {raced, astray} \subseteq BOOLEAN
  BY DEF TermInv, TermTyped, TermAssumptions, Term!TermAssumption, RowType, Term!JobStep
<1>1. CASE Term!JobStart
  <2>1. /\ job.pc = "idle" /\ job' = [pc |-> "expire", now |-> clock]
        /\ UNCHANGED <<account, admin, wallet, clock, calls, books, raced, astray, outdated>>
    BY <1>1 DEF Term!JobStart, Term!marks
  <2>2. job' \in [pc : TermJobPcs, now : Nat] /\ ~ JobAhead /\ ~ JobAhead'
    BY <1>0, <2>1 DEF TermJobPcs, JobAhead
  <2>3. ListedOverdue'
    BY <1>0, <2>1 DEF ListedOverdue
  <2>4. PanelAgrees'
    BY <1>0, <2>1, <2>2, JobBehind
  <2> QED
    BY <1>0, <2>1, <2>2, <2>3, <2>4, JobMoves
<1>2. ASSUME NEW pc \in {"off", "purge"}, job.pc = "expire", job' = [job EXCEPT !.pc = pc],
             outdated' = outdated \ {"job"},
             UNCHANGED <<account, admin, wallet, clock, calls, books, raced, astray>>
      PROVE  TermInv'
  <2>2. job' \in [pc : TermJobPcs, now : Nat] /\ ~ JobAhead /\ ~ JobAhead' /\ job'.pc = pc
        /\ job'.now = job.now
    BY <1>0, <1>2 DEF TermJobPcs, JobAhead
  <2>3. ListedOverdue'
    BY <1>0, <1>2, <2>2 DEF ListedOverdue
  <2>4. PanelAgrees'
    BY <1>0, <1>2, <2>2, JobBehind
  <2> QED
    BY <1>0, <1>2, <2>2, <2>3, <2>4, JobMoves
<1>3. CASE Term!JobListExpired
  BY <1>2, <1>3 DEF Term!JobListExpired, Term!JobAt
<1>4. CASE Term!JobSwitchOff
  <2>1. /\ job.pc = "off" /\ job' = [job EXCEPT !.pc = "recheck"]
        /\ admin' = [admin EXCEPT !.enabled = admin.enabled /\ ~panel]
        /\ UNCHANGED <<account, wallet, clock, calls, books, raced, astray, outdated>>
    BY <1>4 DEF Term!JobSwitchOff, Term!JobAt, Term!marks
  <2>2. job' \in [pc : TermJobPcs, now : Nat] /\ ~ JobAhead /\ JobAhead' /\ job'.pc = "recheck"
        /\ job'.now = job.now
    BY <1>0, <2>1 DEF TermJobPcs, JobAhead
  <2>3. /\ admin' \in PanelAdminType
        /\ admin'.exists = admin.exists /\ (panel => ~ admin'.enabled) /\ admin'.limit = admin.limit
    <3>1. (admin.enabled /\ ~panel) \in BOOLEAN
      OBVIOUS
    <3> QED
      BY <1>0, <2>1, <3>1 DEF PanelAdminType
  <2>4. ListedOverdue'
    BY <1>0, <2>1, <2>2 DEF ListedOverdue
  <2>5. PanelAgrees'
    BY <1>0, <2>1, <2>2, <2>3, JobEnters DEF Agrees, JobAgrees
  <2> QED
    BY <1>0, <2>1, <2>2, <2>3, <2>4, <2>5, JobMoves
<1>5. CASE Term!JobSwitchOffFails
  <2>1. /\ job.pc = "off" /\ job' = [job EXCEPT !.pc = "purge"]
        /\ UNCHANGED <<account, wallet, clock, calls, books, raced, outdated>>
        /\ \/ UNCHANGED <<admin, astray>>
           \/ astray' = TRUE /\ admin' = [admin EXCEPT !.enabled = FALSE]
    BY <1>5 DEF Term!JobSwitchOffFails, Term!JobAt, Term!RaisesAfter, Term!GoApart, Term!marks
  <2>2. job' \in [pc : TermJobPcs, now : Nat] /\ ~ JobAhead /\ ~ JobAhead' /\ job'.pc = "purge"
        /\ job'.now = job.now
    BY <1>0, <2>1 DEF TermJobPcs, JobAhead
  <2>3. ListedOverdue'
    BY <1>0, <2>1, <2>2 DEF ListedOverdue
  <2>4. PanelAgrees'
    <3>1. CASE UNCHANGED <<admin, astray>>
      BY <1>0, <2>1, <2>2, <3>1, JobBehind
    <3>2. CASE astray' = TRUE
      BY <3>2 DEF PanelAgrees
    <3> QED
      BY <2>1, <3>1, <3>2
  <2>5. admin' \in PanelAdminType /\ admin'.exists = admin.exists /\ astray' \in {astray, TRUE}
    BY <1>0, <2>1 DEF PanelAdminType
  <2> QED
    BY <1>0, <2>1, <2>2, <2>3, <2>4, <2>5, JobMoves
<1>6. CASE Term!JobRecheck
  <2>1. /\ job.pc = "recheck"
        /\ UNCHANGED <<account, admin, wallet, clock, calls, books, raced, outdated>>
    BY <1>6 DEF Term!JobRecheck, Term!GoApart, Term!marks
  <2>2. CASE account.exists /\ account.expires <= job.now
    <3>1. job' = [job EXCEPT !.pc = "write"] /\ astray' = astray
      BY <1>6, <2>2 DEF Term!JobRecheck, Term!JobAt, Term!marks
    <3>2. job' \in [pc : TermJobPcs, now : Nat] /\ JobAhead /\ JobAhead' /\ job'.pc = "write"
          /\ job'.now = job.now
      BY <1>0, <2>1, <3>1 DEF TermJobPcs, JobAhead
    <3>3. ListedOverdue'
      BY <1>0, <2>1, <3>2 DEF ListedOverdue
    <3>4. PanelAgrees'
      <4>1. Ahead' = Ahead
        BY <2>1, <3>2 DEF Ahead
      <4>2. JobAgrees(job.pc, account, admin) => JobAgrees(job'.pc, account, admin)
        BY <2>1, <3>2 DEF JobAgrees
      <4> QED
        BY <1>0, <2>1, <3>1, <4>1, <4>2 DEF PanelAgrees
    <3> QED
      BY <1>0, <2>1, <3>1, <3>2, <3>3, <3>4, JobMoves
  <2>3. CASE ~ (account.exists /\ account.expires <= job.now)
    <3>1. job' = [job EXCEPT !.pc = "purge"] /\ astray' = TRUE
      BY <1>6, <2>3 DEF Term!JobRecheck, Term!JobAt, Term!GoApart
    <3>2. job' \in [pc : TermJobPcs, now : Nat] /\ job'.pc = "purge" /\ job'.now = job.now
      BY <1>0, <3>1 DEF TermJobPcs
    <3>3. ListedOverdue'
      BY <1>0, <2>1, <3>2 DEF ListedOverdue
    <3>4. PanelAgrees'
      BY <3>1 DEF PanelAgrees
    <3> QED
      BY <1>0, <2>1, <3>1, <3>2, <3>3, <3>4, JobMoves
  <2> QED
    BY <2>2, <2>3
<1>7. CASE Term!JobWriteExpired
  <2>1. /\ job.pc = "write" /\ job' = [job EXCEPT !.pc = "purge"]
        /\ UNCHANGED <<admin, wallet, clock, calls, books>>
    BY <1>7 DEF Term!JobWriteExpired, Term!JobAt
  <2>2. job' \in [pc : TermJobPcs, now : Nat] /\ job'.pc = "purge" /\ job'.now = job.now
    BY <1>0, <2>1 DEF TermJobPcs
  <2>3. Term!BoughtOrRefunded'
    BY <2>1, UnsettledSame DEF Term!BoughtOrRefunded, TermInv
  <2>4. ListedOverdue'
    BY <1>0, <2>1, <2>2 DEF ListedOverdue
  <2>5. CASE account.exists
    <3>1. account' = [account EXCEPT !.status = "expired"] /\ Term!MarkWrite("job")
      BY <1>7, <2>5 DEF Term!JobWriteExpired
    <3>2. /\ account' \in RowType /\ account'.exists = account.exists
          /\ account'.expires = account.expires /\ account'.limit = account.limit
          /\ account'.status = "expired"
      BY <1>0, <3>1 DEF RowType, Term!Statuses
    <3>3. /\ ~raced' => ~raced /\ "job" \notin outdated
          /\ \A d \in Callers : calls[d].pc # "idle" => d \in outdated'
          /\ outdated' \subseteq Callers \cup {"job"}
      BY <1>0, <3>1, WriteMarks
    <3>4. TermTyped'
      <4>1. {raced', astray'} \subseteq BOOLEAN /\ (raced' => astray')
        BY <1>0, <3>1 DEF Term!MarkWrite
      <4> QED
        BY <1>0, <2>1, <2>2, <3>2, <3>3, <4>1 DEF TermInv, TermTyped, RowType
    <3>5. CallsOK'
      BY <2>1, <3>2, <3>3 DEF TermInv, CallsOK, LimitsAlike
    <3>6. Term!PaidTermKept' /\ AdminGone'
      BY <1>0, <2>1, <2>2, <3>2, <3>3 DEF TermInv, Term!PaidTermKept, AdminGone
    <3>7. PanelAgrees'
      <4>1. Ahead' = Ahead \ {"job"} /\ "job" \in Ahead /\ Ahead \subseteq Callers \cup {"job"}
        BY <1>0, <2>1, <2>2 DEF Ahead, JobAhead
      <4>2. Ahead' \subseteq outdated'
        BY <1>0, <2>1, <3>3, <4>1 DEF Ahead, IsAhead
      <4>3. CASE Ahead' = {}
        <5> SUFFICES ASSUME panel', ~astray' PROVE Agrees(account', admin')
          BY <4>3 DEF PanelAgrees
        <5>0. ~astray /\ "job" \notin outdated
          BY <3>1, WriteMarks
        <5>1. Ahead = {"job"} /\ Ahead \cap outdated = {}
          BY <4>1, <4>3, <5>0
        <5>2. JobAgrees(job.pc, account, admin)
          BY <1>0, <2>5, <5>0, <5>1 DEF PanelAgrees
        <5> QED
          BY <2>1, <3>2, <5>2 DEF JobAgrees, Agrees
      <4>4. CASE Ahead' # {}
        BY <4>2, <4>4 DEF PanelAgrees
      <4> QED
        BY <4>3, <4>4
    <3> QED
      BY <2>3, <2>4, <3>4, <3>5, <3>6, <3>7 DEF TermInv
  <2>6. CASE ~account.exists
    <3>1. UNCHANGED <<account, raced, astray, outdated>>
      BY <1>7, <2>6 DEF Term!JobWriteExpired, Term!marks
    <3>2. PanelAgrees'
      BY <2>6, <3>1 DEF PanelAgrees
    <3> QED
      BY <1>0, <2>1, <2>2, <2>4, <3>1, <3>2, JobMoves
  <2> QED
    BY <2>5, <2>6
<1>8. CASE Term!JobListOverdue
  <2>1. /\ job.pc = "purge" /\ outdated' = outdated \ {"job"}
        /\ job' = (IF account.exists /\ account.status = "expired" /\ account.expires + GRACE <= job.now
                   THEN [job EXCEPT !.pc = "users"] ELSE Term!IdleJob)
        /\ UNCHANGED <<account, admin, wallet, clock, calls, books, raced, astray>>
    BY <1>8 DEF Term!JobListOverdue, Term!JobAt
  <2>2. /\ job' \in [pc : TermJobPcs, now : Nat] /\ ~ JobAhead /\ ~ JobAhead' /\ job'.pc # "drop"
    BY <1>0, <2>1 DEF TermJobPcs, JobAhead, Term!IdleJob
  <2>3. ListedOverdue'
    BY <1>0, <2>1 DEF ListedOverdue, Term!IdleJob
  <2>4. PanelAgrees'
    BY <1>0, <2>1, <2>2, JobBehind
  <2> QED
    BY <1>0, <2>1, <2>2, <2>3, <2>4, JobMoves
<1>9. CASE Term!JobPurgeUsers
  <2>1. /\ job.pc = "users" /\ job' = [job EXCEPT !.pc = "remove"]
        /\ admin' = [admin EXCEPT !.users = FALSE]
        /\ UNCHANGED <<account, wallet, clock, calls, books, raced, astray, outdated>>
    BY <1>9 DEF Term!JobPurgeUsers, Term!JobAt, Term!marks
  <2>2. job' \in [pc : TermJobPcs, now : Nat] /\ ~ JobAhead /\ ~ JobAhead' /\ job'.pc = "remove"
        /\ job'.now = job.now
    BY <1>0, <2>1 DEF TermJobPcs, JobAhead
  <2>3. /\ admin' \in PanelAdminType
        /\ admin'.exists = admin.exists /\ admin'.enabled = admin.enabled
        /\ admin'.limit = admin.limit
    BY <1>0, <2>1 DEF PanelAdminType
  <2>4. ListedOverdue'
    BY <1>0, <2>1, <2>2 DEF ListedOverdue
  <2>5. PanelAgrees'
    BY <1>0, <2>1, <2>2, <2>3, JobBehind
  <2> QED
    BY <1>0, <2>1, <2>2, <2>3, <2>4, <2>5, JobMoves
<1>10. CASE Term!JobRemove
  <2>1. /\ job.pc = "remove" /\ job' = [job EXCEPT !.pc = "drop"]
        /\ admin' = [admin EXCEPT !.exists = FALSE, !.enabled = FALSE]
        /\ UNCHANGED <<account, wallet, clock, calls, books, raced, astray, outdated>>
    BY <1>10 DEF Term!JobRemove, Term!JobAt, Term!marks
  <2>2. job' \in [pc : TermJobPcs, now : Nat] /\ ~ JobAhead /\ JobAhead' /\ job'.pc = "drop"
        /\ job'.now = job.now
    BY <1>0, <2>1 DEF TermJobPcs, JobAhead
  <2>3. /\ admin' \in PanelAdminType
        /\ ~ admin'.exists
    BY <1>0, <2>1 DEF PanelAdminType
  <2>4. ListedOverdue'
    BY <1>0, <2>1, <2>2 DEF ListedOverdue
  <2>5. PanelAgrees'
    BY <1>0, <2>1, <2>2, JobEnters DEF JobAgrees
  <2> QED
    BY <1>0, <2>1, <2>2, <2>3, <2>4, <2>5, JobMoves
<1>11. CASE Term!JobPurgeFails
  <2>1. /\ job.pc \in {"users", "remove"} /\ job' = Term!IdleJob
        /\ UNCHANGED <<account, wallet, clock, calls, books, raced, outdated>>
        /\ \/ UNCHANGED <<admin, astray>>
           \/ /\ astray' = TRUE
              /\ admin' = (IF job.pc = "users" THEN [admin EXCEPT !.users = FALSE]
                           ELSE [admin EXCEPT !.exists = FALSE, !.enabled = FALSE])
    BY <1>11 DEF Term!JobPurgeFails, Term!RaisesAfter, Term!GoApart, Term!marks
  <2>2. job' \in [pc : TermJobPcs, now : Nat] /\ ~ JobAhead /\ ~ JobAhead' /\ job'.pc # "drop"
    BY <1>0, <2>1 DEF TermJobPcs, JobAhead, Term!IdleJob
  <2>3. ListedOverdue'
    BY <1>0, <2>1 DEF ListedOverdue, Term!IdleJob
  <2>4. PanelAgrees'
    <3>1. CASE UNCHANGED <<admin, astray>>
      BY <1>0, <2>1, <2>2, <3>1, JobBehind
    <3>2. CASE astray' = TRUE
      BY <3>2 DEF PanelAgrees
    <3> QED
      BY <2>1, <3>1, <3>2
  <2>5. admin' \in PanelAdminType /\ (~admin.exists => ~admin'.exists) /\ astray' \in {astray, TRUE}
    <3>1. CASE job.pc = "users"
      BY <1>0, <2>1, <3>1 DEF PanelAdminType
    <3>2. CASE job.pc = "remove"
      BY <1>0, <2>1, <3>2 DEF PanelAdminType
    <3> QED
      BY <2>1, <3>1, <3>2
  <2> QED
    BY <1>0, <2>1, <2>2, <2>3, <2>4, <2>5, JobMoves
<1>12. CASE Term!JobDrop
  <2>1. /\ job.pc = "drop" /\ job' = Term!IdleJob /\ Term!MarkWrite("job")
        /\ account' = [account EXCEPT !.exists = FALSE]
        /\ UNCHANGED <<admin, wallet, clock, calls, books>>
    BY <1>12 DEF Term!JobDrop
  <2>2. /\ account' \in RowType /\ ~ account'.exists /\ account'.limit = account.limit
    BY <1>0, <2>1 DEF RowType
  <2>3. /\ outdated' \subseteq Callers \cup {"job"} /\ {raced', astray'} \subseteq BOOLEAN
        /\ raced' => astray'
    BY <1>0, <2>1, WriteMarks DEF Term!MarkWrite
  <2>4. Term!BoughtOrRefunded'
    BY <2>1, UnsettledSame DEF Term!BoughtOrRefunded, TermInv
  <2>5. TermTyped'
    BY <1>0, <2>1, <2>2, <2>3 DEF TermInv, TermTyped, RowType, Term!IdleJob, TermJobPcs
  <2>6. CallsOK'
    BY <2>1, <2>2 DEF TermInv, CallsOK, LimitsAlike
  <2>7. Term!PaidTermKept' /\ PanelAgrees'
    BY <2>2 DEF Term!PaidTermKept, PanelAgrees
  <2>8. AdminGone' /\ ListedOverdue'
    BY <1>0, <2>1 DEF AdminGone, ListedOverdue, Term!IdleJob
  <2> QED
    BY <2>4, <2>5, <2>6, <2>7, <2>8 DEF TermInv
<1>13. CASE Term!JobPurgeWithoutPanel
  <2>1. /\ job.pc = "users" /\ job' = [job EXCEPT !.pc = "drop"] /\ ~panel
        /\ UNCHANGED <<account, admin, wallet, clock, calls, books, raced, astray, outdated>>
    BY <1>13 DEF Term!JobPurgeWithoutPanel, Term!JobAt, Term!marks
  <2>2. job' \in [pc : TermJobPcs, now : Nat] /\ job'.pc = "drop" /\ job'.now = job.now
    BY <1>0, <2>1 DEF TermJobPcs
  <2>3. ListedOverdue'
    BY <1>0, <2>1, <2>2 DEF ListedOverdue
  <2>4. PanelAgrees'
    BY <1>0, <2>1 DEF PanelAgrees
  <2> QED
    BY <1>0, <2>1, <2>2, <2>3, <2>4, JobMoves
<1>14. CASE Term!JobStoreFails
  <2>1. /\ job.pc \in {"expire", "recheck", "write", "purge", "drop"}
        /\ job' = (IF job.pc \in {"purge", "drop"} THEN Term!IdleJob ELSE [job EXCEPT !.pc = "purge"])
        /\ UNCHANGED <<account, admin, wallet, clock, calls, books, raced, outdated>>
        /\ IF job.pc \in {"expire", "purge"} THEN astray' = astray ELSE astray' = TRUE
    BY <1>14 DEF Term!JobStoreFails, Term!JobAt, Term!GoApart, Term!marks
  <2>2. /\ job' \in [pc : TermJobPcs, now : Nat] /\ job'.pc \notin {"users", "drop"}
        /\ ~ JobAhead' /\ job'.now <= clock
    BY <1>0, <2>1 DEF TermJobPcs, Term!IdleJob, JobAhead, ListedOverdue
  <2>3. ListedOverdue'
    BY <2>1, <2>2 DEF ListedOverdue
  <2>4. PanelAgrees'
    <3>1. CASE job.pc \in {"expire", "purge"}
      BY <1>0, <2>1, <2>2, <3>1, JobBehind DEF JobAhead
    <3>2. CASE job.pc \notin {"expire", "purge"}
      BY <2>1, <3>2 DEF PanelAgrees
    <3> QED
      BY <3>1, <3>2
  <2> QED
    BY <1>0, <2>1, <2>2, <2>3, <2>4, JobMoves
<1> QED
  BY <1>1, <1>3, <1>4, <1>5, <1>6, <1>7, <1>8, <1>9, <1>10, <1>11, <1>12, <1>13, <1>14
  DEF Term!JobStep, Term!JobSteps

\* Days pass, locks lapse.
LEMMA WorldKeeps == TermAssumptions /\ TermInv /\ (Term!Tick \/ Term!LockLapses \/ UNCHANGED Term!vars) => TermInv'
<1> SUFFICES ASSUME TermAssumptions, TermInv, Term!Tick \/ Term!LockLapses \/ UNCHANGED Term!vars PROVE TermInv'
  OBVIOUS
<1>1. /\ UNCHANGED <<account, panel, admin, wallet, job, calls, books, raced, astray, outdated>>
      /\ clock' = clock + 1 \/ clock' = clock
  BY DEF Term!Tick, Term!LockLapses, Term!vars, Term!marks
<1>2. TermTyped'
  BY <1>1 DEF TermInv, TermTyped
<1>3. Term!BoughtOrRefunded'
  BY <1>1, UnsettledSame DEF TermInv, Term!BoughtOrRefunded
<1>4. Term!PaidTermKept' /\ CallsOK' /\ AdminGone'
  BY <1>1 DEF TermInv, Term!PaidTermKept, CallsOK, AdminGone
<1>5. ListedOverdue'
  <2>1. job.now \in Nat /\ clock \in Nat
    BY DEF TermInv, TermTyped
  <2> QED
    BY <1>1, <2>1 DEF TermInv, ListedOverdue
<1>6. PanelAgrees'
  <2>1. Ahead' = Ahead
    BY <1>1 DEF Ahead, JobAhead
  <2> QED
    BY <1>1, <2>1 DEF TermInv, PanelAgrees
<1> QED
  BY <1>2, <1>3, <1>4, <1>5, <1>6 DEF TermInv

\* Nothing is said of the panel any more.
LEMMA DeletePanelKeeps == TermAssumptions /\ TermInv /\ Term!DeletePanel => TermInv'
<1> SUFFICES ASSUME TermAssumptions, TermInv, Term!DeletePanel PROVE TermInv'
  OBVIOUS
<1>1. /\ UNCHANGED <<account, admin, wallet, clock, job, calls, books, raced, astray, outdated>>
      /\ panel' = FALSE
  BY DEF Term!DeletePanel, Term!marks
<1>2. TermTyped' /\ CallsOK' /\ ListedOverdue' /\ Term!PaidTermKept'
  BY <1>1 DEF TermInv, TermTyped, CallsOK, ListedOverdue, Term!PaidTermKept
<1>3. Term!BoughtOrRefunded'
  BY <1>1, UnsettledSame DEF TermInv, Term!BoughtOrRefunded
<1>4. AdminGone' /\ PanelAgrees'
  BY <1>1 DEF AdminGone, PanelAgrees
<1> QED
  BY <1>2, <1>3, <1>4 DEF TermInv

LEMMA RestartKeeps == TermAssumptions /\ TermInv /\ Term!Restart => TermInv'
<1> SUFFICES ASSUME TermAssumptions, TermInv, Term!Restart PROVE TermInv'
  OBVIOUS
<1>1. /\ books' = [books EXCEPT !.crashed = @ + Cardinality(Term!Unsettled)]
      /\ job' = Term!IdleJob /\ astray' = TRUE /\ calls' = [c \in Callers |-> Term!IdleCall]
      /\ UNCHANGED <<account, panel, admin, wallet, clock, raced, outdated>>
  BY SameCardinality DEF Term!Restart, Term!GoApart
<1>2. calls' \in [Callers -> RequestType] /\ \A c \in Callers : calls'[c] = Term!IdleCall
  BY <1>1, IdleIs
<1>3. Term!Unsettled' = {}
  BY <1>2, IdleIs DEF Term!Unsettled
<1>4. Cardinality(Term!Unsettled) \in Nat
  <2>1. IsFiniteSet(Term!Unsettled)
    BY FS_Subset DEF Term!Unsettled, TermAssumptions
  <2> QED
    BY <2>1, FS_CardinalityType
<1>5. /\ books' \in [bought : Nat, dropped : Nat, crashed : Nat, granted : Nat]
      /\ books'.bought = books.bought /\ books'.dropped = books.dropped
      /\ books'.crashed = books.crashed + Cardinality(Term!Unsettled)
      /\ books.bought \in Nat /\ books.dropped \in Nat /\ books.crashed \in Nat
      /\ wallet \in Nat /\ books'.granted = books.granted
  <2>1. /\ books \in [bought : Nat, dropped : Nat, crashed : Nat, granted : Nat]
        /\ books.crashed + Cardinality(Term!Unsettled) \in Nat /\ wallet \in Nat
    BY <1>4 DEF TermInv, TermTyped
  <2>2. books' = [books EXCEPT !.crashed = books.crashed + Cardinality(Term!Unsettled)]
    BY <1>1, <2>1
  <2> QED
    BY <2>1, <2>2
<1>6. Term!BoughtOrRefunded'
  <2>1. Cardinality(Term!Unsettled') = 0
    BY <1>3, FS_EmptySet
  <2>2. wallet + books.bought + books.dropped + books.crashed + Cardinality(Term!Unsettled) = WALLET
    BY SameCardinality DEF TermInv, Term!BoughtOrRefunded
  <2>3. wallet' + books'.bought + books'.dropped + books'.crashed + Cardinality(Term!Unsettled') = WALLET
    BY <1>1, <1>4, <1>5, <2>1, <2>2
  <2> QED
    BY <2>3, SameCardinality DEF Term!BoughtOrRefunded
<1>7. TermTyped'
  BY <1>1, <1>2, <1>5 DEF TermInv, TermTyped, Term!IdleJob, TermJobPcs
<1>8. CallsOK'
  BY <1>1, <1>2, IdleIs DEF CallsOK
<1>9. AdminGone'
  BY <1>1, <1>2, IdleIs DEF TermInv, AdminGone, Term!IdleJob
<1>10. ListedOverdue'
  BY <1>1 DEF TermInv, TermTyped, ListedOverdue, Term!IdleJob
<1>11. Term!PaidTermKept' /\ PanelAgrees'
  BY <1>1, <1>5 DEF TermInv, Term!PaidTermKept, PanelAgrees
<1> QED
  BY <1>6, <1>7, <1>8, <1>9, <1>10, <1>11 DEF TermInv

LEMMA TermInvKept == TermAssumptions /\ TermInv /\ [Term!Next]_(Term!vars) => TermInv'
<1> SUFFICES ASSUME TermAssumptions, TermInv, [Term!Next]_(Term!vars) PROVE TermInv'
  OBVIOUS
<1>1. CASE Term!JobStep
  BY <1>1, JobKeeps
<1>2. ASSUME NEW c \in Callers, Term!CallStep(c) PROVE TermInv'
  BY <1>2, RequestKeeps, DebitKeeps, PanelFailsKeeps, NotSwitchedOnKeeps, ModifyKeeps,
     SwitchKeeps, PurgeKeeps, PurgeWithoutPanelKeeps, RemoveKeeps, StoreKeeps, StoreFailsKeeps
  DEF Term!CallStep
<1>3. CASE Term!Tick \/ Term!LockLapses \/ UNCHANGED Term!vars
  BY <1>3, WorldKeeps
<1>4. CASE Term!Restart
  BY <1>4, RestartKeeps
<1>5. CASE Term!DeletePanel
  BY <1>5, DeletePanelKeeps
<1> QED
  BY <1>1, <1>2, <1>3, <1>4, <1>5 DEF Term!Next

LEMMA TermInvAlways == TermAssumptions /\ Term!Spec => []TermInv
<1> SUFFICES ASSUME TermAssumptions PROVE Term!Spec => []TermInv
  OBVIOUS
<1>1. Term!Init => TermInv
  BY TermInitOK
<1>2. TermInv /\ [Term!Next]_(Term!vars) => TermInv'
  BY TermInvKept
<1> QED
  BY <1>1, <1>2, PTL DEF Term!Spec

\* Every toman a purchase of a reseller took is on its way, was given back or bought what the
\* row holds, and no period that was paid for or given is swallowed, unless a request wrote
\* from an outdated copy, for any number of requests beside the job (reseller_renewal.py,
\* addons.py and accounts.py), although calls fail or raise after they took effect.
THEOREM TermPaidForAlways == ASSUME TermAssumptions PROVE Term!Spec => []Term!TermPaidFor
<1>1. TermInv => Term!TermPaidFor
  BY DEF TermInv, Term!TermPaidFor
<1> QED
  BY <1>1, TermInvAlways, PTL

\* As long as the bot has the panel no admin is left on it without a row, whoever drops the
\* row and whatever fails (purge_reseller_admin in services/panels/admins.py, before
\* delete_account); and once nobody is between panel and row, the panel admin is on exactly
\* when the row is active and has its volume, unless a copy was outdated, a failure came in
\* between, or a call raised although it took effect.
THEOREM PanelFollowsRowAlways ==
    ASSUME TermAssumptions PROVE Term!Spec => [](Term!PanelFollowsRow /\ Term!NoOrphanAdmin)
<1>1. TermInv => Term!PanelFollowsRow
  <2> SUFFICES ASSUME TermInv, Term!Quiet, panel, ~astray, account.exists
               PROVE  (admin.enabled <=> account.status = "active") /\ admin.limit = account.limit
    BY DEF Term!PanelFollowsRow
  <2>1. Ahead = {}
    BY DEF Term!Quiet, Ahead, IsAhead, JobAhead
  <2> QED
    BY <2>1 DEF TermInv, PanelAgrees, Agrees
<1>2. TermInv => Term!NoOrphanAdmin
  BY DEF TermInv, AdminGone, Term!NoOrphanAdmin
<1> QED
  BY <1>1, <1>2, TermInvAlways, PTL

\* No step of the job destroys the users of an account before the grace period after its
\* term is over, unless a renewal came after the job had listed it (the purge of
\* jobs/reseller/billing.py).
THEOREM PurgedOnlyAfterGraceAlways ==
    ASSUME TermAssumptions PROVE Term!Spec => Term!PurgedOnlyAfterGrace
<1>1. TermInv => Term!PurgesInTime
  <2> SUFFICES ASSUME TermInv, job.pc = "users", "job" \notin outdated
               PROVE  account.status = "expired" /\ account.expires + GRACE <= clock
    BY DEF Term!PurgesInTime
  <2>1. /\ account.status = "expired" /\ account.expires + GRACE <= job.now /\ job.now <= clock
    BY DEF TermInv, ListedOverdue
  <2>2. account.expires + GRACE \in Int /\ job.now \in Int /\ clock \in Int
    BY DEF TermInv, TermTyped, TermAssumptions, Term!TermAssumption
  <2> QED
    BY <2>1, <2>2
<1>2. TermInv => [Term!PurgesInTime]_(Term!vars)
  BY <1>1
<1> QED
  BY <1>2, TermInvAlways, PTL DEF Term!PurgedOnlyAfterGrace
=============================================================================
