--------------------------- MODULE ResellerBilling ---------------------------
(***************************************************************************)
(* One pay-as-you-go reseller account: the billing job that runs every     *)
(* minute (src/app/jobs/reseller/billing.py), the actions of the reseller  *)
(* and of the admin on the same account (src/app/services/reseller/        *)
(* accounts.py, usage_cap.py, admin_tools.py) and the panel admin they     *)
(* switch on and off.  All of them work on a copy of the account row,      *)
(* await the panel and write the row afterwards; only the charge for       *)
(* traffic is one transaction, which checks the baseline it started from.  *)
(*                                                                         *)
(* The account is billed by the hour or by traffic.  What it consumes is   *)
(* counted in minutes of status "active" or in units of traffic; the       *)
(* history variable meter records it beside what was charged.              *)
(***************************************************************************)
EXTENDS Integers

CONSTANTS
    Callers,       \* requests of the reseller and of admins under way at once
    Modes,         \* the pricing modes, of "hourly" and "usage"
    Rate, Unit,    \* Rate tomans for Unit minutes, or units of traffic; positive
    Caps,          \* values of usage_cap_bytes, 0 for none
    ALLOW_DEBT,    \* the setting reseller_usage_debt, a BOOLEAN
    MAX_CLOCK, MAX_TRAFFIC, MAX_WALLET, MAX_RESETS, MAX_FAULTS   \* bounds

ASSUME CallersAssumption == "job" \notin Callers
ASSUME PricesAssumption ==
    Rate \in Nat /\ Unit \in Nat \ {0} /\ Modes \subseteq {"hourly", "usage"} /\ Caps \subseteq Nat

VARIABLES
    account,   \* the row: mode, status, last_billed_at, hourly_carry,
               \* billed_traffic (and the counter it was read from), cap, total_billed
    admin,     \* the panel admin: enabled, used_traffic, which counter
    wallet,    \* users.amount
    clock,     \* minutes
    ledger,    \* sum of the rows of reseller_billing_snapshots
    job,       \* the run of the job, with its copy of the row (and, as history,
               \* whether the baseline was set since it was copied)
    calls,     \* calls[c]: a request, with its copy of the row
    meter,     \* history: consumed, charged, forgiven, rewound, paid
    outdated,  \* history: whose copy is older than the last write of the status, or
               \* than the last switch of the panel admin that wrote none
    apart,     \* history: the last of these was made by one of them, or broke off
               \* between the panel and the row
    faults     \* restarts of the process and failed stores so far

marks == <<apart, outdated>>
vars == <<account, admin, wallet, clock, ledger, job, calls, meter, marks, faults>>

Statuses == {"active", "paused", "suspended", "usage_capped", "admin_paused"}

IdleJob == [pc |-> "idle", now |-> 0, last |-> 0, carry |-> 0, billed |-> 0,
            moved |-> FALSE, cap |-> 0, used |-> 0, counter |-> 0]
IdleCall == [pc |-> "idle", op |-> "pause", status |-> "active", value |-> 0,
             to |-> "active", billed |-> 0, used |-> 0, counter |-> 0]

Init ==
    /\ \E m \in Modes :
         account = [mode |-> m, status |-> "active", last |-> 0, carry |-> 0,
                    billed |-> 0, basis |-> 0, cap |-> 0, total |-> 0]
    /\ admin = [enabled |-> TRUE, used |-> 0, counter |-> 0]
    /\ wallet \in 0..MAX_WALLET
    /\ clock = 0 /\ ledger = 0 /\ faults = 0 /\ apart = FALSE /\ outdated = {}
    /\ job = IdleJob
    /\ calls = [c \in Callers |-> IdleCall]
    /\ meter = [consumed |-> 0, charged |-> 0, forgiven |-> 0, rewound |-> 0, paid |-> 0]

-----------------------------------------------------------------------------
(* Prices.                                                                 *)

Max0(n) == IF n > 0 THEN n ELSE 0
AtLeast1(n) == IF n < 1 THEN 1 ELSE n

\* Python's round of n / d.
RoundHalfEven(n, d) ==
    LET q == n \div d
        r == n % d
    IN  IF 2 * r > d \/ (2 * r = d /\ q % 2 = 1) THEN q + 1 ELSE q

\* A counter below the baseline was reset: all it shows is new.
UsageDelta(used, baseline) ==
    IF used < baseline THEN used ELSE used - baseline

UsageCharge(delta) == RoundHalfEven(delta * Rate, Unit)

\* The minutes the job bills, and their price in tomans per Unit.
Elapsed == Max0(job.now - job.last)
HourlyExact == Rate * Elapsed + job.carry

\* What the wallet must hold for the job to switch the account on again, and
\* for the reseller to resume.
ReactivationNeeds(pending) ==
    AtLeast1(IF account.mode = "hourly" THEN RoundHalfEven(Rate, Unit) ELSE pending)
ResumeNeeds(pending) ==
    AtLeast1(IF account.mode = "hourly" THEN Rate \div Unit ELSE pending)

\* Consumed and not billed yet: what the account would be charged for now.
Unbilled(row, adm, now) ==
    IF row.mode = "hourly"
    THEN IF row.status = "active" THEN now - row.last ELSE 0
    ELSE IF row.basis = adm.counter THEN adm.used - row.billed ELSE adm.used

-----------------------------------------------------------------------------
(* Writes of the row.  The writer is the job or one of Callers.            *)

InFlight == {c \in Callers : calls[c].pc # "idle"} \cup {w \in {"job"} : job.pc # "idle"}

\* Those who have switched the panel admin and not yet written the row.
Between ==
    {c \in Callers : calls[c].pc = "store" /\ calls[c].to # calls[c].status}
        \cup {w \in {"job"} : job.pc \in {"revive", "capped", "suspended"}}

MarkWrite(writer) ==
    /\ apart' = (writer \in outdated)
    /\ outdated' = InFlight \ {writer}

\* The panel admin was switched, but the panel's answer did not come or the row could
\* not be written: the row says what it said.
LeaveApart(writer) ==
    /\ apart' = TRUE
    /\ outdated' = InFlight \ {writer}

MarkCopy(reader) == outdated' = outdated \ {reader} /\ UNCHANGED apart

WriteStatus(writer, s) ==
    /\ account' = [account EXCEPT !.status = s]
    /\ MarkWrite(writer)

\* Mutant: the account is switched on, its billing clock stays where it was.
ResetKeepsClock(writer) == WriteStatus(writer, "active")

ResetBillingClock(writer) ==
    /\ account' = [account EXCEPT !.status = "active", !.last = clock]
    /\ MarkWrite(writer)

\* Mutant: the baseline is not compared with the copy.
RecordUnchecked ==
    LET delta == UsageDelta(job.used, job.billed)
        charge == UsageCharge(delta)
        row == [account EXCEPT !.billed = job.used, !.basis = job.counter,
                               !.total = @ + charge]
    IN  /\ wallet' = wallet - charge
        /\ account' = row
        /\ ledger' = ledger + charge
        /\ meter' = [meter EXCEPT !.charged = @ + delta, !.paid = @ + charge]
        /\ job' = IF wallet < charge THEN [job EXCEPT !.pc = "suspend"]
                                     ELSE [job EXCEPT !.pc = "cap"]

\* The transaction that debits the wallet, moves the baseline and adds the
\* ledger row, unless the baseline is no longer the one copied.
RecordUsageCharge ==
    LET delta == UsageDelta(job.used, job.billed)
        charge == UsageCharge(delta)
        row == [account EXCEPT !.billed = job.used, !.basis = job.counter,
                               !.total = @ + charge]
    IN  IF account.billed # job.billed
        THEN job' = IdleJob /\ UNCHANGED <<wallet, account, ledger, meter>>
        ELSE IF wallet < charge /\ ~ALLOW_DEBT
        THEN job' = [job EXCEPT !.pc = "suspend"]
             /\ UNCHANGED <<wallet, account, ledger, meter>>
        ELSE /\ wallet' = wallet - charge
             /\ account' = row
             /\ ledger' = ledger + charge
             \* The same number again: the check cannot tell a baseline that moved.
             /\ meter' = [meter EXCEPT !.charged = @ + delta, !.paid = @ + charge,
                            !.rewound = @ + IF ~job.moved THEN 0
                                            ELSE Max0(delta + Unbilled(row, admin, clock)
                                                      - Unbilled(account, admin, clock))]
             /\ job' = [job EXCEPT !.pc = IF wallet < charge THEN "suspend" ELSE "cap"]

-----------------------------------------------------------------------------
(* The job.  One run at a time; its clock is read when it starts.          *)

JobStart ==
    /\ job.pc = "idle"
    /\ job' = [job EXCEPT !.pc = "listSuspended", !.now = clock]
    /\ UNCHANGED <<account, admin, wallet, clock, ledger, calls, meter, marks, faults>>

Copied(pc) ==
    [job EXCEPT !.pc = pc, !.last = account.last, !.carry = account.carry,
                !.billed = account.billed, !.moved = FALSE, !.cap = account.cap]

JobListSuspended ==
    /\ job.pc = "listSuspended"
    /\ job' = IF account.status = "suspended" THEN Copied("weigh")
                                              ELSE [job EXCEPT !.pc = "list"]
    /\ MarkCopy("job")
    /\ UNCHANGED <<account, admin, wallet, clock, ledger, calls, meter, faults>>

\* Mutant: a wallet that holds exactly what is needed does not suffice.
WeighStrictly ==
    /\ job.pc = "weigh"
    /\ LET pending == UsageCharge(UsageDelta(admin.used, job.billed))
       IN  job' = [job EXCEPT !.pc = IF wallet > ReactivationNeeds(pending)
                                     THEN "activate" ELSE "list"]
    /\ UNCHANGED <<account, admin, wallet, clock, ledger, calls, meter, marks, faults>>

\* The wallet, and for a usage account what the panel counted.
JobWeigh ==
    /\ job.pc = "weigh"
    /\ LET pending == UsageCharge(UsageDelta(admin.used, job.billed))
       IN  job' = [job EXCEPT !.pc = IF wallet >= ReactivationNeeds(pending)
                                     THEN "activate" ELSE "list"]
    /\ UNCHANGED <<account, admin, wallet, clock, ledger, calls, meter, marks, faults>>

\* Nothing catches this error: the run ends before it bills anyone.
JobWeighFails ==
    /\ job.pc = "weigh" /\ account.mode = "usage"
    /\ job' = IdleJob
    /\ UNCHANGED <<account, admin, wallet, clock, ledger, calls, meter, marks, faults>>

\* A call of the panel that switches the admin, or fails before it did.
JobSwitches(from, on, done, failed) ==
    /\ job.pc = from
    /\ \/ admin' = [admin EXCEPT !.enabled = on] /\ job' = [job EXCEPT !.pc = done]
       \/ UNCHANGED admin /\ job' = failed
    /\ UNCHANGED <<account, wallet, clock, ledger, calls, meter, marks, faults>>

JobActivate == JobSwitches("activate", TRUE, "revive", [job EXCEPT !.pc = "list"])

JobRevive ==
    /\ job.pc = "revive"
    /\ ResetBillingClock("job")
    /\ job' = [job EXCEPT !.pc = "list"]
    /\ UNCHANGED <<admin, wallet, clock, ledger, calls, meter, faults>>

JobList ==
    /\ job.pc = "list"
    /\ job' = IF account.status # "active" THEN IdleJob
              ELSE IF account.mode = "hourly" THEN Copied("debit") ELSE Copied("meter")
    /\ MarkCopy("job")
    /\ UNCHANGED <<account, admin, wallet, clock, ledger, calls, meter, faults>>

\* patch_billing_state: the clock moves to the copy's clock and the minutes billed.
Patched(charge) ==
    [account EXCEPT !.last = job.last + Elapsed, !.carry = HourlyExact % Unit,
                    !.total = @ + charge]

PatchBillingState(charge) ==
    /\ account' = Patched(charge)
    /\ meter' = [meter EXCEPT !.rewound = @ + Max0(Unbilled(Patched(charge), admin, clock)
                                                   - Unbilled(account, admin, clock))]

JobDebit ==
    /\ job.pc = "debit"
    /\ LET charge == HourlyExact \div Unit
       IN  \/ /\ Elapsed = 0
              /\ job' = IdleJob
              /\ UNCHANGED <<account, wallet, meter>>
           \/ /\ Elapsed > 0 /\ charge = 0
              /\ PatchBillingState(0)
              /\ job' = IdleJob
              /\ UNCHANGED wallet
           \/ /\ Elapsed > 0 /\ charge > 0 /\ wallet >= charge
              /\ wallet' = wallet - charge
              /\ meter' = [meter EXCEPT !.charged = @ + Elapsed, !.paid = @ + charge]
              /\ job' = [job EXCEPT !.pc = "patch"]
              /\ UNCHANGED account
           \/ /\ Elapsed > 0 /\ charge > 0 /\ wallet < charge
              /\ job' = [job EXCEPT !.pc = "suspend"]
              /\ UNCHANGED <<account, wallet, meter>>
    /\ UNCHANGED <<admin, clock, ledger, calls, marks, faults>>

JobPatch ==
    /\ job.pc = "patch"
    /\ PatchBillingState(HourlyExact \div Unit)
    /\ job' = [job EXCEPT !.pc = "ledger"]
    /\ UNCHANGED <<admin, wallet, clock, ledger, calls, marks, faults>>

\* Minutes that were debited while the clock still stands before them.
Debited == IF job.pc = "patch" /\ account.status = "active" /\ account.last = job.last
           THEN Elapsed ELSE 0
LosesDebit == meter' = [meter EXCEPT !.rewound = @ + Debited]

\* A database error is logged, and the run goes on.
JobPatchFails ==
    /\ job.pc = "patch" /\ faults < MAX_FAULTS
    /\ faults' = faults + 1
    /\ LosesDebit
    /\ job' = [job EXCEPT !.pc = "ledger"]
    /\ UNCHANGED <<account, admin, wallet, clock, ledger, calls, marks>>

JobLedger ==
    /\ job.pc = "ledger"
    /\ ledger' = ledger + HourlyExact \div Unit
    /\ job' = IdleJob
    /\ UNCHANGED <<account, admin, wallet, clock, calls, meter, marks, faults>>

JobLedgerFails ==
    /\ job.pc = "ledger" /\ faults < MAX_FAULTS
    /\ faults' = faults + 1
    /\ job' = IdleJob
    /\ UNCHANGED <<account, admin, wallet, clock, ledger, calls, meter, marks>>

JobMeter ==
    /\ job.pc = "meter"
    /\ job' = [job EXCEPT !.pc = "charge", !.used = admin.used, !.counter = admin.counter]
    /\ UNCHANGED <<account, admin, wallet, clock, ledger, calls, meter, marks, faults>>

JobMeterFails ==
    /\ job.pc = "meter"
    /\ job' = IdleJob
    /\ UNCHANGED <<account, admin, wallet, clock, ledger, calls, meter, marks, faults>>

\* A price of zero leaves the traffic for a later run.
JobCharge ==
    /\ job.pc = "charge"
    /\ IF UsageCharge(UsageDelta(job.used, job.billed)) > 0
       THEN RecordUsageCharge
       ELSE job' = [job EXCEPT !.pc = "cap"] /\ UNCHANGED <<account, wallet, ledger, meter>>
    /\ UNCHANGED <<admin, clock, calls, marks, faults>>

JobUnderCap ==
    /\ job.pc = "cap" /\ (job.cap = 0 \/ job.used < job.cap)
    /\ job' = IdleJob
    /\ UNCHANGED <<account, admin, wallet, clock, ledger, calls, meter, marks, faults>>

\* Mutant: the row is written although the panel did not switch the admin off.
CapRegardless ==
    /\ job.pc = "cap" /\ job.cap # 0 /\ job.used >= job.cap
    /\ job' = [job EXCEPT !.pc = "capped"]
    /\ UNCHANGED <<account, admin, wallet, clock, ledger, calls, meter, marks, faults>>

JobCap == job.cap # 0 /\ job.used >= job.cap /\ JobSwitches("cap", FALSE, "capped", IdleJob)
JobSuspend == JobSwitches("suspend", FALSE, "suspended", IdleJob)

JobSwitchedOff(from, s) ==
    /\ job.pc = from
    /\ WriteStatus("job", s)
    /\ job' = IdleJob
    /\ UNCHANGED <<admin, wallet, clock, ledger, calls, meter, faults>>

JobCapped == JobSwitchedOff("capped", "usage_capped")
JobSuspended == JobSwitchedOff("suspended", "suspended")

\* The panel admin is switched, but the call raises, or update_account or
\* reset_billing_clock answer a database error with False.
JobStoreFails ==
    /\ job.pc \in {"revive", "capped", "suspended"}
    /\ LeaveApart("job")
    /\ job' = IF job.pc = "revive" THEN [job EXCEPT !.pc = "list"] ELSE IdleJob
    /\ UNCHANGED <<account, admin, wallet, clock, ledger, calls, meter, faults>>

-----------------------------------------------------------------------------
(* Requests.  The row is read and the operation's guards are decided on    *)
(* it; the panel is called; the row is written.                            *)

Allowed(op, s) ==
    CASE op = "pause" -> s \in {"active", "suspended"}
      [] op = "lock" -> s # "admin_paused"
      [] op = "resume" -> s = "paused"
      [] op = "unlock" -> s \in {"paused", "admin_paused"}
      [] op = "resync" -> TRUE
      [] op \in {"cap", "forgive"} -> account.mode = "usage"

Request(c) ==
    /\ calls[c].pc = "idle"
    /\ \E op \in {"pause", "resume", "lock", "unlock", "resync", "cap", "forgive"}, v \in Caps :
         /\ Allowed(op, account.status)
         /\ op = "cap" \/ v = 0
         /\ calls' = [calls EXCEPT ![c] =
              [@ EXCEPT !.pc = "panel", !.op = op, !.status = account.status,
                        !.value = v, !.billed = account.billed]]
    /\ MarkCopy(c)
    /\ UNCHANGED <<account, admin, wallet, clock, ledger, job, meter, faults>>

\* Mutant: the new cap decides the status, whatever it was.
CapTargetBlind(call) ==
    IF call.value = 0 \/ admin.used < call.value THEN "active" ELSE "usage_capped"

\* The status the request will write, seen from its copy of the row.
CapTarget(call) ==
    CASE call.status = "usage_capped" /\ (call.value = 0 \/ admin.used < call.value) -> "active"
      [] call.status = "active" /\ call.value # 0 /\ admin.used >= call.value -> "usage_capped"
      [] OTHER -> call.status

Target(call) ==
    CASE call.op = "pause" -> "paused"
      [] call.op = "lock" -> "admin_paused"
      [] call.op \in {"resume", "unlock"} -> "active"
      [] call.op = "cap" -> CapTarget(call)
      [] call.op \in {"forgive", "resync"} -> call.status

Switches(call) == call.op = "resync" \/ Target(call) # call.status

\* A reseller, or an admin over a paused account, may switch it on only when
\* the wallet covers what it owes.
Affordable(call) ==
    call.op \in {"resume", "unlock"} /\ call.status = "paused" =>
        wallet >= ResumeNeeds(UsageCharge(UsageDelta(admin.used, call.billed)))

Call(c) ==
    /\ calls[c].pc = "panel" /\ calls[c].op # "resync"
    /\ Affordable(calls[c])
    /\ LET call == calls[c]
       IN  /\ admin' = [admin EXCEPT !.enabled =
                          IF Switches(call) THEN Target(call) = "active" ELSE @]
           /\ calls' = [calls EXCEPT ![c] =
                [@ EXCEPT !.pc = "store", !.to = Target(call),
                          !.used = admin.used, !.counter = admin.counter]]
    /\ UNCHANGED <<account, wallet, clock, ledger, job, meter, marks, faults>>

\* resync_with_panel writes the status of its copy onto the panel admin, and no row.
Resync(c) ==
    /\ calls[c].pc = "panel" /\ calls[c].op = "resync"
    /\ admin' = [admin EXCEPT !.enabled = calls[c].status = "active"]
    /\ calls' = [calls EXCEPT ![c] = IdleCall]
    /\ MarkWrite(c)
    /\ UNCHANGED <<account, wallet, clock, ledger, job, meter, faults>>

\* The panel fails before it did anything, or the wallet does not suffice.
CallFails(c) ==
    /\ calls[c].pc = "panel"
    /\ calls' = [calls EXCEPT ![c] = IdleCall]
    /\ UNCHANGED <<account, admin, wallet, clock, ledger, job, meter, marks, faults>>

Forgive(call) ==
    LET row == [account EXCEPT !.billed = call.used, !.basis = call.counter]
        gain == Unbilled(row, admin, clock) - Unbilled(account, admin, clock)
    IN  /\ account' = row
        /\ meter' = [meter EXCEPT !.forgiven = @ + Max0(-gain), !.rewound = @ + Max0(gain)]
        /\ job' = [job EXCEPT !.moved = job.pc \in {"meter", "charge"}]
        /\ UNCHANGED marks

Store(c) ==
    /\ calls[c].pc = "store" /\ calls[c].op # "resync"
    /\ LET call == calls[c]
       IN  CASE call.op \in {"pause", "lock"} ->
                  WriteStatus(c, call.to) /\ UNCHANGED <<job, meter>>
             [] call.op \in {"resume", "unlock"} ->
                  ResetBillingClock(c) /\ UNCHANGED <<job, meter>>
             [] call.op = "cap" ->
                  /\ account' = [account EXCEPT !.cap = call.value,
                       !.status = IF call.to # call.status THEN call.to ELSE @]
                  /\ IF call.to # call.status THEN MarkWrite(c) ELSE UNCHANGED marks
                  /\ UNCHANGED <<job, meter>>
             [] call.op = "forgive" -> Forgive(call)
    /\ calls' = [calls EXCEPT ![c] = IdleCall]
    /\ UNCHANGED <<admin, wallet, clock, ledger, faults>>

\* The call took effect and raised nevertheless, or the row could not be written:
\* the request ends there.
StoreFails(c) ==
    /\ calls[c].pc = "store"
    /\ IF c \in Between THEN LeaveApart(c) ELSE UNCHANGED marks
    /\ calls' = [calls EXCEPT ![c] = IdleCall]
    /\ UNCHANGED <<account, admin, wallet, clock, ledger, job, meter, faults>>

-----------------------------------------------------------------------------
(* The world.                                                              *)

\* Time, which only the hourly price reads.
Tick ==
    /\ account.mode = "hourly" /\ clock < MAX_CLOCK
    /\ clock' = clock + 1
    /\ meter' = [meter EXCEPT !.consumed =
                   @ + IF account.status = "active" THEN 1 ELSE 0]
    /\ UNCHANGED <<account, admin, wallet, ledger, job, calls, marks, faults>>

\* The reseller's users use traffic; a disabled admin's users cannot.
Traffic ==
    /\ account.mode = "usage" /\ admin.enabled /\ meter.consumed < MAX_TRAFFIC
    /\ admin' = [admin EXCEPT !.used = @ + 1]
    /\ meter' = [meter EXCEPT !.consumed = @ + 1]
    /\ UNCHANGED <<account, wallet, clock, ledger, job, calls, marks, faults>>

\* Somebody resets the usage of the admin on the panel.
PanelReset ==
    /\ account.mode = "usage" /\ admin.counter < MAX_RESETS
    /\ admin' = [admin EXCEPT !.used = 0, !.counter = @ + 1]
    /\ UNCHANGED <<account, wallet, clock, ledger, job, calls, meter, marks, faults>>

TopUp ==
    /\ wallet < MAX_WALLET
    /\ wallet' = wallet + 1
    /\ UNCHANGED <<account, admin, clock, ledger, job, calls, meter, marks, faults>>

\* The process dies: the run and the requests are gone.
Restart ==
    /\ faults < MAX_FAULTS
    /\ faults' = faults + 1
    /\ LosesDebit
    /\ job' = IdleJob
    /\ calls' = [c \in Callers |-> IdleCall]
    /\ apart' = (apart \/ Between # {})
    /\ UNCHANGED <<account, admin, wallet, clock, ledger, outdated>>

JobStep ==
    \/ JobStart \/ JobListSuspended \/ JobWeigh \/ JobWeighFails \/ JobActivate \/ JobRevive
    \/ JobList \/ JobDebit \/ JobPatch \/ JobPatchFails \/ JobLedger \/ JobLedgerFails
    \/ JobMeter \/ JobMeterFails \/ JobCharge \/ JobUnderCap
    \/ JobCap \/ JobSuspend \/ JobCapped \/ JobSuspended \/ JobStoreFails

Next ==
    \/ JobStep
    \/ \E c \in Callers : Request(c) \/ Call(c) \/ Resync(c) \/ CallFails(c)
                          \/ Store(c) \/ StoreFails(c)
    \/ Tick \/ Traffic \/ PanelReset \/ TopUp \/ Restart

Spec == Init /\ [][Next]_vars

\* The scheduler starts the job every minute and awaits what it does; the panel and
\* the database do not fail for ever.
JobActivates == JobActivate /\ job'.pc = "revive"
FairSpec == Spec /\ WF_vars(JobStep) /\ SF_vars(JobWeigh) /\ SF_vars(JobActivates)
            /\ SF_vars(JobRevive)

-----------------------------------------------------------------------------
(* Properties.                                                             *)

BillingTypeOK ==
    /\ account.mode \in Modes /\ account.status \in Statuses
    /\ {account.last, account.billed, account.basis, account.cap, account.total} \subseteq Nat
    /\ account.carry \in 0..(Unit - 1)
    /\ admin.enabled \in BOOLEAN /\ admin.used \in Nat /\ admin.counter \in Nat
    /\ wallet \in Int /\ clock \in Nat /\ ledger \in Nat /\ faults \in Nat
    /\ \A f \in {"now", "last", "carry", "billed", "cap", "used", "counter"} :
         job[f] \in Nat
    /\ \A c \in Callers : calls[c].to \in Statuses /\ calls[c].used \in Nat
    /\ {meter.consumed, meter.charged, meter.forgiven, meter.rewound, meter.paid} \subseteq Nat
    /\ apart \in BOOLEAN /\ outdated \subseteq Callers \cup {"job"}

\* No minute and no unit of traffic is charged twice, nor charged after it was
\* forgiven, whatever requests change the row while a run charges it: what was
\* charged, forgiven and is still owed never exceeds what was consumed, but for
\* what the row itself was set back by (a copy of the clock or of the baseline
\* that a newer one replaced is written over it, a baseline set meanwhile shows the
\* number that the run had copied, or a debit died with its run).
BilledOnce ==
    meter.charged + meter.forgiven + Unbilled(account, admin, clock) - Debited
        <= meter.consumed + meter.rewound

\* What left the wallet for traffic is what the ledger and the row's total say,
\* always; for minutes the ledger row may be missing while it is being written,
\* and for good only after a crash or a database error.
BooksBalance ==
    IF account.mode = "usage" THEN meter.paid = ledger /\ ledger = account.total
    ELSE faults = 0 =>
           meter.paid = ledger + IF job.pc \in {"patch", "ledger"} THEN HourlyExact \div Unit ELSE 0

\* Once nobody is between the panel and the row, the panel admin is switched on
\* exactly when the row says active: whatever failed or raced before, it is mended by
\* the next status written, or put on the panel again, from a fresh copy. Only where
\* the last of these came from an outdated copy, or broke off between the two (a call
\* that raised although it took effect, a row not written, a crash), do they disagree.
PanelAgreesUnlessRaced ==
    Between = {} /\ ~apart => (admin.enabled <=> account.status = "active")

\* An account the admin locked is opened by the admin's unlock only, or by a
\* writer (the job's run, a change of the cap, a resume) whose copy was outdated when
\* it wrote.
LockLostOnlyToStale ==
    account.status = "admin_paused" /\ account'.status # "admin_paused" =>
        \/ apart'
        \/ \E c \in Callers :
             calls[c].op = "unlock" /\ calls[c].pc = "store" /\ calls'[c].pc = "idle"

\* A suspended account whose reseller can pay is switched on again by the job,
\* however often the panel fails for a while (_try_reactivate_suspended).
Affords == wallet >= ReactivationNeeds(UsageCharge(UsageDelta(admin.used, account.billed)))
SuspendedAffords == account.status = "suspended" /\ Affords
ComesBack == SuspendedAffords ~> ~SuspendedAffords

=============================================================================
