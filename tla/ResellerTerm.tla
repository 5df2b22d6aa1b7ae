----------------------------- MODULE ResellerTerm -----------------------------
(***************************************************************************)
(* One prepaid reseller account: its term and volume, bought by renewals   *)
(* (src/app/services/billing/reseller_renewal.py) and add-ons              *)
(* (src/app/services/reseller/addons.py), given by the admin               *)
(* (accounts.py, admin_tools.py), and ended by the job of                  *)
(* src/app/jobs/reseller/billing.py, which switches an expired account off *)
(* and removes it with its users when the grace period is over.            *)
(*                                                                         *)
(* Every operation reads the row, then debits the wallet if it is paid,    *)
(* calls the panel and writes the row, awaiting each; a renewal and an     *)
(* add-on hold a lock of the user, but not the same one.                   *)
(***************************************************************************)
EXTENDS Integers, FiniteSets

CONSTANTS
    Callers,       \* requests under way at once
    Operations,    \* the requests considered
    GRACE,         \* grace_seconds, in days
    WALLET,        \* the wallet at the start; every purchase costs 1
    MAX_CLOCK, MAX_GRANTS, MAX_FAULTS   \* bounds

Renewals == {"renew", "renewByAdmin"}
Addons == {"days", "volume"}

\* What the constants stand for.
TermAssumption ==
    /\ Operations \subseteq Renewals \cup Addons \cup
         {"extend", "pause", "lock", "resume", "unlock", "setVolume", "resync", "delete"}
    /\ {GRACE, WALLET} \subseteq Nat

VARIABLES
    account,   \* the row: exists, status, expires, limit (0: the plan has no volume)
    panel,     \* the bot still has the panel: an admin may delete its row
    admin,     \* the panel admin: exists, enabled, limit, and whether its users exist
    wallet,    \* users.amount
    clock,     \* days
    locks,     \* the locks of the user that are held
    job,       \* the run of the job, with its clock
    calls,     \* calls[c]: a request, with its copy of the row
    books,     \* history: bought, dropped, crashed purchases, granted periods
    outdated,  \* history: whose copy is older than the last write of the row
    raced,     \* history: one of them wrote
    astray,    \* history: so, or something broke off between the panel and the row
    faults     \* restarts, lapsed locks, failed stores and deleted panels so far

marks == <<raced, astray, outdated>>
vars == <<account, panel, admin, wallet, clock, locks, job, calls, books, marks, faults>>

Statuses == {"active", "paused", "admin_paused", "expired"}

IdleJob == [pc |-> "idle", now |-> 0]
IdleCall == [pc |-> "idle", op |-> "pause", status |-> "active", after |-> 0, limit |-> 0]

Init ==
    /\ \E v \in {0, 1} :
         /\ account = [exists |-> TRUE, status |-> "active", expires |-> 1, limit |-> v]
         /\ admin = [exists |-> TRUE, enabled |-> TRUE, limit |-> v, users |-> TRUE]
    /\ wallet = WALLET
    /\ clock = 0 /\ faults = 0 /\ locks = {}
    /\ panel = TRUE /\ raced = FALSE /\ astray = FALSE /\ outdated = {}
    /\ job = IdleJob
    /\ calls = [c \in Callers |-> IdleCall]
    /\ books = [bought |-> 0, dropped |-> 0, crashed |-> 0, granted |-> 0]

-----------------------------------------------------------------------------
(* Requests.                                                               *)

\* Mutant: a new term begins now, whatever is left of the old one.
FromNow(n, m) == m

Later(n, m) == IF n > m THEN n ELSE m

InFlight == {c \in Callers : calls[c].pc # "idle"} \cup {w \in {"job"} : job.pc # "idle"}
MarkWrite(writer) ==
    /\ raced' = (raced \/ writer \in outdated)
    /\ astray' = (astray \/ writer \in outdated)
    /\ outdated' = InFlight \ {writer}

\* The panel and the row go apart: only one of them was changed.
GoApart == astray' = TRUE /\ UNCHANGED <<raced, outdated>>

LockOf(op) ==
    CASE op \in Renewals -> {"reseller_renew"}
      [] op \in Addons -> {"reseller_capacity_buy"}
      [] OTHER -> {}

Paid(op) == op \in Renewals \cup Addons
Extends(op) == op \in Renewals \cup {"days", "extend"}

Allowed(op) ==
    CASE op = "renewByAdmin" -> TRUE
      [] op \in {"renew", "days"} -> account.status # "admin_paused"
      [] op = "volume" -> account.status \in {"active", "paused"} /\ account.limit > 0
      [] op = "pause" -> account.status = "active"
      [] op = "lock" -> account.status \notin {"admin_paused", "expired"}
      [] op = "resume" -> account.status = "paused"
      [] op = "unlock" -> account.status \in {"paused", "admin_paused"}
      [] op = "setVolume" -> account.limit > 0
      [] op \in {"extend", "resync", "delete"} -> TRUE

\* An account the admin locked stays off.
AfterModify(status) == IF status = "admin_paused" THEN "store" ELSE "activate"

\* Mutant: days given to an expired account only move its end.
FirstStepStores(op, status) ==
    CASE op \in Renewals -> IF account.limit > 0 THEN "modify" ELSE AfterModify(status)
      [] op \in {"days", "extend"} -> "store"
      [] op \in {"volume", "setVolume", "resync"} -> "modify"
      [] op \in {"pause", "lock"} -> "disable"
      [] op \in {"resume", "unlock"} -> "activate"
      [] op = "delete" -> "purge"

\* The first step after the copy was taken and, for a purchase, paid.
FirstStep(op, status) ==
    CASE op \in Renewals -> IF account.limit > 0 THEN "modify" ELSE AfterModify(status)
      [] op \in {"days", "extend"} -> IF status = "expired" THEN "activate" ELSE "store"
      [] op \in {"volume", "setVolume", "resync"} -> "modify"
      [] op \in {"pause", "lock"} -> "disable"
      [] op \in {"resume", "unlock"} -> "activate"
      [] op = "delete" -> "purge"

\* Without the panel a request ends before it changed anything, unless it asks for none.
NeedsPanel(op) == ~(op = "delete" \/ (op = "extend" /\ account.status # "expired"))

\* Renewals add to the panel's limit, setVolume to the row's.
Request(c) ==
    /\ calls[c].pc = "idle" /\ account.exists
    /\ \E op \in Operations :
         /\ Allowed(op) /\ (NeedsPanel(op) => panel)
         /\ op \in Renewals => admin.exists
         /\ Extends(op) \/ op \in {"volume", "setVolume"} =>
              books.granted < MAX_GRANTS /\ {account.limit, admin.limit} \subseteq 0..MAX_GRANTS
         /\ LockOf(op) \cap locks = {}
         /\ locks' = locks \cup LockOf(op)
         /\ calls' = [calls EXCEPT ![c] =
              [pc |-> IF Paid(op) THEN "debit" ELSE FirstStep(op, account.status),
               op |-> op, status |-> account.status,
               after |-> IF Extends(op) THEN Later(account.expires, clock) + 1
                                        ELSE account.expires,
               limit |-> IF account.limit = 0 THEN 0
                         ELSE CASE op \in Renewals -> admin.limit + 1
                                [] op = "setVolume" -> account.limit + 1
                                [] OTHER -> account.limit]]
    /\ outdated' = outdated \ {c}
    /\ UNCHANGED <<account, panel, admin, wallet, clock, job, books, raced, astray, faults>>

Finished(c) ==
    /\ calls' = [calls EXCEPT ![c] = IdleCall]
    /\ locks' = locks \ LockOf(calls[c].op)

Goes(c, pc) == calls' = [calls EXCEPT ![c].pc = pc] /\ UNCHANGED locks

\* An add-on of volume reads the panel's limit only now.
Debit(c) ==
    /\ calls[c].pc = "debit"
    /\ LET call == calls[c]
       IN  IF wallet = 0 THEN Finished(c) /\ UNCHANGED wallet
           ELSE /\ wallet' = wallet - 1
                /\ calls' = [calls EXCEPT ![c].pc = FirstStep(call.op, call.status),
                      ![c].limit = IF call.op = "volume" THEN admin.limit + 1 ELSE @]
                /\ UNCHANGED locks
    /\ UNCHANGED <<account, panel, admin, clock, job, books, marks, faults>>

\* Mutant: a failed purchase keeps what it took.
KeepMoney(c) == UNCHANGED wallet
\* The request failed: what it took goes back to the wallet.
Refund(c) == wallet' = wallet + IF Paid(calls[c].op) THEN 1 ELSE 0

\* What the call of the panel that the request is at does.
OnPanel(call) ==
    CASE call.pc = "modify" -> [admin EXCEPT !.limit = call.limit]
      [] call.pc = "activate" -> [admin EXCEPT !.enabled = TRUE]
      [] call.pc = "disable" -> [admin EXCEPT !.enabled = FALSE]
      [] call.pc = "purge" -> [admin EXCEPT !.users = FALSE]
      [] call.pc = "remove" -> [admin EXCEPT !.exists = FALSE, !.enabled = FALSE]

\* A call that raises did nothing, or what it should: its answer was lost.
RaisesAfter(effect) ==
    \/ UNCHANGED <<admin, marks>>
    \/ admin.exists /\ admin' = effect /\ GoApart

PanelFails(c) ==
    /\ calls[c].pc \in {"modify", "activate", "disable", "purge", "remove"}
    \* A renewal goes on when the switch fails.
    /\ ~(calls[c].pc = "activate" /\ calls[c].op \in Renewals)
    /\ calls[c].pc = "purge" => panel
    /\ Refund(c) /\ Finished(c)
    /\ RaisesAfter(OnPanel(calls[c]))
    /\ UNCHANGED <<account, panel, clock, job, books, faults>>

RenewalNotSwitchedOn(c) ==
    /\ calls[c].pc = "activate" /\ calls[c].op \in Renewals
    /\ Goes(c, "store")
    /\ GoApart
    /\ UNCHANGED <<account, panel, admin, wallet, clock, job, books, faults>>

Modify(c) ==
    /\ calls[c].pc = "modify" /\ admin.exists
    /\ admin' = OnPanel(calls[c])
    /\ LET call == calls[c]
       IN  IF call.op = "resync"
           THEN Goes(c, IF call.status = "active" THEN "activate" ELSE "disable") /\ MarkWrite(c)
           ELSE /\ Goes(c, IF call.op \in Renewals THEN AfterModify(call.status) ELSE "store")
                /\ UNCHANGED marks
    /\ UNCHANGED <<account, panel, wallet, clock, job, books, faults>>

Switch(c) ==
    /\ calls[c].pc \in {"activate", "disable"} /\ admin.exists
    /\ admin' = OnPanel(calls[c])
    /\ IF calls[c].op = "resync" THEN MarkWrite(c) /\ Finished(c)
                                 ELSE Goes(c, "store") /\ UNCHANGED marks
    /\ UNCHANGED <<account, panel, wallet, clock, job, books, faults>>

\* purge_reseller_admin: the users first, then the admin.
Purge(c) ==
    /\ calls[c].pc = "purge" /\ panel /\ admin.exists
    /\ admin' = OnPanel(calls[c])
    /\ Goes(c, "remove")
    /\ UNCHANGED <<account, panel, wallet, clock, job, books, marks, faults>>

\* A panel the bot no longer has: the row is safe_to_drop as it is.
PurgeWithoutPanel(c) ==
    /\ calls[c].pc = "purge" /\ ~panel
    /\ Goes(c, "store")
    /\ UNCHANGED <<account, panel, admin, wallet, clock, job, books, marks, faults>>

Remove(c) ==
    /\ calls[c].pc = "remove" /\ admin.exists
    /\ admin' = OnPanel(calls[c])
    /\ Goes(c, "store")
    /\ UNCHANGED <<account, panel, wallet, clock, job, books, marks, faults>>

\* What the request writes, given its copy.
Stored(call) ==
    CASE call.op \in Renewals ->
           [account EXCEPT !.expires = call.after, !.limit = call.limit,
              !.status = IF call.status = "admin_paused" THEN "admin_paused" ELSE "active"]
      [] call.op \in {"days", "extend"} ->
           [account EXCEPT !.expires = call.after,
              !.status = IF call.status = "expired" THEN "active" ELSE @]
      [] call.op \in {"volume", "setVolume"} -> [account EXCEPT !.limit = call.limit]
      [] call.op \in {"resume", "unlock"} -> [account EXCEPT !.status = "active"]
      [] call.op = "pause" -> [account EXCEPT !.status = "paused"]
      [] call.op = "lock" -> [account EXCEPT !.status = "admin_paused"]
      [] call.op = "delete" -> [account EXCEPT !.exists = FALSE]

Store(c) ==
    /\ calls[c].pc = "store" /\ account.exists
    /\ account' = Stored(calls[c])
    /\ MarkWrite(c)
    /\ books' = [books EXCEPT !.bought = @ + IF Paid(calls[c].op) THEN 1 ELSE 0,
                              !.granted = @ + IF Extends(calls[c].op) THEN 1 ELSE 0]
    /\ Finished(c)
    /\ UNCHANGED <<panel, admin, wallet, clock, job, faults>>

\* The row is gone, or the database fails.  Only an add-on looks at the result.
StoreFails(c) ==
    /\ calls[c].pc = "store"
    /\ IF account.exists THEN faults < MAX_FAULTS /\ faults' = faults + 1 ELSE UNCHANGED faults
    /\ IF calls[c].op \in Renewals
       THEN books' = [books EXCEPT !.dropped = @ + 1] /\ UNCHANGED wallet
       ELSE Refund(c) /\ UNCHANGED books
    /\ GoApart
    /\ Finished(c)
    /\ UNCHANGED <<account, panel, admin, clock, job>>

-----------------------------------------------------------------------------
(* The job.                                                                *)

JobAt(pc) == job' = [job EXCEPT !.pc = pc]

JobStart ==
    /\ job.pc = "idle" /\ account.exists
    /\ job' = [pc |-> "expire", now |-> clock]
    /\ UNCHANGED <<account, admin, wallet, clock, locks, calls, books, marks, faults>>

\* Mutant: only active accounts expire.
ListExpiredActive ==
    /\ job.pc = "expire"
    /\ JobAt(IF account.exists /\ account.expires <= job.now
                /\ account.status = "active" THEN "off" ELSE "purge")
    /\ outdated' = outdated \ {"job"}
    /\ UNCHANGED <<account, admin, wallet, clock, locks, calls, books, raced, astray, faults>>

JobListExpired ==
    /\ job.pc = "expire"
    /\ JobAt(IF account.exists /\ account.expires <= job.now
                /\ account.status \in {"active", "paused"} THEN "off" ELSE "purge")
    /\ outdated' = outdated \ {"job"}
    /\ UNCHANGED <<account, admin, wallet, clock, locks, calls, books, raced, astray, faults>>

\* An admin that no longer exists counts as switched off, one of a panel the bot no
\* longer has is left alone.
JobSwitchOff ==
    /\ job.pc = "off"
    /\ admin' = [admin EXCEPT !.enabled = admin.enabled /\ ~panel]
    /\ JobAt("recheck")
    /\ UNCHANGED <<account, wallet, clock, locks, calls, books, marks, faults>>

JobSwitchOffFails ==
    /\ job.pc = "off" /\ panel
    /\ RaisesAfter([admin EXCEPT !.enabled = FALSE])
    /\ JobAt("purge")
    /\ UNCHANGED <<account, wallet, clock, locks, calls, books, faults>>

\* The admin of an account that was renewed meanwhile stays off.
JobRecheck ==
    /\ job.pc = "recheck"
    /\ IF account.exists /\ account.expires <= job.now
       THEN JobAt("write") /\ UNCHANGED marks
       ELSE JobAt("purge") /\ GoApart
    /\ UNCHANGED <<account, admin, wallet, clock, locks, calls, books, faults>>

JobWriteExpired ==
    /\ job.pc = "write"
    /\ IF account.exists THEN account' = [account EXCEPT !.status = "expired"] /\ MarkWrite("job")
                         ELSE UNCHANGED <<account, marks>>
    /\ JobAt("purge")
    /\ UNCHANGED <<admin, wallet, clock, locks, calls, books, faults>>

\* Mutant: the grace period is forgotten.
ListOverdueAtOnce ==
    /\ job.pc = "purge"
    /\ IF account.exists /\ account.status = "expired"
       THEN JobAt("users") ELSE job' = IdleJob
    /\ outdated' = outdated \ {"job"}
    /\ UNCHANGED <<account, admin, wallet, clock, locks, calls, books, raced, astray, faults>>

JobListOverdue ==
    /\ job.pc = "purge"
    /\ IF account.exists /\ account.status = "expired" /\ account.expires + GRACE <= job.now
       THEN JobAt("users") ELSE job' = IdleJob
    /\ outdated' = outdated \ {"job"}
    /\ UNCHANGED <<account, admin, wallet, clock, locks, calls, books, raced, astray, faults>>

JobPurgeUsers ==
    /\ job.pc = "users" /\ panel /\ admin.exists
    /\ admin' = [admin EXCEPT !.users = FALSE]
    /\ JobAt("remove")
    /\ UNCHANGED <<account, wallet, clock, locks, calls, books, marks, faults>>

JobRemove ==
    /\ job.pc = "remove" /\ admin.exists
    /\ admin' = [admin EXCEPT !.exists = FALSE, !.enabled = FALSE]
    /\ JobAt("drop")
    /\ UNCHANGED <<account, wallet, clock, locks, calls, books, marks, faults>>

\* Mutant: the row goes although the admin is still on the panel.
JobPurgeFailsDropping ==
    /\ job.pc \in {"users", "remove"}
    /\ JobAt("drop")
    /\ UNCHANGED <<account, admin, wallet, clock, locks, calls, books, marks, faults>>

JobPurgeWithoutPanel ==
    /\ job.pc = "users" /\ ~panel
    /\ JobAt("drop")
    /\ UNCHANGED <<account, admin, wallet, clock, locks, calls, books, marks, faults>>

\* The row is kept for the next run.
JobPurgeFails ==
    /\ job.pc \in {"users", "remove"} /\ (job.pc = "users" => panel)
    /\ RaisesAfter(IF job.pc = "users" THEN [admin EXCEPT !.users = FALSE]
                   ELSE [admin EXCEPT !.exists = FALSE, !.enabled = FALSE])
    /\ job' = IdleJob
    /\ UNCHANGED <<account, wallet, clock, locks, calls, books, faults>>

JobDrop ==
    /\ job.pc = "drop"
    /\ account' = [account EXCEPT !.exists = FALSE]
    /\ MarkWrite("job")
    /\ job' = IdleJob
    /\ UNCHANGED <<admin, wallet, clock, locks, calls, books, faults>>

\* The database fails: nothing is listed, or what was found or done is not written down.
JobStoreFails ==
    /\ job.pc \in {"expire", "recheck", "write", "purge", "drop"} /\ faults < MAX_FAULTS
    /\ IF job.pc \in {"purge", "drop"} THEN job' = IdleJob ELSE JobAt("purge")
    /\ IF job.pc \in {"expire", "purge"} THEN UNCHANGED marks ELSE GoApart
    /\ faults' = faults + 1
    /\ UNCHANGED <<account, admin, wallet, clock, locks, calls, books>>

-----------------------------------------------------------------------------
(* The world.                                                              *)

Tick ==
    /\ clock < MAX_CLOCK
    /\ clock' = clock + 1
    /\ UNCHANGED <<account, panel, admin, wallet, locks, job, calls, books, marks, faults>>

\* The lock's time to live is over before the request.
LockLapses ==
    /\ faults < MAX_FAULTS
    /\ \E l \in locks : locks' = locks \ {l}
    /\ faults' = faults + 1
    /\ UNCHANGED <<account, panel, admin, wallet, clock, job, calls, books, marks>>

\* Purchases that took money and have neither stored nor refunded.
Unsettled == {c \in Callers : Paid(calls[c].op) /\ calls[c].pc \notin {"idle", "debit"}}

\* The process dies; its locks lapse before the bot serves again.
Restart ==
    /\ faults < MAX_FAULTS
    /\ faults' = faults + 1
    /\ books' = [books EXCEPT !.crashed = @ + Cardinality(Unsettled)]
    /\ job' = IdleJob /\ locks' = {}
    /\ calls' = [c \in Callers |-> IdleCall]
    /\ GoApart
    /\ UNCHANGED <<account, panel, admin, wallet, clock>>

\* An admin deletes the panel from the bot, whatever is sold on it.
DeletePanel ==
    /\ panel /\ faults < MAX_FAULTS
    /\ panel' = FALSE
    /\ faults' = faults + 1
    /\ UNCHANGED <<account, admin, wallet, clock, locks, job, calls, books, marks>>

JobSteps ==
    \/ JobStart \/ JobListExpired \/ JobSwitchOff \/ JobSwitchOffFails \/ JobRecheck
    \/ JobWriteExpired \/ JobListOverdue \/ JobPurgeUsers \/ JobPurgeWithoutPanel \/ JobRemove
    \/ JobPurgeFails \/ JobDrop \/ JobStoreFails
JobStep == JobSteps /\ UNCHANGED panel

Busy(c) == calls[c].pc # "idle"

CallStep(c) ==
    \/ Request(c) \/ Debit(c) \/ PanelFails(c) \/ RenewalNotSwitchedOn(c) \/ Modify(c)
    \/ Switch(c) \/ Purge(c) \/ PurgeWithoutPanel(c) \/ Remove(c)
    \/ Store(c) \/ StoreFails(c)

Next ==
    \/ JobStep \/ (\E c \in Callers : CallStep(c))
    \/ Tick \/ LockLapses \/ Restart \/ DeletePanel

Spec == Init /\ [][Next]_vars

\* The calls of the job that are tried again in every run.
Retried(k) ==
    \/ k = 1 /\ JobSwitchOff
    \/ k = 2 /\ JobPurgeUsers
    \/ k = 3 /\ JobRemove

\* The scheduler starts the job every minute; requests are awaited to their end;
\* the panel does not fail for ever.
FairSpec ==
    /\ Spec
    /\ WF_vars(JobStep)
    /\ \A k \in 1..3 : SF_vars(Retried(k) /\ UNCHANGED panel)
    /\ \A c \in Callers : WF_vars(CallStep(c) /\ Busy(c))

-----------------------------------------------------------------------------
(* Properties.                                                             *)

TermTypeOK ==
    /\ account.exists \in BOOLEAN /\ account.status \in Statuses
    /\ {account.expires, account.limit, admin.limit, wallet, clock, faults} \subseteq Nat
    /\ {admin.exists, admin.enabled, admin.users, panel, raced, astray} \subseteq BOOLEAN
    /\ locks \subseteq {"reseller_renew", "reseller_capacity_buy"}
    /\ job.now \in Nat
    /\ \A c \in Callers :
         calls[c].status \in Statuses /\ {calls[c].after, calls[c].limit} \subseteq Nat
    /\ {books.bought, books.dropped, books.crashed, books.granted} \subseteq Nat
    /\ outdated \subseteq Callers \cup {"job"}

\* Every toman a purchase took is still on its way, was given back, or bought
\* what the row now holds; money is lost only by a process that dies, and by a
\* renewal whose row could not be written (dropped).
BoughtOrRefunded ==
    wallet + books.bought + books.dropped + books.crashed + Cardinality(Unsettled) = WALLET

\* Periods that were bought or given add up on the row: none is swallowed by
\* another request, unless one of them wrote from an outdated copy.
PaidTermKept == account.exists /\ ~raced => account.expires >= 1 + books.granted

TermPaidFor == BoughtOrRefunded /\ PaidTermKept

Quiet ==
    /\ job.pc \notin {"recheck", "write", "drop"}
    /\ \A c \in Callers : calls[c].pc \in {"idle", "debit"}

\* Once nobody is between panel and row, the panel admin is on exactly when the
\* row says active, and has the volume the row says, unless a copy was outdated, a
\* failure came in between (a call that took effect though it raised is one), or the
\* bot no longer has the panel.
PanelFollowsRow ==
    Quiet /\ panel /\ ~astray /\ account.exists =>
        (admin.enabled <=> account.status = "active") /\ admin.limit = account.limit

\* A row is dropped only after the panel admin is gone, whoever drops it and
\* whatever fails: no admin is left that nobody bills or expires any more. Only the
\* admin of a panel that was deleted from the bot is left where it is.
NoOrphanAdmin == ~account.exists /\ panel => ~admin.exists

\* The job destroys the users of an account only when the grace period after
\* its term is over, unless a renewal came after the job had listed it.
PurgesInTime ==
    job.pc = "users" /\ admin.users /\ ~admin'.users =>
        \/ account.status = "expired" /\ account.expires + GRACE <= clock
        \/ "job" \in outdated
PurgedOnlyAfterGrace == [][PurgesInTime]_vars

\* An account nobody renews is removed after its grace period, however often the
\* panel fails for a while; one the admin locked stays. So does one whose admin was
\* removed by a call that raised: purging it fails from then on.
Overdue ==
    /\ account.exists /\ account.status # "admin_paused" /\ account.expires + GRACE <= clock
    /\ admin.exists
OverdueIsPurged == Overdue ~> ~Overdue

=============================================================================
