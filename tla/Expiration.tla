------------------------------ MODULE Expiration ------------------------------
(***************************************************************************)
(* The job that ends services (src/app/jobs/services/expiration.py): every *)
(* pass deletes expired test services, deletes paid ones whose grace       *)
(* period is over, and tells the owners of the others that a service will  *)
(* end soon or has ended.  It works on rows it read some time before,      *)
(* while owners renew (services/billing/renewal.py).  A renewal changes    *)
(* the user on the panel first and the row afterwards.                     *)
(***************************************************************************)
EXTENDS Naturals, FiniteSets, FiniteSetsExt

CONSTANTS
    Services,    \* a set of numbers: the rows in the order of their codes
    Tests,       \* the test services; nobody can renew them
    Unlinked,    \* rows without panel_userid; nobody can renew these either
    BATCH,       \* EXPIRATION_BATCH_SIZE
    FLUSH,       \* _FLAG_FLUSH_EVERY
    GRACE,       \* days a paid service is kept after it expired
    TERM,        \* the days a service or a renewal is good for
    MAX_CLOCK, MAX_FAULTS   \* bounds

VARIABLES
    clock,
    row,       \* row[s]: the service row, NoRow after its deletion
    user,      \* services that have a user on the panel
    job,       \* the pass under way
    renewal,   \* renewal[s]: a renewal under way
    told,      \* history: told[s][k]: notices of kind k in this term
    paid,      \* history: paid[s]: the day up to which s was paid for
    crossed,   \* history: services renewed while the pass held their row
    stray,     \* history: services a failure left half deleted, renewed or marked
    faults

vars == <<clock, row, user, job, renewal, told, paid, crossed, stray, faults>>

Kinds == {"soon", "ended"}
NoRow == [expires |-> 0, noticed |-> {}, there |-> FALSE]
Untold == [k \in Kinds |-> 0]
\* copy[s] is the row as it was listed; todo and batch are sets of services.
IdleJob == [pc |-> "idle", at |-> 0, sort |-> "tests", batch |-> {}, todo |-> {},
            copy |-> [s \in Services |-> NoRow], pending |-> [k \in Kinds |-> {}]]

Init ==
    /\ clock = 0
    /\ row = [s \in Services |-> [expires |-> TERM, noticed |-> {}, there |-> TRUE]]
    /\ user = Services
    /\ job = IdleJob
    /\ renewal = [s \in Services |-> "idle"]
    /\ told = [s \in Services |-> Untold]
    /\ paid = [s \in Services |-> TERM]
    /\ crossed = {} /\ stray = {} /\ faults = 0

Fault == faults < MAX_FAULTS /\ faults' = faults + 1
Goes(pc) == job' = [job EXCEPT !.pc = pc]
Held == job.batch

\* The first BATCH of ss by expiration time, then code.
Sooner(s, t) == row[s].expires < row[t].expires \/ (row[s].expires = row[t].expires /\ s < t)
FirstOf(ss) == {s \in ss : Cardinality({t \in ss : Sooner(t, s)}) < BATCH}

-----------------------------------------------------------------------------
(* Deleting.                                                               *)

Begin ==
    /\ job.pc = "idle"
    /\ job' = [IdleJob EXCEPT !.pc = "list", !.at = clock]
    /\ UNCHANGED <<clock, row, user, renewal, told, paid, crossed, stray, faults>>

\* Mutant: the grace period is not granted.
DueAtOnce(sort) ==
    {s \in Services : row[s].there /\ (s \in Tests <=> sort = "tests") /\ row[s].expires <= job.at}

\* Mutant: only those whose grace period ends just now.
DueExactly(sort) ==
    {s \in Services : row[s].there /\ (s \in Tests <=> sort = "tests")
                      /\ row[s].expires + (IF sort = "tests" THEN 0 ELSE GRACE) = job.at}

\* get_expired_test_services_batch, get_services_expired_grace_period_batch.
Due(sort) ==
    IF sort = "tests"
    THEN {s \in Tests : row[s].there /\ row[s].expires <= clock}
    ELSE {s \in Services \ Tests : row[s].there /\ row[s].expires + GRACE <= job.at}

NextSort ==
    [job EXCEPT !.sort = "paid", !.batch = {},
                !.pc = IF job.sort = "tests" THEN "list" ELSE "notices"]

\* A renewal that is under way when the row is read, or begins or ends while
\* the pass holds it, crosses the pass.
Renewing == {s \in Services : renewal[s] # "idle"}

List ==
    /\ job.pc = "list"
    /\ LET found == FirstOf(Due(job.sort))
       IN  /\ job' = IF found = {} THEN NextSort
                     ELSE [job EXCEPT !.pc = "remove", !.batch = found, !.todo = found]
           /\ crossed' = crossed \cup (found \cap Renewing)
    /\ UNCHANGED <<clock, row, user, renewal, told, paid, stray, faults>>

\* Without a user of this id the panel answers with an error, which is logged; for a
\* row that does not know the id the panel is not asked, and the user stays.
RemoveUser ==
    /\ job.pc = "remove" /\ job.todo # {}
    /\ user' = user \ ({Min(job.todo)} \ Unlinked)
    /\ job' = [job EXCEPT !.todo = @ \ {Min(@)}]
    /\ UNCHANGED <<clock, row, renewal, told, paid, crossed, stray, faults>>

\* The call is reported as failed, whether or not the panel removed the user.
RemoveUserFails ==
    /\ job.pc = "remove" /\ job.todo # {} /\ Min(job.todo) \notin Unlinked /\ Fault
    /\ user' \in {user, user \ {Min(job.todo)}}
    /\ stray' = stray \cup {Min(job.todo)}
    /\ job' = [job EXCEPT !.todo = @ \ {Min(@)}]
    /\ UNCHANGED <<clock, row, renewal, told, paid, crossed>>

\* A full batch is followed by another first page.
AfterDelete == IF Cardinality(job.batch) < BATCH THEN NextSort ELSE [job EXCEPT !.pc = "list", !.batch = {}]

\* bulk_delete_services, by the codes of the batch.
DeleteRows ==
    /\ job.pc = "remove" /\ job.todo = {}
    /\ row' = [s \in Services |-> IF s \in job.batch THEN NoRow ELSE row[s]]
    /\ job' = AfterDelete
    /\ UNCHANGED <<clock, user, renewal, told, paid, crossed, stray, faults>>

DeleteRowsFails ==
    /\ job.pc = "remove" /\ job.todo = {} /\ Fault
    /\ stray' = stray \cup job.batch
    /\ job' = AfterDelete
    /\ UNCHANGED <<clock, row, user, renewal, told, paid, crossed>>

-----------------------------------------------------------------------------
(* Notices.                                                                *)

Kind(r) == IF r.expires > job.at THEN "soon" ELSE "ended"
Owed ==
    {s \in Services : row[s].there /\ row[s].expires <= job.at + 1 /\ Kind(row[s]) \notin row[s].noticed}

\* One page holds all: the pages after the first only bound the memory.
ListOwed ==
    /\ job.pc = "notices"
    /\ job' = [job EXCEPT !.pc = "notify", !.batch = Owed, !.todo = Owed, !.copy = row]
    /\ crossed' = crossed \cup (Owed \cap Renewing)
    /\ UNCHANGED <<clock, row, user, renewal, told, paid, stray, faults>>

Pending == job.pending["soon"] \cup job.pending["ended"]

\* Sent and noted, to be marked later; an expired test gets no notice.
Notify ==
    /\ job.pc = "notify" /\ job.todo # {} /\ Cardinality(Pending) < FLUSH
    /\ LET s == Min(job.todo)
           k == Kind(job.copy[s])
       IN  IF s \in Tests /\ k = "ended"
           THEN job' = [job EXCEPT !.todo = @ \ {s}] /\ UNCHANGED told
           ELSE /\ job' = [job EXCEPT !.todo = @ \ {s}, !.pending[k] = @ \cup {s}]
                /\ told' = [told EXCEPT ![s][k] = Min({@ + 1, 2})]
    /\ UNCHANGED <<clock, row, user, renewal, paid, crossed, stray, faults>>

\* FloodWait, a user who blocked the bot: the next pass tries again.
NotifyFails ==
    /\ job.pc = "notify" /\ job.todo # {} /\ Cardinality(Pending) < FLUSH
    /\ job' = [job EXCEPT !.todo = @ \ {Min(@)}]
    /\ UNCHANGED <<clock, row, user, renewal, told, paid, crossed, stray, faults>>

Flushing == job.pc = "notify" /\ (job.todo = {} \/ Cardinality(Pending) >= FLUSH)
Flushed == IF job.todo = {} THEN IdleJob ELSE [job EXCEPT !.pending = [k \in Kinds |-> {}]]

\* update_services_bulk, by code, whatever term the row is in by now.
FlushMarks ==
    /\ Flushing
    /\ row' = [s \in Services |->
                 IF row[s].there THEN [row[s] EXCEPT !.noticed = @ \cup {k \in Kinds : s \in job.pending[k]}]
                                 ELSE row[s]]
    /\ job' = Flushed
    /\ UNCHANGED <<clock, user, renewal, told, paid, crossed, stray, faults>>

FlushFails ==
    /\ Flushing /\ Fault
    /\ stray' = stray \cup Pending
    /\ job' = Flushed
    /\ UNCHANGED <<clock, row, user, renewal, told, paid, crossed>>

-----------------------------------------------------------------------------
(* A renewal, after the owner's wallet was debited.                        *)

\* modify_user_by_id; without a user the money is given back.
RenewOnPanel(s) ==
    /\ s \notin Tests \cup Unlinked /\ renewal[s] = "idle" /\ row[s].there
    /\ renewal' = [renewal EXCEPT ![s] = IF s \in user THEN "row" ELSE "idle"]
    /\ paid' = [paid EXCEPT ![s] = IF s \in user THEN clock + TERM ELSE @]
    /\ crossed' = IF s \in Held THEN crossed \cup {s} ELSE crossed
    /\ UNCHANGED <<clock, row, user, job, told, stray, faults>>

\* Mutant: the marks of the last term are left.
KeepsMarks(s) == [row[s] EXCEPT !.expires = paid[s]]

Renewed(s) == [row[s] EXCEPT !.expires = paid[s], !.noticed = {}]

\* update_service; nobody looks whether there still was a row.
RenewRow(s) ==
    /\ renewal[s] = "row"
    /\ renewal' = [renewal EXCEPT ![s] = "idle"]
    /\ row' = [row EXCEPT ![s] = IF @.there THEN Renewed(s) ELSE @]
    /\ told' = [told EXCEPT ![s] = Untold]
    /\ crossed' = IF s \in Held THEN crossed \cup {s} ELSE crossed
    /\ UNCHANGED <<clock, user, job, paid, stray, faults>>

\* A database error is an answer of update_service that nobody looks at: the money
\* is kept, the user has the new term and the row the old one.
RenewRowFails(s) ==
    /\ renewal[s] = "row" /\ Fault
    /\ renewal' = [renewal EXCEPT ![s] = "idle"]
    /\ stray' = stray \cup {s}
    /\ UNCHANGED <<clock, row, user, job, told, paid, crossed>>

-----------------------------------------------------------------------------
Tick ==
    /\ clock < MAX_CLOCK
    /\ clock' = clock + 1
    /\ UNCHANGED <<row, user, job, renewal, told, paid, crossed, stray, faults>>

\* The process dies with the pass and with renewals between panel and row.
Restart ==
    /\ Fault
    /\ job' = IdleJob
    /\ renewal' = [s \in Services |-> "idle"]
    /\ stray' = stray \cup Pending \cup (IF job.pc = "remove" THEN job.batch ELSE {})
                      \cup {s \in Services : renewal[s] = "row"}
    /\ UNCHANGED <<clock, row, user, told, paid, crossed>>

JobStep ==
    \/ Begin \/ List \/ RemoveUser \/ RemoveUserFails \/ DeleteRows \/ DeleteRowsFails
    \/ ListOwed \/ Notify \/ NotifyFails \/ FlushMarks \/ FlushFails

Next ==
    \/ JobStep
    \/ \E s \in Services : RenewOnPanel(s) \/ RenewRow(s) \/ RenewRowFails(s)
    \/ Tick \/ Restart

Spec == Init /\ [][Next]_vars

\* The scheduler starts a pass every minute, a day has many, time goes on.
FairSpec == Spec /\ WF_vars(JobStep) /\ WF_vars(Tick) /\ \A s \in Services : WF_vars(RenewRow(s))

-----------------------------------------------------------------------------
(* Properties.                                                             *)

Safe(s) == s \notin crossed \cup stray

\* A service goes with its user on the panel, and not before its grace period
\* is over, unless the owner renews it while a pass holds its row or a call
\* fails in the middle.  Only the user of a row without panel_userid is left behind.
GoneIsOver ==
    \A s \in Services : Safe(s) /\ ~row[s].there =>
        /\ s \in user => s \in Unlinked
        /\ clock >= paid[s] + IF s \in Tests THEN 0 ELSE GRACE

\* The marks of a row are about its present term: the owner of a marked row was
\* told once in this term, and nobody is told twice.
MarkedIsTold ==
    \A s \in Services, k \in Kinds : Safe(s) /\ row[s].there =>
        /\ k \in row[s].noticed => told[s][k] = 1
        /\ told[s][k] <= 1

ServicesEndInTime == GoneIsOver /\ MarkedIsTold

\* "Delete paid services whose per-panel grace period after expiry has ended":
\* without any failure, no user is taken from the panel who is paid for.
RenewedIsKept ==
    \A s \in Services \ Tests : clock < paid[s] /\ faults = 0 => s \in user

\* A service that nobody renews is deleted at some time, although passes die
\* and deletions fail.
Ending(s) == row[s].there /\ row[s].expires + GRACE <= MAX_CLOCK
UnrenewedEnds == \A s \in Services : Ending(s) ~> ~Ending(s)

=============================================================================
