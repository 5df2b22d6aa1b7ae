------------------------------- MODULE Broadcast -------------------------------
(***************************************************************************)
(* Messages to all users (src/app/services/broadcast/manager.py): one row  *)
(* per broadcast, a manager object that runs one worker task for one of    *)
(* them, a lock that is to keep the broadcasts apart, and the admins, who  *)
(* confirm, pause, resume, cancel and delete while the worker sends.       *)
(* Every await of a command or of the worker lets the others run.          *)
(***************************************************************************)
EXTENDS Naturals, FiniteSets, FiniteSetsExt

CONSTANTS
    Jobs,          \* a set of numbers: the rows, in the order of their ids
    USERS, BATCH,  \* the targets are 1..USERS; batch_size
    Dialects,      \* what the lock is: "redis", "getlock" (MySQL) or "none"
    Admins, Ops,   \* the admins, and the commands they give
    MAX_WORKERS, MAX_ORDERS, MAX_FAULTS   \* bounds: tasks at one time, commands, faults

VARIABLES
    dialect,
    lock, held,    \* the lock is taken; this manager believes it holds it
    task,          \* _worker_task: a worker, or 0
    worker,        \* worker[w]: a task and where its batch stands
    status,        \* status[j] of the row: "new" before there is one, "gone" after
    runtime,       \* runtime[j]: _job_runtime_status
    cursor,        \* cursor[j]: cursor_user_id
    cmd,           \* cmd[a]: the command of admin a under way
    got,           \* history: got[j][u]: how often u was sent j, 2 for more
    disturbed,     \* history: broadcasts with a batch cut off or two workers
    blind,         \* history: broadcasts whose targets could not be read once
    stranded,      \* history: broadcasts whose row was left running without a worker to
                   \* end it, or with one that was told to wait
    orders, faults

vars == <<dialect, lock, held, task, worker, status, runtime, cursor, cmd,
          got, disturbed, blind, stranded, orders, faults>>

Workers == 1..MAX_WORKERS
NoWorker == [pc |-> "none", job |-> 0, at |-> 0, upto |-> 0]
NoCommand == [pc |-> "idle", job |-> 0]
Finished == {"done", "failed", "canceled", "gone"}

Init ==
    /\ dialect \in Dialects /\ lock = FALSE /\ held = FALSE
    /\ task = 0 /\ worker = [w \in Workers |-> NoWorker]
    /\ status = [j \in Jobs |-> "new"]
    /\ runtime = [j \in Jobs |-> "none"]
    /\ cursor = [j \in Jobs |-> 0]
    /\ cmd = [a \in Admins |-> NoCommand]
    /\ got = [j \in Jobs |-> [u \in 1..USERS |-> 0]]
    /\ disturbed = {} /\ blind = {} /\ stranded = {} /\ orders = 0 /\ faults = 0

Fault == faults < MAX_FAULTS /\ faults' = faults + 1

Running == {j \in Jobs : status[j] = "running"}
\* get_active_job: 0 also when there are several (MultipleResultsFound).
Active == IF Cardinality(Running) = 1 THEN CHOOSE j \in Running : TRUE ELSE 0

\* An error of the database: get_active_job answers None, update_job writes nothing
\* and answers None too; nobody hears of it.
Database(active, written) ==
    \/ active = Active /\ written /\ UNCHANGED faults
    \/ active \in {0, Active} /\ (active = 0 \/ ~written) /\ Fault

Alive(w) == worker[w].pc # "none"
Locked(w) == worker[w].pc \in {"top", "send", "store"}
InBatch(w) == worker[w].pc \in {"send", "store"}

\* Rows that say running while nobody works for them.
Unattended == {j \in Running : \A w \in Workers : worker[w].job # j}
Leaves(jobs) == stranded' = stranded \cup (jobs \cap Unattended')

-----------------------------------------------------------------------------
(* The lock.                                                               *)

CanAcquire(j, active) ==
    IF dialect = "none" THEN active \in {0, j} ELSE held \/ ~lock
Acquire == IF dialect = "none" THEN UNCHANGED <<lock, held>> ELSE lock' = TRUE /\ held' = TRUE
Release == held' = FALSE /\ lock' = (lock /\ ~held)

\* The task of the manager is cancelled, whatever broadcast it works for; it
\* and the manager give the lock back.
CancelTask ==
    /\ worker' = IF task = 0 THEN worker ELSE [worker EXCEPT ![task] = NoWorker]
    /\ disturbed' = disturbed \cup IF task # 0 /\ InBatch(task) THEN {worker[task].job} ELSE {}
    /\ task' = 0
    /\ Release

\* A new task for j; the row is already "running".
Spawn(j) ==
    \E w \in Workers :
        /\ ~Alive(w)
        /\ worker' = [worker EXCEPT ![w] = [NoWorker EXCEPT !.pc = "top", !.job = j]]
        /\ task' = w
        /\ stranded' = stranded \ {j}
        /\ disturbed' = disturbed \cup IF \E v \in Workers : worker[v].job = j THEN {j} ELSE {}

-----------------------------------------------------------------------------
(* The worker.                                                             *)

Job(w) == worker[w].job
Ends(w) == worker' = [worker EXCEPT ![w] = NoWorker] /\ task' = 0
BatchEnd(w) == Min({cursor[Job(w)] + BATCH, USERS})

GivenUp(j) == [status EXCEPT ![j] = IF @ = "gone" THEN @ ELSE "failed"]

\* Mutant: the broadcast is left as it is when the lock cannot be had.
LocksQuietly(w) ==
    /\ worker[w].pc = "lock"
    /\ IF Active \in {0, Job(w)} /\ CanAcquire(Job(w), Active)
       THEN Acquire /\ worker' = [worker EXCEPT ![w].pc = "top"] /\ UNCHANGED task
       ELSE Ends(w) /\ UNCHANGED <<lock, held>>
    /\ UNCHANGED <<dialect, status, runtime, cursor, cmd, got, disturbed, blind, stranded, orders, faults>>

\* After a restart the worker has no lock yet: it finds it taken by its own
\* predecessor as well as by another broadcast.
WorkerLocks(w) ==
    /\ worker[w].pc = "lock"
    /\ \E active \in {0, Active}, written \in BOOLEAN :
         /\ Database(active, written)
         /\ IF active \in {0, Job(w)} /\ CanAcquire(Job(w), active)
            THEN /\ Acquire
                 /\ worker' = [worker EXCEPT ![w].pc = "top"]
                 /\ UNCHANGED <<task, status>>
            ELSE /\ status' = IF written THEN GivenUp(Job(w)) ELSE status
                 /\ Ends(w)
                 /\ UNCHANGED <<lock, held>>
    /\ Leaves({Job(w)})
    /\ UNCHANGED <<dialect, runtime, cursor, cmd, got, disturbed, blind, orders>>

\* The head of the loop.
Stops(w) ==
    /\ worker[w].pc = "top"
    /\ \/ runtime[Job(w)] = "canceled"
       \/ runtime[Job(w)] # "paused" /\ status[Job(w)] \notin {"running", "paused"}
    /\ Ends(w) /\ Release
    /\ UNCHANGED <<dialect, status, runtime, cursor, cmd, got, disturbed, blind, stranded, orders, faults>>

\* get_job answers None after an error of the database: the worker takes the row for
\* deleted and leaves it as it is.
LosesRow(w) ==
    /\ worker[w].pc = "top" /\ runtime[Job(w)] \notin {"canceled", "paused"} /\ Fault
    /\ Ends(w) /\ Release
    /\ UNCHANGED <<dialect, status, runtime, cursor, cmd, got, disturbed, blind, orders>>
    /\ Leaves({Job(w)})

SeesPause(w) ==
    /\ worker[w].pc = "top"
    /\ runtime[Job(w)] \notin {"canceled", "paused"} /\ status[Job(w)] = "paused"
    /\ runtime' = [runtime EXCEPT ![Job(w)] = "paused"]
    /\ UNCHANGED <<dialect, lock, held, task, worker, status, cursor, cmd, got, disturbed, blind, stranded, orders, faults>>

Runs(w) ==
    /\ worker[w].pc = "top"
    /\ runtime[Job(w)] \notin {"canceled", "paused"} /\ status[Job(w)] = "running"

Fetch(w) ==
    /\ Runs(w) /\ cursor[Job(w)] < USERS
    /\ worker' = [worker EXCEPT ![w] = [@ EXCEPT !.pc = "send", !.at = cursor[Job(w)], !.upto = BatchEnd(w)]]
    /\ runtime' = [runtime EXCEPT ![Job(w)] = "running"]
    /\ UNCHANGED <<dialect, lock, held, task, status, cursor, cmd, got, disturbed, blind, stranded, orders, faults>>

\* Nobody is left, or the users cannot be read: the broadcast is done.
Finish(w) ==
    /\ Runs(w)
    /\ \E read, written \in BOOLEAN :
         /\ read => cursor[Job(w)] = USERS
         /\ IF read /\ written THEN UNCHANGED faults ELSE Fault
         /\ blind' = IF read THEN blind ELSE blind \cup {Job(w)}
         /\ status' = IF written THEN [status EXCEPT ![Job(w)] = "done"] ELSE status
    /\ runtime' = [runtime EXCEPT ![Job(w)] = "none"]
    /\ worker' = [worker EXCEPT ![w].pc = "next"]
    /\ Release
    /\ UNCHANGED <<dialect, task, cursor, cmd, got, disturbed, stranded, orders>>

SendTo(w) ==
    /\ worker[w].pc = "send"
    /\ IF worker[w].at = worker[w].upto \/ runtime[Job(w)] \in {"canceled", "paused"}
       THEN worker' = [worker EXCEPT ![w].pc = "store"] /\ UNCHANGED got
       ELSE /\ worker' = [worker EXCEPT ![w].at = @ + 1]
            /\ got' = [got EXCEPT ![Job(w)][worker[w].at + 1] = Min({@ + 1, 2})]
    /\ UNCHANGED <<dialect, lock, held, task, status, runtime, cursor, cmd, disturbed, blind, stranded, orders, faults>>

\* increment_counters and update_cursor.
Store(w) ==
    /\ worker[w].pc = "store"
    /\ cursor' = [cursor EXCEPT ![Job(w)] = IF status[Job(w)] = "gone" THEN @ ELSE worker[w].at]
    /\ worker' = [worker EXCEPT ![w].pc = "top"]
    /\ UNCHANGED <<dialect, lock, held, task, status, runtime, cmd, got, disturbed, blind, stranded, orders, faults>>

\* A database error in update_cursor is logged: the batch will be sent again.
StoreFails(w) ==
    /\ worker[w].pc = "store" /\ Fault
    /\ worker' = [worker EXCEPT ![w].pc = "top"]
    /\ disturbed' = disturbed \cup {Job(w)}
    /\ UNCHANGED <<dialect, lock, held, task, status, runtime, cursor, cmd, got, blind, stranded, orders>>

\* Any other exception; the row may not be written either.
WorkerFails(w) ==
    /\ Locked(w) /\ Fault
    /\ Ends(w) /\ Release
    /\ status' \in {status, GivenUp(Job(w))}
    /\ runtime' = [runtime EXCEPT ![Job(w)] = "none"]
    /\ disturbed' = disturbed \cup IF InBatch(w) THEN {Job(w)} ELSE {}
    /\ Leaves({Job(w)})
    /\ UNCHANGED <<dialect, cursor, cmd, got, blind, orders>>

\* _start_next_queued_broadcast, without its own cleaning up.
NextQueued == {j \in Jobs : status[j] = "queued"}

\* The next broadcast gets this worker. One that still says running is given up,
\* whether the lock can be had or not.
HandOver(w) ==
    /\ worker[w].pc = "next"
    /\ \E active \in {0, Active}, written \in BOOLEAN :
         LET j == Min(NextQueued)
             others == [i \in Jobs |-> IF i = active /\ i # j /\ written THEN "failed" ELSE status[i]]
             free == [worker EXCEPT ![w] = NoWorker]
             locks == dialect = "none" \/ held \/ ~lock
         IN  /\ NextQueued # {} /\ Database(active, written)
             /\ IF locks /\ written
                THEN /\ status' = [others EXCEPT ![j] = "running"]
                     /\ runtime' = [runtime EXCEPT ![j] = "running"]
                     /\ worker' = [free EXCEPT ![w] = [NoWorker EXCEPT !.pc = "top", !.job = j]]
                     /\ task' = w
                     /\ disturbed' = disturbed \cup IF \E v \in Workers : worker[v].job = j THEN {j} ELSE {}
                     /\ Acquire
                     /\ stranded' = (stranded \ {j}) \cup ({Job(w)} \cap Unattended')
                ELSE /\ status' = others
                     /\ Ends(w)
                     /\ IF locks THEN Release ELSE UNCHANGED <<lock, held>>
                     /\ Leaves({Job(w)})
                     /\ UNCHANGED <<runtime, disturbed>>
    /\ UNCHANGED <<dialect, cursor, cmd, got, blind, orders>>

\* Nobody waits, or those who wait cannot be read.
NoneNext(w) ==
    /\ worker[w].pc = "next"
    /\ IF NextQueued = {} THEN UNCHANGED faults ELSE Fault
    /\ Ends(w)
    /\ UNCHANGED <<dialect, lock, held, status, runtime, cursor, cmd, got, disturbed, blind, orders>>
    /\ Leaves({Job(w)})

WorkerStep(w) ==
    \/ WorkerLocks(w) \/ Stops(w) \/ LosesRow(w) \/ SeesPause(w) \/ Fetch(w) \/ Finish(w)
    \/ SendTo(w) \/ Store(w) \/ StoreFails(w) \/ WorkerFails(w) \/ HandOver(w) \/ NoneNext(w)

-----------------------------------------------------------------------------
(* The commands.                                                           *)

Goes(a, pc) == cmd' = [cmd EXCEPT ![a].pc = pc]
Returns(a) == cmd' = [cmd EXCEPT ![a] = NoCommand]
Row(a) == cmd[a].job
Keep == UNCHANGED <<dialect, cursor, got, blind, orders>>
Tasks == <<lock, held, task, worker, disturbed, stranded>>

\* get_job answers None after an error of the database, and the command ends there.
NotFound(a) ==
    /\ cmd[a].pc \in {"begin", "resume", "pause", "cancel"} /\ Fault
    /\ Returns(a)
    /\ Keep /\ UNCHANGED <<Tasks, status, runtime>>

\* create_job, in the bot.
Create(j) ==
    /\ status[j] = "new"
    /\ status' = [status EXCEPT ![j] = "pending_confirm"]
    /\ Keep /\ UNCHANGED <<Tasks, runtime, cmd, faults>>

\* The panel's send creates the row itself.
Order(a, op, j) ==
    /\ cmd[a] = NoCommand /\ op \in Ops
    /\ IF op = "panel_send" THEN status[j] = "new" ELSE status[j] \notin {"new", "gone"}
    /\ orders < MAX_ORDERS /\ orders' = orders + 1
    /\ cmd' = [cmd EXCEPT ![a] = [pc |-> op, job |-> j]]
    /\ UNCHANGED <<dialect, cursor, got, blind>>
    /\ UNCHANGED <<Tasks, status, runtime, faults>>

\* broadcast_confirm: another broadcast that runs now makes this one wait.
Confirm(a) ==
    /\ cmd[a].pc = "confirm"
    /\ \E active \in {0, Active} :
         /\ Database(active, TRUE)
         /\ Goes(a, IF active \in {0, Row(a)} THEN "begin" ELSE "queue")
    /\ Keep /\ UNCHANGED <<Tasks, status, runtime>>

\* Queued, and in the panel's send the beginning follows at once.
Queue(a) ==
    /\ cmd[a].pc \in {"queue", "panel_send"}
    /\ \E written \in BOOLEAN :
         /\ Database(Active, written)
         /\ status' = IF status[Row(a)] # "gone" /\ written
                      THEN [status EXCEPT ![Row(a)] = "queued"] ELSE status
    /\ IF cmd[a].pc = "queue" THEN Returns(a) ELSE Goes(a, "begin")
    /\ Keep /\ UNCHANGED <<Tasks, runtime>>

\* _begin_running_job and resume_job: the task there is is cancelled.
Begin(a) ==
    /\ cmd[a].pc \in {"begin", "resume"}
    /\ IF status[Row(a)] \in (IF cmd[a].pc = "begin" THEN {"pending_confirm", "queued"} ELSE {"paused"})
       THEN Goes(a, "replace") /\ CancelTask /\ UNCHANGED stranded
       ELSE Returns(a) /\ UNCHANGED Tasks
    /\ Keep /\ UNCHANGED <<status, runtime, faults>>

\* A broadcast that runs all the same is given up; nobody works for it any more, and
\* nobody will when it is not found or not written.
Replace(a) ==
    /\ cmd[a].pc = "replace"
    /\ Goes(a, "start")
    /\ \E active \in {0, Active}, written \in BOOLEAN :
         /\ Database(active, written)
         /\ IF active \in {0, Row(a)}
            THEN UNCHANGED <<lock, held, task, worker, disturbed, status>>
            ELSE CancelTask /\ status' = IF written THEN [status EXCEPT ![active] = "failed"] ELSE status
    /\ Leaves(Jobs \ {Row(a)})
    /\ Keep /\ UNCHANGED runtime

Start(a) ==
    /\ cmd[a].pc = "start"
    /\ Returns(a)
    /\ \E active \in {0, Active}, written \in BOOLEAN :
         /\ Database(active, written)
         /\ IF CanAcquire(Row(a), active) /\ status[Row(a)] # "gone" /\ written
            THEN /\ Acquire
                 /\ status' = [status EXCEPT ![Row(a)] = "running"]
                 /\ runtime' = [runtime EXCEPT ![Row(a)] = "running"]
                 /\ Spawn(Row(a))
            ELSE /\ IF CanAcquire(Row(a), active) THEN Release ELSE UNCHANGED <<lock, held>>
                 /\ UNCHANGED <<status, runtime, task, worker, disturbed>>
                 /\ Leaves({Row(a)})
    /\ Keep

PauseReads(a) ==
    /\ cmd[a].pc = "pause"
    /\ IF status[Row(a)] = "running" THEN Goes(a, "pausing") ELSE Returns(a)
    /\ Keep /\ UNCHANGED <<Tasks, status, runtime, faults>>

PauseWrites(a) ==
    /\ cmd[a].pc = "pausing"
    /\ \E written \in BOOLEAN :
         /\ Database(Active, written)
         /\ IF status[Row(a)] = "gone" \/ ~written THEN Returns(a) /\ UNCHANGED status
            ELSE Goes(a, "telling") /\ status' = [status EXCEPT ![Row(a)] = "paused"]
    /\ Keep /\ UNCHANGED <<Tasks, runtime>>

\* Only now a worker in the middle of a batch hears of it, or the worker of a
\* broadcast that was resumed meanwhile.
PauseTells(a) ==
    /\ cmd[a].pc = "telling"
    /\ runtime' = [runtime EXCEPT ![Row(a)] = "paused"]
    /\ stranded' = stranded \cup (Running \cap {Row(a)})
    /\ Returns(a)
    /\ Keep /\ UNCHANGED <<lock, held, task, worker, status, disturbed, faults>>

\* The task there is is cancelled, whatever broadcast it works for.
CancelStops(a) ==
    /\ cmd[a].pc = "cancel"
    /\ Keep /\ UNCHANGED <<status, runtime, faults>>
    /\ IF status[Row(a)] \in Finished
       THEN Returns(a) /\ UNCHANGED Tasks
       ELSE Goes(a, "cancelling") /\ CancelTask /\ Leaves(Jobs \ ({Row(a)} \cup Unattended))

\* "canceled" and, at once, deleted. Neither is certain: the row may stay as it is, or
\* as canceled.
CancelDrops(a) ==
    /\ cmd[a].pc = "cancelling"
    /\ Returns(a)
    /\ \/ /\ IF status[Row(a)] = "gone" THEN UNCHANGED faults ELSE Fault
          /\ runtime' = [runtime EXCEPT ![Row(a)] = "canceled"]
          /\ UNCHANGED <<status, lock, held>>
       \/ /\ status[Row(a)] # "gone"
          /\ \/ status' = [status EXCEPT ![Row(a)] = "gone"] /\ UNCHANGED faults
             \/ status' = [status EXCEPT ![Row(a)] = "canceled"] /\ Fault
          /\ runtime' = [runtime EXCEPT ![Row(a)] = "none"]
          /\ Release
    /\ Keep /\ UNCHANGED <<task, worker, disturbed>>
    /\ Leaves({Row(a)})

\* broadcast_job_resend: to be confirmed again, the cursor stays.
Resend(a) ==
    /\ cmd[a].pc = "resend"
    /\ \E written \in BOOLEAN :
         /\ Database(Active, written)
         /\ status' = IF status[Row(a)] # "gone" /\ written
                      THEN [status EXCEPT ![Row(a)] = "pending_confirm"] ELSE status
    /\ Returns(a)
    /\ Keep /\ UNCHANGED <<Tasks, runtime>>

Delete(a) ==
    /\ cmd[a].pc = "delete"
    /\ \E written \in BOOLEAN :
         /\ Database(Active, written)
         /\ status' = IF written THEN [status EXCEPT ![Row(a)] = "gone"] ELSE status
    /\ Returns(a)
    /\ Keep /\ UNCHANGED <<Tasks, runtime>>

CommandStep(a) ==
    \/ Confirm(a) \/ Queue(a) \/ Begin(a) \/ Replace(a) \/ Start(a) \/ PauseReads(a)
    \/ PauseWrites(a) \/ PauseTells(a) \/ CancelStops(a) \/ CancelDrops(a) \/ Resend(a) \/ Delete(a)
    \/ NotFound(a)

-----------------------------------------------------------------------------
\* The process starts again: resume_running_broadcasts goes on with the one that runs.
\* It finds none when the database does not answer or when two rows say running.
Restart ==
    /\ Fault
    /\ held' = FALSE
    /\ lock' = (lock /\ dialect = "redis")
    /\ runtime' = [j \in Jobs |-> "none"]
    /\ cmd' = [a \in Admins |-> NoCommand]
    /\ disturbed' = disturbed \cup {worker[w].job : w \in {v \in Workers : InBatch(v)}}
    /\ \E active \in {0, Active} :
         /\ worker' = [w \in Workers |-> IF w = 1 /\ active # 0
                                         THEN [NoWorker EXCEPT !.pc = "lock", !.job = active] ELSE NoWorker]
         /\ task' = IF active # 0 THEN 1 ELSE 0
    /\ UNCHANGED <<dialect, status, cursor, got, blind, orders>>
    /\ stranded' = Unattended'

\* The key in Redis lives for two hours.
LockExpires ==
    /\ dialect = "redis" /\ lock /\ Fault
    /\ lock' = FALSE
    /\ UNCHANGED <<dialect, held, task, worker, status, runtime, cursor, cmd, got, disturbed, blind, stranded, orders>>

Next ==
    \/ \E w \in Workers : WorkerStep(w)
    \/ \E j \in Jobs : Create(j)
    \/ \E a \in Admins : CommandStep(a) \/ \E op \in Ops, j \in Jobs : Order(a, op, j)
    \/ Restart \/ LockExpires

Spec == Init /\ [][Next]_vars

\* Tasks and handlers are coroutines of one loop: each of them goes on.
FairSpec ==
    /\ Spec
    /\ \A w \in Workers : WF_vars(WorkerStep(w))
    /\ \A a \in Admins : WF_vars(CommandStep(a))

-----------------------------------------------------------------------------
(* Properties.                                                             *)

\* Whatever is paused, cancelled, replaced, resumed or restarted in the middle
\* of a batch: no user whom the cursor has passed was left out, and a broadcast
\* that is done was sent to all, unless the users could not be read.
NobodySkipped ==
    \A j \in Jobs :
        /\ \A u \in 1..cursor[j] : got[j][u] > 0
        /\ status[j] = "done" /\ j \notin blind => \A u \in 1..USERS : got[j][u] > 0

\* Nobody is sent a broadcast twice, except when a batch was cut off before its
\* cursor was stored or when two workers were started for it.
TwiceOnlyIfDisturbed ==
    \A j \in Jobs : (\E u \in 1..USERS : got[j][u] > 1) => j \in disturbed

BroadcastReachesAll == NobodySkipped /\ TwiceOnlyIfDisturbed

\* "Cancel worker task if it's for this job": cancelling a broadcast leaves the
\* worker of another one alone.
CancelStopsItsOwn ==
    [][\A a \in Admins, w \in Workers :
         (cmd[a].pc = "cancel" /\ cmd'[a].pc = "cancelling" /\ Locked(w) /\ Job(w) # Row(a))
            => worker'[w] = worker[w]]_vars

\* A broadcast that runs does not run for ever: it ends, is paused or is given up,
\* although batches fail, the process restarts and admins confirm, cancel and replace
\* broadcasts at the same time. Only a row that was left running without a worker stays
\* so, until a restart, a handover or an admin finds it: by an error of the database
\* that get_job or update_job answer with None, by a command that cancelled the worker
\* of another broadcast, by a restart with two running rows, or by a pause that is told
\* to the worker after the broadcast was resumed.
InProgress(j) == status[j] = "running"
RunningEnds == \A j \in Jobs : InProgress(j) ~> ~InProgress(j) \/ j \in stranded

=============================================================================
