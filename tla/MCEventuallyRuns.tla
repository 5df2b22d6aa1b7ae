-------------------------- MODULE MCEventuallyRuns --------------------------
(***************************************************************************)
(* What must happen in the end to accounts, services and broadcasts.  Four *)
(* components, which share no state; part is the one that moves in this    *)
(* behaviour, broadcasts twice with other bounds.  Reseller billing keeps  *)
(* its own variables, the others keep theirs, in the order of their        *)
(* declaration, in x1, x2 and so on.  The fairness is that of their        *)
(* FairSpecs, put together as in MCEventually.                             *)
(***************************************************************************)
EXTENDS ResellerBilling

VARIABLES part, x1, x2, x3, x4, x5, x6, x7, x8, x9, x10, x11, x12, x13, x14, x15

others == <<x1, x2, x3, x4, x5, x6, x7, x8, x9, x10, x11, x12, x13, x14, x15>>
all == <<part, vars, others>>

Term == INSTANCE ResellerTerm WITH
    Callers <- {"caller"}, Operations <- {"renew", "pause", "delete"},
    GRACE <- 1, WALLET <- 1, MAX_CLOCK <- 2, MAX_GRANTS <- 1, MAX_FAULTS <- 0,
    account <- x1, admin <- x2, wallet <- x3, clock <- x4, locks <- x5, job <- x6,
    calls <- x7, books <- x8, outdated <- x9, raced <- x10, faults <- x11, panel <- x12,
    astray <- x13

\* An admin's commands in a row, and one thing that fails; and the commands of two
\* admins at the same time.
Send2all == INSTANCE Broadcast WITH
    Jobs <- 1..2, USERS <- 1, BATCH <- 1, Dialects <- {"redis"}, Admins <- 1..1,
    Ops <- {"confirm", "pause", "resume", "cancel"},
    MAX_WORKERS <- 2, MAX_ORDERS <- 3, MAX_FAULTS <- 1,
    dialect <- x1, lock <- x2, held <- x3, task <- x4, worker <- x5, status <- x6,
    runtime <- x7, cursor <- x8, cmd <- x9, got <- x10, disturbed <- x11,
    blind <- x12, stranded <- x13, orders <- x14, faults <- x15

SendTwo == INSTANCE Broadcast WITH
    Jobs <- 1..2, USERS <- 1, BATCH <- 1, Dialects <- {"none"}, Admins <- 1..2,
    Ops <- {"panel_send", "cancel"},
    MAX_WORKERS <- 2, MAX_ORDERS <- 3, MAX_FAULTS <- 0,
    dialect <- x1, lock <- x2, held <- x3, task <- x4, worker <- x5, status <- x6,
    runtime <- x7, cursor <- x8, cmd <- x9, got <- x10, disturbed <- x11,
    blind <- x12, stranded <- x13, orders <- x14, faults <- x15

Expiry == INSTANCE Expiration WITH
    Services <- 1..2, Tests <- {1}, Unlinked <- {}, BATCH <- 1, FLUSH <- 1, GRACE <- 1, TERM <- 1,
    MAX_CLOCK <- 2, MAX_FAULTS <- 1,
    clock <- x1, row <- x2, user <- x3, job <- x4, renewal <- x5, told <- x6,
    paid <- x7, crossed <- x8, stray <- x9, faults <- x10

-----------------------------------------------------------------------------
(* One component moves; billing rests otherwise, and the variables that    *)
(* are not used stay 0.                                                    *)

NoX1 ==
    /\ x1 = 0 /\ x2 = 0 /\ x3 = 0 /\ x4 = 0 /\ x5 = 0 /\ x6 = 0 /\ x7 = 0 /\ x8 = 0
    /\ x9 = 0 /\ x10 = 0 /\ x11 = 0
NoX12 == x12 = 0 /\ x13 = 0 /\ x14 = 0 /\ x15 = 0
Resting == Init /\ account.mode = "hourly" /\ wallet = 0

RunsInit ==
    \/ part = "billing" /\ Init /\ NoX1 /\ NoX12
    \/ /\ Resting
       /\ \/ part = "term" /\ Term!Init /\ x14 = 0 /\ x15 = 0
          \/ part = "broadcast" /\ Send2all!Init
          \/ part = "broadcastTwo" /\ SendTwo!Init
          \/ part = "expiration" /\ Expiry!Init /\ x11 = 0 /\ NoX12

Bills(A) == part = "billing" /\ A /\ UNCHANGED <<part, others>>
OfTerm(A) == part = "term" /\ A /\ UNCHANGED <<part, vars, x14, x15>>
Broadcasts(p, A) == part = p /\ A /\ UNCHANGED <<part, vars>>
Expires(A) == part = "expiration" /\ A /\ UNCHANGED <<part, vars, x11, x12, x13, x14, x15>>

RunsNext ==
    \/ Bills(Next)
    \/ OfTerm(Term!Next)
    \/ Broadcasts("broadcast", Send2all!Next)
    \/ Broadcasts("broadcastTwo", SendTwo!Next)
    \/ Expires(Expiry!Next)

-----------------------------------------------------------------------------
(* Fairness.                                                               *)

Ours == 1..2      \* the broadcasts, admins or services

\* What the scheduler or the event loop goes on with.
Runs ==
    \/ Bills(JobStep)
    \/ OfTerm(Term!JobStep)
    \/ Broadcasts("broadcast", Send2all!WorkerStep(1))
    \/ Broadcasts("broadcastTwo", SendTwo!WorkerStep(1))
    \/ Expires(Expiry!JobStep)

\* The request under way, the other worker, time.
GoesOn ==
    \/ OfTerm(Term!CallStep("caller") /\ Term!Busy("caller"))
    \/ Broadcasts("broadcast", Send2all!WorkerStep(2))
    \/ Broadcasts("broadcastTwo", SendTwo!WorkerStep(2))
    \/ Expires(Expiry!Tick)

Follows(k) ==
    \/ Broadcasts("broadcast", Send2all!CommandStep(1))
    \/ Broadcasts("broadcastTwo", SendTwo!CommandStep(k))
    \/ Expires(Expiry!RenewRow(k))

\* What is tried again and again succeeds at some time.
Retry1 == Bills(JobWeigh) \/ OfTerm(Term!Retried(1) /\ UNCHANGED x12)
Retry2 == Bills(JobActivates) \/ OfTerm(Term!Retried(2) /\ UNCHANGED x12)
Retry3 == Bills(JobRevive) \/ OfTerm(Term!Retried(3) /\ UNCHANGED x12)

RunsSpec ==
    /\ RunsInit /\ [][RunsNext]_all
    /\ WF_all(Runs) /\ WF_all(GoesOn) /\ \A k \in Ours : WF_all(Follows(k))
    /\ SF_all(Retry1) /\ SF_all(Retry2) /\ SF_all(Retry3)

-----------------------------------------------------------------------------
\* A reseller account that nobody renews is removed after its grace period
\* (ResellerTerm), and a service that nobody renews after its own (Expiration),
\* although the panel fails and passes die.
Lapsed(k) ==
    \/ part = "term" /\ Term!Overdue
    \/ part = "expiration" /\ Expiry!Ending(k)
LapsedIsRemoved == \A k \in Ours : Lapsed(k) ~> ~Lapsed(k)

\* A broadcast that runs does not run for ever: it ends, is paused or is given
\* up, although batches fail, the process restarts and commands cancel and
\* replace each other's workers; unless its row was left running with nobody to
\* end it, by one of the ways that Broadcast's RunningEnds names.
InProgress(j) ==
    \/ part = "broadcast" /\ Send2all!InProgress(j)
    \/ part = "broadcastTwo" /\ SendTwo!InProgress(j)
Stranded(j) == part \in {"broadcast", "broadcastTwo"} /\ j \in x13
RunningEnds == \A j \in Ours : InProgress(j) ~> ~InProgress(j) \/ Stranded(j)
=============================================================================
