------------------------------- MODULE SendQueue -------------------------------
(***************************************************************************)
(* The queue of outgoing messages, a list of Redis                         *)
(* (src/app/services/send_queue.py).  Whoever has something to say pushes  *)
(* it at the left end and then cuts the list to its maximal length; one    *)
(* worker takes from the right end, sends, and puts back at the left end   *)
(* what Telegram refuses for a while (FloodWait), and at the right end     *)
(* what it took too early.                                                 *)
(***************************************************************************)
EXTENDS Naturals, Sequences, SequencesExt, FiniteSets

CONSTANTS
    Messages,
    MAX_LEN,       \* SEND_QUEUE_MAX_LEN
    MAX_FAULTS     \* bound on failed commands of Redis, restarts and outages

VARIABLES
    up,        \* get_redis() gives a connection
    queue,     \* the list, its left end first
    state,     \* state[m]: "new", "queued", "taken" or how m ended
    floods,    \* floods[m]: flood_attempts
    waits,     \* m's not_before is in the future
    trims,     \* pushes whose LTRIM is still to come
    worker,    \* the step of the worker, and the message it took
    pushed,    \* history: the messages in the order of their first push
    sent,      \* history: the messages the worker sent, in order
    cut,       \* history: cut[m]: what was left in the list when m was cut off
    faults

vars == <<up, queue, state, floods, waits, trims, worker, pushed, sent, cut, faults>>

NoMessage == "none"
IdleWorker == [pc |-> "idle", job |-> NoMessage]
Ended == {"sent", "direct", "cut", "exhausted", "refused", "lost"}

Init ==
    /\ up = TRUE /\ queue = <<>> /\ trims = 0 /\ worker = IdleWorker
    /\ state = [m \in Messages |-> "new"]
    /\ floods = [m \in Messages |-> 0]
    /\ waits = [m \in Messages |-> FALSE]
    /\ cut = [m \in Messages |-> {}]
    /\ pushed = <<>> /\ sent = <<>> /\ faults = 0

Fault == faults < MAX_FAULTS /\ faults' = faults + 1
Becomes(m, s) == state' = [state EXCEPT ![m] = s]

-----------------------------------------------------------------------------
(* enqueue.                                                                *)

Push(m) ==
    /\ state[m] = "new" /\ up
    /\ queue' = <<m>> \o queue
    /\ Becomes(m, "queued")
    /\ pushed' = Append(pushed, m)
    /\ trims' = trims + 1
    /\ UNCHANGED <<up, floods, waits, worker, sent, cut, faults>>

PushFails(m) ==
    /\ state[m] = "new" /\ up /\ Fault
    /\ Becomes(m, "refused")
    /\ UNCHANGED <<up, queue, floods, waits, trims, worker, pushed, sent, cut>>

\* Without Redis the message is sent at once; a flood loses it.
SendDirectly(m) ==
    /\ state[m] = "new" /\ ~up
    /\ \E s \in {"direct", "lost"} : Becomes(m, s)
    /\ UNCHANGED <<up, queue, floods, waits, trims, worker, pushed, sent, cut, faults>>

\* Mutant: the other end of the list is kept.
CutNewest ==
    LET n == Len(queue) - MAX_LEN
        off == ToSet(SubSeq(queue, 1, n))
    IN  /\ queue' = SubSeq(queue, n + 1, Len(queue))
        /\ state' = [m \in Messages |-> IF m \in off THEN "cut" ELSE state[m]]
        /\ cut' = [m \in Messages |-> IF m \in off THEN ToSet(queue) \ off ELSE cut[m]]

\* LTRIM 0 MAX_LEN - 1 keeps the left end.
Cut ==
    LET off == ToSet(SubSeq(queue, MAX_LEN + 1, Len(queue)))
    IN  /\ queue' = SubSeq(queue, 1, MAX_LEN)
        /\ state' = [m \in Messages |-> IF m \in off THEN "cut" ELSE state[m]]
        /\ cut' = [m \in Messages |-> IF m \in off THEN ToSet(queue) \ off ELSE cut[m]]

Trims == IF Len(queue) > MAX_LEN THEN Cut ELSE UNCHANGED <<queue, state, cut>>

Trim ==
    /\ trims > 0 /\ up
    /\ Trims
    /\ trims' = trims - 1
    /\ UNCHANGED <<up, floods, waits, worker, pushed, sent, faults>>

\* The error is logged; the list is cut by the next one.
TrimFails ==
    /\ trims > 0 /\ Fault
    /\ trims' = trims - 1
    /\ UNCHANGED <<up, queue, state, floods, waits, worker, pushed, sent, cut>>

-----------------------------------------------------------------------------
(* The worker.                                                             *)

Job == worker.job
Goes(pc) == worker' = [worker EXCEPT !.pc = pc]

\* BRPOP.
Take ==
    /\ worker.pc = "idle" /\ up /\ queue # <<>>
    /\ LET m == Last(queue)
       IN  /\ worker' = [pc |-> IF waits[m] THEN "defer" ELSE "send", job |-> m]
           /\ Becomes(m, "taken")
    /\ queue' = Front(queue)
    /\ UNCHANGED <<up, floods, waits, trims, pushed, sent, cut, faults>>

\* Sent, or the user blocked the bot: either way this message is done.
Send ==
    /\ worker.pc = "send"
    /\ Becomes(Job, "sent")
    /\ sent' = Append(sent, Job)
    /\ worker' = IdleWorker
    /\ UNCHANGED <<up, queue, floods, waits, trims, pushed, cut, faults>>

\* Mutant: the attempts are not counted.
FloodUncounted ==
    /\ worker.pc = "send"
    /\ Goes("requeue")
    /\ UNCHANGED <<up, queue, state, floods, waits, trims, pushed, sent, cut, faults>>

\* FloodWaitError: the third one gives up.
Flood ==
    /\ worker.pc = "send"
    /\ floods' = [floods EXCEPT ![Job] = @ + 1]
    /\ IF floods[Job] + 1 >= 3
       THEN Becomes(Job, "exhausted") /\ worker' = IdleWorker
       ELSE UNCHANGED state /\ Goes("requeue")
    /\ UNCHANGED <<up, queue, waits, trims, pushed, sent, cut, faults>>

\* _requeue.
Requeue ==
    /\ worker.pc = "requeue" /\ up
    /\ queue' = <<Job>> \o queue
    /\ waits' = [waits EXCEPT ![Job] = TRUE]
    /\ Becomes(Job, "queued")
    /\ Goes("trim")
    /\ UNCHANGED <<up, floods, trims, pushed, sent, cut, faults>>

\* RPUSH: the next BRPOP takes it again.
Defer ==
    /\ worker.pc = "defer" /\ up
    /\ queue' = Append(queue, Job)
    /\ Becomes(Job, "queued")
    /\ Goes("trim")
    /\ UNCHANGED <<up, floods, waits, trims, pushed, sent, cut, faults>>

WorkerTrims ==
    /\ worker.pc = "trim" /\ up
    /\ Trims
    /\ worker' = IdleWorker
    /\ UNCHANGED <<up, floods, waits, trims, pushed, sent, faults>>

\* Redis fails, or Telegram with another error than a flood: the message the
\* worker holds is gone; the cut is only put off.
WorkerFails ==
    /\ worker.pc # "idle"
    /\ up => Fault
    /\ ~up => worker.pc # "send" /\ UNCHANGED faults
    /\ IF worker.pc = "trim" THEN UNCHANGED state ELSE Becomes(Job, "lost")
    /\ worker' = IdleWorker
    /\ UNCHANGED <<up, queue, floods, waits, trims, pushed, sent, cut>>

-----------------------------------------------------------------------------
\* The time of not_before is there.
Due(m) ==
    /\ waits[m]
    /\ waits' = [waits EXCEPT ![m] = FALSE]
    /\ UNCHANGED <<up, queue, state, floods, trims, worker, pushed, sent, cut, faults>>

Outage ==
    /\ up /\ Fault
    /\ up' = FALSE
    /\ UNCHANGED <<queue, state, floods, waits, trims, worker, pushed, sent, cut>>

Recover ==
    /\ ~up /\ up' = TRUE
    /\ UNCHANGED <<queue, state, floods, waits, trims, worker, pushed, sent, cut, faults>>

\* The process dies with the message it took; the list stays.
Restart ==
    /\ Fault
    /\ state' = [m \in Messages |-> IF state[m] = "taken" THEN "lost" ELSE state[m]]
    /\ worker' = IdleWorker /\ trims' = 0
    /\ UNCHANGED <<up, queue, floods, waits, pushed, sent, cut>>

WorkerStep ==
    Take \/ Send \/ Flood \/ Requeue \/ Defer \/ WorkerTrims \/ WorkerFails

Next ==
    \/ \E m \in Messages : Push(m) \/ PushFails(m) \/ SendDirectly(m) \/ Due(m)
    \/ Trim \/ TrimFails \/ WorkerStep \/ Outage \/ Recover \/ Restart

Spec == Init /\ [][Next]_vars

\* The worker is one coroutine that runs for ever, and time passes.
FairSpec == Spec /\ WF_vars(WorkerStep) /\ WF_vars(Recover) /\ \A m \in Messages : WF_vars(Due(m))

-----------------------------------------------------------------------------
(* Properties.                                                             *)

Before(s, m, n) == \E i, j \in 1..Len(s) : i < j /\ s[i] = m /\ s[j] = n
Calm == {m \in Messages : floods[m] = 0}

\* Messages that met no flood are sent in the order in which they were queued.
InOrder ==
    \A m, n \in Calm : Before(sent, m, n) => Before(pushed, m, n)

\* The cut takes the oldest: what stays in the list is younger than a message
\* cut off, unless a flood had moved one of them.
CutsTheOldest ==
    \A m \in Calm : state[m] = "cut" => \A n \in cut[m] \cap Calm : Before(pushed, m, n)

\* Otherwise a message is lost by a third flood or by a fault only: nothing is
\* cut off that the list had room for.
KeptUnlessFull ==
    \A m \in Messages :
        /\ state[m] \in {"lost", "refused"} => faults > 0
        /\ state[m] = "cut" => Cardinality(cut[m]) = MAX_LEN

QueueKeepsOrder == InOrder /\ CutsTheOldest /\ KeptUnlessFull

\* Every queued message is dealt with at some time, however many floods there
\* are and although a deferred one stands at the head of the line.
Queued(m) == state[m] = "queued"
Handled(m) == state[m] \in Ended
QueuedIsHandled == \A m \in Messages : Queued(m) ~> Handled(m)

=============================================================================
