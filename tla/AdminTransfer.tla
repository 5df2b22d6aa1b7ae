---------------------------- MODULE AdminTransfer ----------------------------
(***************************************************************************)
(* Users of a panel admin moved to another admin and recorded as services  *)
(* of a Telegram user (src/app/services/panels/admin_transfer.py).  A job  *)
(* copies the users of its source, looks up which of them the bot already  *)
(* knows, changes the owner on the panel in chunks, one call for all and   *)
(* one each for those it did not report, and adds a service row for each   *)
(* user it moved.  One job runs per source.                                *)
(***************************************************************************)
EXTENDS Naturals, FiniteSets

CONSTANTS
    Users,         \* users of the panel that are active
    Unlimited,     \* those without data limit or expiry
    Admins,        \* admins of the panel
    Homes,         \* those the users may belong to at first
    Tgs,           \* Telegram users
    Jobs,
    CHUNK,         \* _SET_OWNER_CHUNK
    MAX_FAULTS

VARIABLES
    owner,     \* owner[u]: the admin of a panel user
    rows,      \* rows[u][g]: service rows of u that belong to g
    running,   \* _running_keys: sources with a job
    job,       \* job[j]: pc, the request, the copy, what it knows and has reported
    raced,     \* history: users a job of another source was busy with when one looked
    blind,     \* history: users looked up by a query that failed
    strayed,   \* history: users moved by a call that was reported as failed, or a lost job
    faults

vars == <<owner, rows, running, job, raced, blind, strayed, faults>>

None == "none"
NoJob == [pc |-> "idle", source |-> None, target |-> None, tg |-> None,
          copy |-> {}, known |-> {}, todo |-> {}, chunk |-> {}, moved |-> {},
          result |-> [u \in Users |-> None]]

HasRow(u, g) == rows[u][g] > 0

Init ==
    /\ \E a \in Homes : owner = [u \in Users |-> a]
    /\ \E one \in Users, g \in Tgs : \E n \in 0..1 :
         rows = [u \in Users |-> [h \in Tgs |-> IF u = one /\ h = g THEN n ELSE 0]]
    /\ running = {}
    /\ job = [j \in Jobs |-> NoJob]
    /\ raced = {} /\ blind = {} /\ strayed = {} /\ faults = 0

Mishap == faults < MAX_FAULTS /\ faults' = faults + 1

-----------------------------------------------------------------------------
\* Mutant: a source that has a job gets another one.
StartAgain(j) ==
    /\ job[j].pc = "idle"
    /\ \E s, a \in Admins, g \in Tgs :
         /\ s # a
         /\ job' = [job EXCEPT ![j] = [NoJob EXCEPT !.pc = "fetch", !.source = s, !.target = a,
                                                    !.tg = g]]
         /\ running' = running \cup {s}
    /\ UNCHANGED <<owner, rows, raced, blind, strayed, faults>>

\* start_transfer: source and target differ, and no job of the source runs.
Start(j) ==
    /\ job[j].pc = "idle"
    /\ \E s, a \in Admins, g \in Tgs :
         /\ s # a /\ s \notin running
         /\ job' = [job EXCEPT ![j] = [NoJob EXCEPT !.pc = "fetch", !.source = s, !.target = a,
                                                    !.tg = g]]
         /\ running' = running \cup {s}
    /\ UNCHANGED <<owner, rows, raced, blind, strayed, faults>>

\* fetch_admin_users.
Fetch(j) ==
    /\ job[j].pc = "fetch"
    /\ job' = [job EXCEPT ![j].pc = "check",
                          ![j].copy = {u \in Users : owner[u] = job[j].source}]
    /\ UNCHANGED <<owner, rows, running, raced, blind, strayed, faults>>

\* _existing_services: of the rows of one user name, one is kept.  A database error is
\* swallowed by the query, which then knows no row.
Linked(u) == {g \in Tgs : HasRow(u, g)}
Busy(j, u) == \E k \in Jobs \ {j} : job[k].source # job[j].source /\ u \in job[k].todo \cup job[k].chunk

Check(j) ==
    /\ job[j].pc = "check"
    /\ \E read \in BOOLEAN, kept \in [Users -> Tgs \cup {None}] :
         /\ IF read THEN UNCHANGED <<faults, blind>>
                    ELSE Mishap /\ blind' = blind \cup job[j].copy
         /\ \A u \in Users :
              IF read /\ u \in job[j].copy /\ Linked(u) # {} THEN kept[u] \in Linked(u)
                                                            ELSE kept[u] = None
         /\ LET limited == job[j].copy \ Unlimited
                foreign == {u \in limited : kept[u] \notin {None, job[j].tg}}
            IN  job' = [job EXCEPT
                  ![j].pc = "chunk",
                  ![j].todo = limited \ foreign,
                  ![j].known = {u \in limited : kept[u] = job[j].tg},
                  ![j].result = [u \in Users |->
                     IF u \in foreign THEN "conflict"
                     ELSE IF u \in job[j].copy \cap Unlimited THEN "unlimited" ELSE None]]
    /\ raced' = raced \cup {u \in job[j].copy : Busy(j, u)}
    /\ UNCHANGED <<owner, rows, running, strayed>>

\* A chunk: bulk_set_owner moves some of its users and reports those, or moves some and
\* fails: then nobody counts as moved.
Chunk(j) ==
    /\ job[j].pc = "chunk" /\ job[j].todo # {}
    /\ \E c \in SUBSET job[j].todo : \E m \in SUBSET c, told \in BOOLEAN :
         /\ IF Cardinality(job[j].todo) <= CHUNK THEN c = job[j].todo ELSE Cardinality(c) = CHUNK
         /\ IF told /\ m = c THEN UNCHANGED faults ELSE Mishap
         /\ owner' = [u \in Users |-> IF u \in m THEN job[j].target ELSE owner[u]]
         /\ strayed' = strayed \cup IF told THEN {} ELSE m
         /\ job' = [job EXCEPT ![j].pc = "single", ![j].chunk = c, ![j].todo = @ \ c,
                               ![j].moved = IF told THEN m ELSE {}]
    /\ UNCHANGED <<rows, running, raced, blind>>

\* set_owner_by_id for a user of the chunk that was not reported.
Single(j) ==
    /\ job[j].pc = "single"
    /\ \E u \in job[j].chunk \ job[j].moved :
         /\ job[j].result[u] = None
         /\ \/ /\ owner' = [owner EXCEPT ![u] = job[j].target]
               /\ job' = [job EXCEPT ![j].moved = @ \cup {u}]
               /\ UNCHANGED <<strayed, faults>>
            \/ /\ Mishap
               /\ \E took \in BOOLEAN :
                    /\ owner' = [owner EXCEPT ![u] = IF took THEN job[j].target ELSE @]
                    /\ strayed' = strayed \cup IF took THEN {u} ELSE {}
               /\ job' = [job EXCEPT ![j].result[u] = "failed"]
    /\ UNCHANGED <<rows, running, raced, blind>>

SinglesDone(j) ==
    /\ job[j].pc = "single"
    /\ \A u \in job[j].chunk \ job[j].moved : job[j].result[u] = "failed"
    /\ job' = [job EXCEPT ![j].pc = "record", ![j].chunk = job[j].moved]
    /\ UNCHANGED <<owner, rows, running, raced, blind, strayed, faults>>

\* Every moved user without a row gets one (_create_service), or the database refuses.
Record(j) ==
    /\ job[j].pc = "record"
    /\ \E u \in job[j].chunk :
         \/ /\ u \in job[j].known
            /\ job' = [job EXCEPT ![j].chunk = @ \ {u}, ![j].result[u] = "moved_linked"]
            /\ UNCHANGED <<rows, faults>>
         \/ /\ u \notin job[j].known
            /\ rows' = [rows EXCEPT ![u][job[j].tg] = @ + 1]
            /\ job' = [job EXCEPT ![j].chunk = @ \ {u}, ![j].result[u] = "moved"]
            /\ UNCHANGED faults
         \/ /\ u \notin job[j].known /\ Mishap
            /\ job' = [job EXCEPT ![j].chunk = @ \ {u}, ![j].result[u] = "moved_no_record"]
            /\ UNCHANGED rows
    /\ UNCHANGED <<owner, running, raced, blind, strayed>>

ChunkDone(j) ==
    /\ job[j].pc = "record" /\ job[j].chunk = {}
    /\ job' = [job EXCEPT ![j].pc = "chunk", ![j].moved = {}]
    /\ UNCHANGED <<owner, rows, running, raced, blind, strayed, faults>>

\* The verification only counts; then the source is free.  A job that fails frees it too.
Finish(j) ==
    /\ \/ job[j].pc = "chunk" /\ job[j].todo = {} /\ UNCHANGED <<strayed, faults>>
          /\ job' = [job EXCEPT ![j].pc = "done"]
       \/ job[j].pc \notin {"idle", "done", "error"} /\ Mishap
          /\ strayed' = strayed \cup job[j].moved
          /\ job' = [job EXCEPT ![j].pc = "error", ![j].todo = {}, ![j].chunk = {}]
    /\ running' = running \ {job[j].source}
    /\ UNCHANGED <<owner, rows, raced, blind>>

\* Jobs and running sources are kept in memory only.
Restart ==
    /\ Mishap
    /\ running' = {}
    /\ strayed' = strayed \cup UNION {job[j].moved : j \in Jobs}
    /\ job' = [j \in Jobs |-> IF job[j].pc = "idle" THEN NoJob ELSE [NoJob EXCEPT !.pc = "lost"]]
    /\ UNCHANGED <<owner, rows, raced, blind>>

Next ==
    \/ Restart
    \/ \E j \in Jobs :
         \/ Start(j) \/ Fetch(j) \/ Check(j) \/ Chunk(j) \/ Single(j) \/ SinglesDone(j)
         \/ Record(j) \/ ChunkDone(j) \/ Finish(j)

Spec == Init /\ [][Next]_vars

-----------------------------------------------------------------------------
(* Properties.                                                             *)

RowsOf(u) == {x \in Tgs \X (1..(Cardinality(Jobs) + 1)) : x[2] <= rows[u][x[1]]}

\* No service changes hands silently: a panel user belongs to one Telegram user of the
\* bot, unless jobs of two sources had it in hand at once or the look-up had failed.
OneOwnerInBot ==
    \A u \in Users : Cardinality(RowsOf(u)) <= 1 \/ u \in raced \cup blind

\* What a finished job reports is so: a user it moved is with the target and one it did
\* not move with the source, unless another job had it too or a failed call took
\* effect; and a user it moved is a service of the bot user, but where it says it is not.
ReportIsTrue ==
    \A j \in Jobs : job[j].pc = "done" =>
        \A u \in job[j].copy :
            LET result == job[j].result[u]
                moved == result \in {"moved", "moved_linked", "moved_no_record"}
            IN  /\ result # None
                /\ result \in {"moved", "moved_linked"} => HasRow(u, job[j].tg)
                /\ \/ owner[u] = (IF moved THEN job[j].target ELSE job[j].source)
                   \/ u \in strayed
                   \/ \E k \in Jobs \ {j} : job[k].pc = "lost" \/ u \in job[k].copy

TransferKeepsOwners == OneOwnerInBot /\ ReportIsTrue
=============================================================================
