---------------------------- MODULE BulkIncrease -----------------------------
(***************************************************************************)
(* Volume and time added to, or taken from, every service of a panel       *)
(* (src/app/telegram/admin/bulk_increase, routers/panel/tools.py).  The    *)
(* admin picks a panel and sets the amounts in the bot, sees what would be *)
(* done and applies it, or starts a run from the web panel.  A run copies  *)
(* the service rows, asks the panel to change all users of its admin at    *)
(* once and writes the rows from the copy; where it may not, or a dry run  *)
(* fails, it goes service by service and writes what it read from the      *)
(* panel.  Meanwhile an owner buys volume.                                 *)
(*                                                                         *)
(* The services are those of one panel, "here"; a run on another, "there", *)
(* leaves them alone, and one on all does the panels one by one.  The      *)
(* message is the last that showed what would be done: what an older one   *)
(* applies is no more than what the session holds by then, either.         *)
(* A limit of 0 is no limit, an expiry of 0 none.                          *)
(***************************************************************************)
EXTENDS Integers

CONSTANTS
    Services, Unsynced,     \* enabled services; those without panel_userid
    Limits,                 \* Limits[s]: volume and time of the user at first
    Volumes, Days,          \* amounts the admin may set
    Runs, NOW, MAX_RUNS, MAX_BOUGHT, MAX_FAULTS

VARIABLES
    user,      \* user[s] on the panel: volume, time
    row,       \* row[s]: package_size, expiration_time
    rights,    \* _admin_bulk_strategy: the bot may change all users at once
    session,   \* bulk_increase_panel, _volume and _time of the admin; 0: not set
    shown,     \* the message: what it shows, whether it can be applied, whether it still
               \* holds, how often it was applied
    run,       \* run[r]: pc, order, the copy of the rows, services left, one under way
    owner,     \* the purchase of volume: the service and the limit it wrote
    due,       \* history: what each user should have by what was told to have been done
    apart,     \* history: services changed by two at once, or beyond what the rule covers
    doubled,   \* history: Apply tapped while an earlier tap had not taken the button away
    started, bought, faults

vars == <<user, row, rights, session, shown, run, owner, due, apart, doubled, started,
          bought, faults>>

None == "none"
Panels == {"here", "there"}
Nothing == [panel |-> None, volume |-> 0, time |-> 0]
Free == [service |-> None, limit |-> 0]
NoRun == [pc |-> "idle", web |-> FALSE, shows |-> Nothing, order |-> Nothing, copy |-> <<>>,
          left |-> {}, service |-> None, new |-> [volume |-> 0, time |-> 0]]

Init ==
    /\ user = Limits /\ row = Limits /\ due = Limits
    /\ rights \in BOOLEAN
    /\ session = Nothing
    /\ shown = [order |-> Nothing, live |-> FALSE, holds |-> FALSE, applied |-> 0]
    /\ run = [r \in Runs |-> NoRun]
    /\ owner = Free
    /\ apart = {} /\ doubled = 0 /\ started = 0 /\ bought = 0 /\ faults = 0

Mishap == faults < MAX_FAULTS /\ faults' = faults + 1
Clipped(x) == IF x < 0 THEN 0 ELSE x
Working == {r \in Runs : run[r].pc # "idle"}
Here == {r \in Working : run[r].order.panel = "here"}
\* Who works on a service while another does is told apart.
Crowded(r, ss) == IF Here \ {r} # {} THEN ss
                  ELSE IF owner # Free THEN {owner.service} ELSE {}

Chat == <<session, shown>>
Data == <<user, row, due, apart>>

-----------------------------------------------------------------------------
(* The conversation.                                                       *)

\* A button of the list of panels, which any message may hold: the amounts stay.
PickPanel ==
    /\ started < MAX_RUNS
    /\ \E p \in Panels \ {session.panel} : session' = [session EXCEPT !.panel = p]
    /\ shown' = [shown EXCEPT !.holds = FALSE]
    /\ UNCHANGED <<Data, rights, run, owner, doubled, started, bought, faults>>

SetAmount ==
    /\ started < MAX_RUNS
    /\ \E v \in Volumes \cup {0}, d \in Days \cup {0} :
         /\ v # 0 \/ d # 0
         /\ session' = [session EXCEPT !.volume = IF v # 0 THEN v ELSE @,
                                       !.time = IF d # 0 THEN d ELSE @]
    /\ session' # session
    /\ shown' = [shown EXCEPT !.holds = FALSE]
    /\ UNCHANGED <<Data, rights, run, owner, doubled, started, bought, faults>>

\* A panel and an amount are needed to see what would be done, and to do it.
Ordered == session.panel # None /\ (session.volume # 0 \/ session.time # 0)

\* bulk_increase_confirm: the check of access and what Apply would do.
Confirm ==
    /\ started < MAX_RUNS /\ Ordered
    /\ shown' = [order |-> session, live |-> TRUE, holds |-> TRUE, applied |-> 0]
    /\ UNCHANGED <<Data, rights, session, run, owner, doubled, started, bought, faults>>

Cancel ==
    /\ started < MAX_RUNS /\ session # Nothing
    /\ session' = Nothing
    /\ shown' = [shown EXCEPT !.live = FALSE, !.holds = FALSE]
    /\ UNCHANGED <<Data, rights, run, owner, doubled, started, bought, faults>>

Begins(r, web, order) ==
    /\ started < MAX_RUNS /\ started' = started + 1
    /\ run' = [run EXCEPT ![r] = [NoRun EXCEPT
          !.pc = "load", !.web = web, !.order = order,
          !.shows = IF ~web /\ shown.holds THEN shown.order ELSE order]]

\* Apply reads the session, panel and amounts, not the message.
Apply(r) ==
    /\ run[r].pc = "idle" /\ shown.live /\ Ordered
    /\ Begins(r, FALSE, session)
    /\ shown' = [shown EXCEPT !.applied = @ + 1]
    /\ doubled' = doubled + IF \E o \in Runs : run[o].pc = "load" /\ ~run[o].web THEN 1 ELSE 0
    /\ UNCHANGED <<Data, rights, session, owner, bought, faults>>

\* bulk_increase of the web panel: amounts of its own, no fewer than nothing.
ApplyOnWeb(r) ==
    /\ run[r].pc = "idle" /\ ~\E o \in Runs : run[o].web
    /\ \E v \in Volumes \cup {0}, d \in Days \cup {0} :
         /\ v >= 0 /\ d >= 0 /\ v + d > 0
         /\ Begins(r, TRUE, [panel |-> "here", volume |-> v, time |-> d])
    /\ UNCHANGED <<Data, rights, Chat, owner, doubled, bought, faults>>

-----------------------------------------------------------------------------
(* A run.                                                                  *)

\* Rows and rights are read; the first progress message takes the buttons away, if the
\* edit works.  A run on another panel has nothing to do with these services.
Load(r) ==
    /\ run[r].pc = "load"
    /\ IF run[r].order.panel = "here"
       THEN /\ run' = [run EXCEPT ![r].pc = IF rights THEN "dry" ELSE "manual",
                                  ![r].copy = IF rights THEN row ELSE <<>>,
                                  ![r].left = Services]
            /\ apart' = apart \cup Crowded(r, Services)
       ELSE run' = [run EXCEPT ![r].pc = "away"] /\ UNCHANGED apart
    /\ IF run[r].web THEN UNCHANGED <<shown, faults>>
       ELSE \/ shown' = [shown EXCEPT !.live = FALSE] /\ UNCHANGED faults
            \/ Mishap /\ UNCHANGED shown
    /\ UNCHANGED <<user, row, due, rights, session, owner, doubled, started, bought>>

\* A dry run of each change; one that is refused leads to the services one by one.
DryRun(r) ==
    /\ run[r].pc = "dry"
    /\ \/ run' = [run EXCEPT ![r].pc = "volume"] /\ UNCHANGED faults
       \/ Mishap /\ run' = [run EXCEPT ![r].pc = "manual", ![r].copy = <<>>]
    /\ UNCHANGED <<Data, rights, Chat, owner, doubled, started, bought>>

\* bulk_modify_users_datalimit on every user of the admin, then bulk_modify_users_expire.
\* An exception of either ends the run on this panel: all its services count as failed.
\* What the panel makes of a user without limit is its own affair: here it stays so.
Raised(x, amount) == IF x = 0 THEN 0 ELSE Clipped(x + amount)

BulkVolume(r) ==
    /\ run[r].pc = "volume"
    /\ \/ /\ user' = [s \in Services |->
                [user[s] EXCEPT !.volume = Raised(@, run[r].order.volume)]]
          /\ run' = [run EXCEPT ![r].pc = "time"]
          /\ UNCHANGED faults
       \/ Mishap /\ run' = [run EXCEPT ![r].pc = "end"] /\ UNCHANGED user
    /\ apart' = apart \cup Crowded(r, Services)
    /\ UNCHANGED <<row, due, rights, Chat, owner, doubled, started, bought>>

BulkTime(r) ==
    /\ run[r].pc = "time"
    /\ \/ /\ user' = [s \in Services |->
                [user[s] EXCEPT !.time = IF @ = 0 THEN 0 ELSE @ + run[r].order.time]]
          /\ run' = [run EXCEPT ![r].pc = "rows"]
          /\ UNCHANGED faults
       \/ Mishap /\ run' = [run EXCEPT ![r].pc = "end"] /\ UNCHANGED user
    /\ apart' = apart \cup Crowded(r, Services)
    /\ UNCHANGED <<row, due, rights, Chat, owner, doubled, started, bought>>

Grown(old, amount, now) ==
    [volume |-> IF amount.volume # 0 THEN Clipped(old.volume + amount.volume) ELSE old.volume,
     time |-> IF amount.time # 0 THEN (IF old.time = 0 THEN now ELSE old.time) + amount.time
              ELSE old.time]

\* What the rule covers: limits that stay limits.
Covered(old, amount) ==
    /\ amount.volume # 0 => old.volume > 0 /\ old.volume + amount.volume > 0
    /\ amount.time # 0 => old.time > 0

\* Mutant: rows of services without a panel id are left out, as one by one.
BulkRowsSynced(r) ==
    /\ run[r].pc = "rows"
    /\ LET copy == run[r].copy
           amount == run[r].order
       IN  /\ row' = [s \in Services |->
                IF s \in Unsynced THEN row[s] ELSE Grown(copy[s], amount, NOW)]
           /\ due' = [s \in Services |-> Grown(due[s], amount, NOW)]
           /\ apart' = apart \cup {s \in Services : ~Covered(copy[s], amount)}
                             \cup Crowded(r, Services)
    /\ run' = [run EXCEPT ![r].pc = "end"]
    /\ UNCHANGED <<user, faults, rights, Chat, owner, doubled, started, bought>>

\* bulk_update_services: the fields that change, from the copy, in one transaction; a
\* database error is noted and the services count as done.
BulkRows(r) ==
    /\ run[r].pc = "rows"
    /\ LET copy == run[r].copy
           amount == run[r].order
           new == [s \in Services |-> Grown(copy[s], amount, NOW)]
       IN  /\ \/ /\ row' = [s \in Services |->
                       [volume |-> IF amount.volume # 0 THEN new[s].volume ELSE row[s].volume,
                        time |-> IF amount.time # 0 THEN new[s].time ELSE row[s].time]]
                 /\ UNCHANGED faults
              \/ Mishap /\ UNCHANGED row
           /\ due' = [s \in Services |-> Grown(due[s], amount, NOW)]
           /\ apart' = apart \cup {s \in Services : ~Covered(copy[s], amount)}
                             \cup Crowded(r, Services)
    /\ run' = [run EXCEPT ![r].pc = "end"]
    /\ UNCHANGED <<user, rights, Chat, owner, doubled, started, bought>>

\* _process_panel_manually: a service without panel id is skipped; the others are read
\* from the panel, changed there, and written to the row.
ReadUser(r) ==
    /\ run[r].pc = "manual"
    /\ \E s \in run[r].left :
         IF s \in Unsynced
         THEN run' = [run EXCEPT ![r].left = @ \ {s}] /\ UNCHANGED apart
         ELSE /\ run' = [run EXCEPT ![r].pc = "modify", ![r].left = @ \ {s}, ![r].service = s,
                                    ![r].new = Grown(user[s], run[r].order, NOW)]
              /\ apart' = apart \cup (IF Covered(user[s], run[r].order) THEN {} ELSE {s})
                                \cup Crowded(r, {s})
    /\ UNCHANGED <<user, row, due, rights, Chat, owner, doubled, started, bought, faults>>

ModifyUser(r) ==
    /\ run[r].pc = "modify"
    /\ LET s == run[r].service IN
       /\ \/ /\ user' = [user EXCEPT ![s] =
                   [volume |-> IF run[r].order.volume # 0 THEN run[r].new.volume ELSE @.volume,
                    time |-> IF run[r].order.time # 0 THEN run[r].new.time ELSE @.time]]
             /\ run' = [run EXCEPT ![r].pc = "write"]
             /\ UNCHANGED faults
          \/ /\ Mishap
             /\ run' = [run EXCEPT ![r].pc = "manual"]
             /\ UNCHANGED user
       /\ apart' = apart \cup Crowded(r, {s})
    /\ UNCHANGED <<row, due, rights, Chat, owner, doubled, started, bought>>

WriteRow(r) ==
    /\ run[r].pc = "write"
    /\ LET s == run[r].service
           amount == run[r].order
       IN  /\ \/ /\ row' = [row EXCEPT ![s] =
                       [volume |-> IF amount.volume # 0 THEN run[r].new.volume ELSE @.volume,
                        time |-> IF amount.time # 0 THEN run[r].new.time ELSE @.time]]
                 /\ UNCHANGED faults
              \/ Mishap /\ UNCHANGED row
           /\ due' = [due EXCEPT ![s] = Grown(@, amount, NOW)]
           /\ apart' = apart \cup Crowded(r, {s})
    /\ run' = [run EXCEPT ![r].pc = "manual", ![r].service = None]
    /\ UNCHANGED <<user, rights, Chat, owner, doubled, started, bought>>

\* The run is over: one of the bot clears the session, whatever it holds by now.
Finish(r) ==
    /\ run[r].pc \in {"end", "away"} \/ (run[r].pc = "manual" /\ run[r].left = {})
    /\ run' = [run EXCEPT ![r] = NoRun]
    /\ IF run[r].web THEN UNCHANGED Chat
       ELSE session' = Nothing /\ shown' = [shown EXCEPT !.holds = FALSE]
    /\ UNCHANGED <<Data, rights, owner, doubled, started, bought, faults>>

\* A run is a task: it is lost with the process.
Restart ==
    /\ Working # {} /\ Mishap
    /\ run' = [r \in Runs |-> NoRun]
    /\ UNCHANGED <<Data, rights, Chat, owner, doubled, started, bought>>

-----------------------------------------------------------------------------
(* An owner buys volume (routers/webapp/upgrade.py): the limit of the      *)
(* panel is read and written, then the row.                                *)
Buy ==
    /\ owner = Free /\ bought < MAX_BOUGHT
    /\ \E s \in Services \ Unsynced :
         /\ user[s].volume > 0
         /\ user' = [user EXCEPT ![s].volume = @ + 1]
         /\ owner' = [service |-> s, limit |-> user[s].volume + 1]
         /\ apart' = apart \cup IF Here # {} THEN {s} ELSE {}
    /\ bought' = bought + 1
    /\ UNCHANGED <<row, due, rights, Chat, run, doubled, started, faults>>

BuyStores ==
    /\ owner # Free
    /\ row' = [row EXCEPT ![owner.service].volume = owner.limit]
    /\ due' = [due EXCEPT ![owner.service].volume = @ + 1]
    /\ apart' = apart \cup IF Here # {} THEN {owner.service} ELSE {}
    /\ owner' = Free
    /\ UNCHANGED <<user, rights, Chat, run, doubled, started, bought, faults>>

Next ==
    \/ PickPanel \/ SetAmount \/ Confirm \/ Cancel \/ Buy \/ BuyStores \/ Restart
    \/ \E r \in Runs :
         \/ Apply(r) \/ ApplyOnWeb(r) \/ Load(r) \/ DryRun(r) \/ BulkVolume(r) \/ BulkTime(r)
         \/ BulkRows(r) \/ ReadUser(r) \/ ModifyUser(r) \/ WriteRow(r) \/ Finish(r)

Spec == Init /\ [][Next]_vars

-----------------------------------------------------------------------------
(* Properties.                                                             *)

AtRest == Working = {} /\ owner = Free

\* When all is at rest, panel user and row of a service agree and hold what was added by
\* the runs that counted it as done and by its owner, unless a call failed, two worked on
\* it at once, or it was or became unlimited.
IncreaseAddsUp ==
    AtRest /\ faults = 0 =>
        \A s \in Services \ apart : user[s] = row[s] /\ user[s] = due[s]

\* What is applied, and on which panel, is what the message showed, unless a panel was
\* picked or an amount set since: then the old message applies what it does not show.
AppliesWhatIsShown == \A r \in Working : run[r].order = run[r].shows

\* A message is applied once, but for a tap before its buttons were gone or when the edit
\* that takes them away failed.
AppliedOnce == shown.applied <= 1 + doubled + faults

BulkKeepsFaith == IncreaseAddsUp /\ AppliesWhatIsShown /\ AppliedOnce
=============================================================================
