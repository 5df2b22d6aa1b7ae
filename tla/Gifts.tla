------------------------------- MODULE Gifts --------------------------------
(***************************************************************************)
(* What a user is given for nothing: the free trial                        *)
(* (src/app/telegram/user/trial.py), the prizes of the games               *)
(* (src/app/telegram/user/games.py), and the group charge and the reset of *)
(* trials by an admin (src/app/telegram/admin/wallets).                    *)
(*                                                                         *)
(* Every tap is a task of its own, and a task may be overtaken at each     *)
(* await.  What limits a gift is a column of the user's row: tested, and   *)
(* last_dice_roll, read as "played within a day".                          *)
(***************************************************************************)
EXTENDS Naturals

CONSTANTS
    Taps,          \* handlers that run at once
    Kinds,         \* what the taps ask for: a subset of {"trial", "game", "charge"}
    MAX_GIFTS,     \* bound on trials, draws and charges each
    MAX_RESETS, MAX_FAULTS

VARIABLES
    locking,    \* update_Money locks the row (SQLite does not)
    verify,     \* test_phone_verify
    setting,    \* open: test_mode; panels: how many offer a trial
    user,       \* the row: tested, number, played, amount
    shown,      \* messages with live buttons: picker, fresh and stale rock-paper-scissors, charge
    tap,        \* tap[t]: pc, on: the game message, saw: the amount read
    given,      \* trials on the panel, their rows, draws of this day, money owed, charges
    resets,
    excused,    \* history: trials and draws begun while another one was, draws on old buttons
    faults

vars == <<locking, verify, setting, user, shown, tap, given, resets, excused, faults>>

Idle == [pc |-> "idle", on |-> "none", saw |-> 0]

Init ==
    /\ locking \in BOOLEAN
    /\ verify \in IF "trial" \in Kinds THEN BOOLEAN ELSE {FALSE}
    /\ setting \in [open : {TRUE}, panels : IF "trial" \in Kinds THEN 1..2 ELSE {1}]
    /\ user = [tested |-> FALSE, number |-> "none", played |-> FALSE, amount |-> 0]
    /\ shown = [picker |-> FALSE, fresh |-> FALSE, stale |-> FALSE, charge |-> "charge" \in Kinds]
    /\ tap = [t \in Taps |-> Idle]
    /\ given = [trials |-> 0, rows |-> 0, draws |-> 0, owed |-> 0, charges |-> 0]
    /\ excused = [trials |-> 0, draws |-> 0, charges |-> 0]
    /\ resets = 0 /\ faults = 0

At(t, pc) == tap[t].pc = pc
Goes(t, pc) == tap' = [tap EXCEPT ![t].pc = pc]
Ends(t) == tap' = [tap EXCEPT ![t] = Idle]
Others(t, pcs) == \E o \in Taps \ {t} : tap[o].pc \in pcs
Excuse(what, late) == excused' = [excused EXCEPT ![what] = @ + IF late THEN 1 ELSE 0]

Fails(failed) ==
    /\ failed => faults < MAX_FAULTS
    /\ faults' = faults + IF failed THEN 1 ELSE 0

Config == <<locking, verify>>

-----------------------------------------------------------------------------
(* The free trial.                                                         *)

\* free_trial_handler: off, no verified number, taken already, a picker, or the trial.
FreeTrial(t) ==
    /\ "trial" \in Kinds /\ At(t, "idle") /\ setting.open
    /\ IF verify /\ user.number # "known"
       THEN user' = [user EXCEPT !.number = "asked"] /\ UNCHANGED <<shown, tap, excused>>
       ELSE /\ ~user.tested
            /\ UNCHANGED user
            /\ IF setting.panels > 1
               THEN shown' = [shown EXCEPT !.picker = TRUE] /\ UNCHANGED <<tap, excused>>
               ELSE Goes(t, "mark") /\ Excuse("trials", Others(t, {"mark"})) /\ UNCHANGED shown
    /\ UNCHANGED <<Config, setting, given, resets, faults>>

\* trial_phone_verify_handler: the contact is the user's own, from Iran.
VerifyPhone ==
    /\ user.number = "asked"
    /\ user' = [user EXCEPT !.number = "known"]
    /\ UNCHANGED <<Config, setting, shown, tap, given, resets, excused, faults>>

\* Mutant: the button is trusted.
PickUnchecked(t) ==
    /\ At(t, "idle") /\ shown.picker
    /\ Goes(t, "mark") /\ Excuse("trials", Others(t, {"mark"}))
    /\ UNCHANGED <<Config, setting, user, shown, given, resets, faults>>

\* trial_panel_pick_callback checks setting and row again; deleting the message may fail.
PickPanel(t) ==
    /\ At(t, "idle") /\ shown.picker
    /\ setting.open /\ ~user.tested
    /\ \E kept \in BOOLEAN : shown' = [shown EXCEPT !.picker = kept]
    /\ Goes(t, "mark") /\ Excuse("trials", Others(t, {"mark"}))
    /\ UNCHANGED <<Config, setting, user, given, resets, faults>>

\* deliver_trial: the row, the panel user, the service row, each in its own await.
MarkTested(t) ==
    /\ At(t, "mark")
    /\ user' = [user EXCEPT !.tested = TRUE]
    /\ Goes(t, "create")
    /\ UNCHANGED <<Config, setting, shown, given, resets, excused, faults>>

CreateTrial(t) ==
    /\ At(t, "create") /\ given.trials < MAX_GIFTS
    /\ given' = [given EXCEPT !.trials = @ + 1]
    /\ Goes(t, "record")
    /\ UNCHANGED <<Config, setting, user, shown, resets, excused, faults>>

RecordTrial(t) ==
    /\ At(t, "record")
    /\ given' = [given EXCEPT !.rows = @ + 1]
    /\ Ends(t)
    /\ UNCHANGED <<Config, setting, user, shown, resets, excused, faults>>

\* The admin turns test_mode on or off.
SwitchTrials ==
    /\ "trial" \in Kinds
    /\ setting' = [setting EXCEPT !.open = ~@]
    /\ UNCHANGED <<Config, user, shown, tap, given, resets, excused, faults>>

\* group_reset_confirm lists the users that took a trial, then clears each.
ListReset(t) ==
    /\ At(t, "idle") /\ resets < MAX_RESETS /\ user.tested
    /\ resets' = resets + 1
    /\ Goes(t, "reset")
    /\ UNCHANGED <<Config, setting, user, shown, given, excused, faults>>

ResetTested(t) ==
    /\ At(t, "reset")
    /\ user' = [user EXCEPT !.tested = FALSE]
    /\ Ends(t)
    /\ UNCHANGED <<Config, setting, shown, given, resets, excused, faults>>

-----------------------------------------------------------------------------
(* The games.                                                              *)

Playing == {"roll", "rolled", "menu"}

\* play_game and dice_shortcut: the row is read, then the dice is rolled by Telegram.
Play(t) ==
    /\ "game" \in Kinds /\ At(t, "idle") /\ ~user.played
    /\ \E pc \in {"roll", "menu"} : Goes(t, pc)
    /\ Excuse("draws", Others(t, Playing))
    /\ UNCHANGED <<Config, setting, user, shown, given, resets, faults>>

Roll(t) ==
    /\ At(t, "roll") /\ given.draws < MAX_GIFTS
    /\ given' = [given EXCEPT !.draws = @ + 1]
    /\ Goes(t, "rolled")
    /\ UNCHANGED <<Config, setting, user, shown, resets, excused, faults>>

\* _roll stores the time after the roll; what was rolled wins or loses.
RollStored(t) ==
    /\ At(t, "rolled")
    /\ user' = [user EXCEPT !.played = TRUE]
    /\ Goes(t, "prize") \/ Ends(t)
    /\ UNCHANGED <<Config, setting, shown, given, resets, excused, faults>>

\* Rock-paper-scissors stores the time, then shows the choices.
OpenChoices(t) ==
    /\ At(t, "menu")
    /\ user' = [user EXCEPT !.played = TRUE]
    /\ shown' = [shown EXCEPT !.fresh = TRUE]
    /\ Ends(t)
    /\ UNCHANGED <<Config, setting, given, resets, excused, faults>>

\* rps_choice: the buttons of any such message, whatever was played since.
Choose(t, on) ==
    /\ At(t, "idle") /\ shown[on] /\ given.draws < MAX_GIFTS
    /\ user' = [user EXCEPT !.played = TRUE]
    /\ given' = [given EXCEPT !.draws = @ + 1]
    /\ Excuse("draws", on = "stale" \/ \E o \in Taps : tap[o].on = on)
    /\ \E pc \in {"prize", "close"} : tap' = [tap EXCEPT ![t] = [@ EXCEPT !.pc = pc, !.on = on]]
    /\ UNCHANGED <<Config, setting, shown, resets, faults>>

\* The edit that tells the outcome takes the buttons away, or fails and leaves them.
CloseChoices(t) ==
    /\ At(t, "close")
    /\ \E failed \in BOOLEAN :
         /\ Fails(failed)
         /\ shown' = [shown EXCEPT ![tap[t].on] = FALSE,
                                   !.stale = (@ /\ tap[t].on # "stale") \/ failed]
    /\ Ends(t)
    /\ UNCHANGED <<Config, setting, user, given, resets, excused>>

\* A day after the last play, which no handler that read the row before it survives;
\* what is still on screen is of another day.
NewDay ==
    /\ user.played /\ \A t \in Taps : tap[t].pc \notin Playing
    /\ user' = [user EXCEPT !.played = FALSE]
    /\ shown' = [shown EXCEPT !.fresh = FALSE, !.stale = @ \/ shown.fresh]
    /\ tap' = [t \in Taps |-> [tap[t] EXCEPT !.on = IF @ = "fresh" THEN "stale" ELSE @]]
    /\ given' = [given EXCEPT !.draws = 0]
    /\ excused' = [excused EXCEPT !.draws = 0]
    /\ UNCHANGED <<Config, setting, resets, faults>>

-----------------------------------------------------------------------------
(* Money.                                                                  *)

AfterPrize(t) == IF tap[t].on = "none" THEN Idle ELSE [tap[t] EXCEPT !.pc = "close", !.saw = 0]

\* update_Money: with the row locked, one step; else it is read and written.
AwardPrize(t) ==
    /\ At(t, "prize") /\ given.owed < MAX_GIFTS
    /\ IF locking
       THEN /\ user' = [user EXCEPT !.amount = @ + 1]
            /\ given' = [given EXCEPT !.owed = @ + 1]
            /\ tap' = [tap EXCEPT ![t] = AfterPrize(t)]
       ELSE /\ tap' = [tap EXCEPT ![t] = [@ EXCEPT !.pc = "write", !.saw = user.amount]]
            /\ UNCHANGED <<user, given>>
    /\ UNCHANGED <<Config, setting, shown, resets, excused, faults>>

WritePrize(t) ==
    /\ At(t, "write") /\ given.owed < MAX_GIFTS
    /\ user' = [user EXCEPT !.amount = tap[t].saw + 1]
    /\ given' = [given EXCEPT !.owed = @ + 1]
    /\ tap' = [tap EXCEPT ![t] = AfterPrize(t)]
    /\ UNCHANGED <<Config, setting, shown, resets, excused, faults>>

\* group_charge_confirm takes the buttons away first; an edit that fails ends the handler.
ConfirmCharge(t) ==
    /\ At(t, "idle") /\ shown.charge
    /\ Goes(t, "edit")
    /\ Excuse("charges", Others(t, {"edit"}))
    /\ UNCHANGED <<Config, setting, user, shown, given, resets, faults>>

TakeButtons(t) ==
    /\ At(t, "edit")
    /\ \/ shown' = [shown EXCEPT !.charge = FALSE] /\ Goes(t, "charge") /\ Fails(FALSE)
       \/ Ends(t) /\ Fails(TRUE) /\ UNCHANGED shown
    /\ UNCHANGED <<Config, setting, user, given, resets, excused>>

\* add_balance_bulk: one statement, whatever the database.
GroupCharge(t) ==
    /\ At(t, "charge") /\ given.charges < MAX_GIFTS /\ given.owed < MAX_GIFTS
    /\ user' = [user EXCEPT !.amount = @ + 1]
    /\ given' = [given EXCEPT !.owed = @ + 1, !.charges = @ + 1]
    /\ Ends(t)
    /\ UNCHANGED <<Config, setting, shown, resets, excused, faults>>

-----------------------------------------------------------------------------
(* A call fails or the process restarts: the task is gone, what it did     *)
(* stays.  A roll whose time is not stored leaves the day open.            *)
Dies(t) ==
    /\ ~At(t, "idle")
    /\ Fails(TRUE)
    /\ Ends(t)
    /\ Excuse("draws", At(t, "rolled"))
    /\ shown' = [shown EXCEPT !.stale = @ \/ tap[t].on = "fresh",
                              !.fresh = @ /\ tap[t].on # "fresh"]
    /\ UNCHANGED <<Config, setting, user, given, resets>>

Next ==
    \/ VerifyPhone \/ SwitchTrials \/ NewDay
    \/ \E t \in Taps :
         \/ FreeTrial(t) \/ PickPanel(t) \/ MarkTested(t) \/ CreateTrial(t) \/ RecordTrial(t)
         \/ ListReset(t) \/ ResetTested(t)
         \/ Play(t) \/ Roll(t) \/ RollStored(t) \/ OpenChoices(t) \/ CloseChoices(t)
         \/ \E on \in {"fresh", "stale"} : Choose(t, on)
         \/ AwardPrize(t) \/ WritePrize(t)
         \/ ConfirmCharge(t) \/ TakeButtons(t) \/ GroupCharge(t)
         \/ Dies(t)

Spec == Init /\ [][Next]_vars

-----------------------------------------------------------------------------
(* Properties.                                                             *)

AtRest == \A t \in Taps : At(t, "idle")

\* A user gets one trial, one more for each reset by an admin and for each tap that
\* read the row before an earlier tap had marked it; nobody is marked in vain, and
\* every trial has its row, unless a call failed (deliver_trial).
TrialOnce ==
    /\ given.trials <= 1 + resets + excused.trials
    /\ AtRest /\ faults = 0 =>
         given.rows = given.trials /\ (user.tested => given.trials > 0)

\* One draw a day, "one play per day" (games.py): a second one is played only by
\* taps at the same time and on rock-paper-scissors buttons of another day or whose
\* outcome was not shown.
OneDrawPerDay == given.draws <= 1 + excused.draws

\* One confirmation charges the group once, but for taps before its buttons are
\* gone; and with row locks the balance is the sum of prizes and charges.
MoneyGivenOnce ==
    /\ given.charges <= 1 + excused.charges
    /\ user.amount <= given.owed
    /\ locking => user.amount = given.owed

GiftsOnce == TrialOnce /\ OneDrawPerDay /\ MoneyGivenOnce
=============================================================================
