--------------------------- MODULE Conversations ---------------------------
(***************************************************************************)
(* Buying a config and renewing one in the chat:                           *)
(*   src/app/telegram/user/shop, src/app/telegram/user/services            *)
(* One user, the hash of that user in Redis (step and data) and the        *)
(* messages of the bot, whose buttons stay where they are when the         *)
(* conversation goes on.  A button carries its own data and the handler    *)
(* combines it with the session, so what matters is which message is       *)
(* pressed in which state.  A handler is one action: the bot ignores a     *)
(* user whose presses follow within 0.8 s.  A panel sells one plan and     *)
(* holds one service of the user, both named after it.                     *)
(*                                                                         *)
(* The handlers of services are registered before those of shop, and a     *)
(* handler that returns without StopPropagation lets the next one whose    *)
(* pattern matches run: confirm_purchase_ and ApplyCodeTakhfif match the   *)
(* renewal's buttons too.                                                  *)
(***************************************************************************)
EXTENDS FiniteSets

CONSTANTS
    Panels,         \* panels that sell configs
    DurationFirst,  \* those that ask for the duration before the plan
    WithCustom,     \* those that sell a custom volume and duration
    Messages        \* messages of the chat whose buttons are still at hand

VARIABLES
    session,   \* the hash of the user: step, panel, plan, ...
    chat,      \* chat[m]: the buttons of message m
    latest,    \* the message the bot wrote or edited last
    sticky,    \* whether the user has a sticky discount
    disturbed, \* history: since the session began, an earlier message was pressed,
               \* the session was lost or a debit came too late
    ordered    \* the order this step made, if any

vars == <<session, chat, latest, sticky, disturbed, ordered>>

None == "none"
Custom == "custom"

\* A plan, and for a custom one the panel whose prices it was computed with.
Item(plan, priced) == [plan |-> plan, priced |-> priced]
NoItem == Item(None, None)

\* The buttons of a message: what they say of a panel or service, and of an item.
Buttons(kind, of, item) == [kind |-> kind, of |-> of, item |-> item]
Plain(kind) == Buttons(kind, None, NoItem)
Named(kind, of) == Buttons(kind, of, NoItem)

Empty == [step |-> "home", panel |-> None, plan |-> None, priced |-> None,
          config |-> None, offer |-> NoItem]

Init ==
    /\ session = Empty /\ ordered = {} /\ disturbed = FALSE
    /\ chat = [m \in Messages |-> Plain("home")] /\ latest \in Messages
    /\ sticky \in BOOLEAN

-----------------------------------------------------------------------------
(* The chat and the session.                                               *)

\* Message m is written or edited.
Shows(m, buttons) == chat' = [chat EXCEPT ![m] = buttons] /\ latest' = m

\* The bot answers a text: in a message of its own or by editing the one it asked in.
Answers(buttons) == \E m \in Messages : Shows(m, buttons)

Silent == ordered' = {} /\ UNCHANGED sticky

\* A button of m is pressed.
Pressed(m, kinds) == chat[m].kind \in kinds
Notes(m) == disturbed' = (disturbed \/ m # latest)
Quiet == UNCHANGED disturbed

Clears == session' = Empty /\ disturbed' = FALSE

\* notify_session_expired
Expires(m) == Shows(m, Plain("expired")) /\ UNCHANGED session /\ Notes(m)

\* resolve_buy_plan_from_session
Resolved == session.plan # None /\ (session.plan = Custom => session.priced # None)
Chosen == Item(session.plan, session.priced)

\* What is bought or renewed, and how it is paid: from the wallet, with the code of a
\* cut amount, or put aside to be paid for directly, with the code the session holds.
\* The volume a plan stands for (gig) is always stored with it.
Purchase == [kind |-> "purchase", service |-> None, item |-> Chosen]
Renewal(plan) == [kind |-> "renewal", service |-> session.config, item |-> Item(plan, None)]

FromWallet(price, cut) == [price |-> price, cut |-> cut, claims |-> cut, direct |-> FALSE]
Aside(price, cut) ==
    [price |-> price, cut |-> cut, claims |-> session.offer # NoItem, direct |-> TRUE]

\* m is pressed and orders; told: it was answered as expired before.
Orders(m, what, price, cut, told) ==
    \E pay \in {FromWallet(price, cut), Aside(price, cut)} :
        ordered' = {[what |-> what, panel |-> session.panel, pay |-> pay, told |-> told,
                     shown |-> chat[m], kept |-> ~disturbed /\ m = latest]}

-----------------------------------------------------------------------------
(* Menus.                                                                  *)

\* start_command_handler; session_restart_callback
Start == Clears /\ Answers(Plain("home")) /\ Silent
Restart(m) == Pressed(m, {"expired"}) /\ Clears /\ Answers(Plain("home")) /\ Silent

\* buy_service_handler: the session goes on with a new step.
BuyMenu ==
    /\ session' = [session EXCEPT !.step = "home"]
    /\ Answers(Plain("panels")) /\ Quiet /\ Silent

\* data_cancel_callback: the session is kept.
Cancel(m) ==
    /\ Pressed(m, {"panels", "prompt", "username", "conflict", "invoice", "cutInvoice", "ask"})
    /\ session' = [session EXCEPT !.step = "home"]
    /\ Answers(Plain("home")) /\ Notes(m) /\ Silent

\* The list of services, and one of them.
ServicesMenu ==
    /\ session' = [session EXCEPT !.step = "home"]
    /\ Answers(Plain("services")) /\ Quiet /\ Silent

ServiceInfo(m) ==
    /\ Pressed(m, {"services", "renewDurations", "renewPlans", "renewInvoice", "renewCut",
                   "renewAsk", "renewed"})
    /\ session' = [session EXCEPT !.step = "home"]
    /\ \E s \in Panels :
          /\ chat[m].kind = "services" \/ chat[m].of = s
          /\ Shows(m, Named("service", s))
    /\ Notes(m) /\ Silent

\* The hash of the user expires in Redis, or an admin grants or takes a discount.
Lapse ==
    /\ session # Empty /\ session' = Empty /\ disturbed' = TRUE
    /\ Silent /\ UNCHANGED <<chat, latest>>

StickyChanges ==
    /\ sticky' = ~sticky /\ ordered' = {}
    /\ UNCHANGED <<session, chat, latest, disturbed>>

-----------------------------------------------------------------------------
(* Buying: user/shop.                                                      *)

BackToPanels(m) ==
    /\ Pressed(m, {"durations", "plans"})
    /\ session' = [session EXCEPT !.step = "home"]
    /\ Shows(m, Plain("panels")) /\ Notes(m) /\ Silent

\* buy_vpn_panel_callback: a panel that asks for the duration first leaves the step.
BuyVPN(m, p) ==
    /\ Pressed(m, {"panels", "prompt"}) /\ chat[m].of \in {None, p}
    /\ IF p \in DurationFirst
       THEN session' = [session EXCEPT !.panel = p] /\ Shows(m, Named("durations", p))
       ELSE /\ session' = [session EXCEPT !.step = "selectData", !.panel = p]
            /\ Shows(m, Named("plans", p))
    /\ Notes(m) /\ Silent

\* select_duration_group_for_buy_callback: the step, not the panel.
SelectDuration(m) ==
    /\ Pressed(m, {"durations"})
    /\ session' = [session EXCEPT !.step = "selectData"]
    /\ Shows(m, Named("plans", chat[m].of)) /\ Notes(m) /\ Silent

\* select_plan_for_buy_callback
SelectPlan(m) ==
    /\ Pressed(m, {"plans"}) /\ Silent
    /\ \/ session.step # "selectData" /\ Expires(m)
       \/ /\ session.step = "selectData"
          /\ session' = [session EXCEPT !.step = "enter_username", !.plan = chat[m].of,
                                        !.priced = None]
          /\ Shows(m, Plain("username")) /\ Notes(m)

\* custom_buy_callback, in any step
CustomBuy(m) ==
    /\ Pressed(m, {"durations", "plans"}) /\ chat[m].of \in WithCustom
    /\ session' = [session EXCEPT !.step = "custom_buy_enter_gb", !.panel = chat[m].of,
                                  !.plan = Custom, !.priced = None]
    /\ Shows(m, Named("prompt", chat[m].of)) /\ Notes(m) /\ Silent

\* custom_buy_input_handler: limits and prices are those of the panel of the session.
TypeCustom ==
    /\ session.step \in {"custom_buy_enter_gb", "custom_buy_enter_days"} /\ Silent
    /\ \/ session.panel \notin WithCustom /\ Clears /\ Answers(Plain("home"))
       \/ /\ session.panel \in WithCustom /\ Quiet
          /\ \/ UNCHANGED session /\ Answers(Named("prompt", session.panel))
             \/ /\ session.step = "custom_buy_enter_gb"
                /\ session' = [session EXCEPT !.step = "custom_buy_enter_days", !.plan = Custom]
                /\ Answers(Named("prompt", session.panel))
             \/ /\ session.step = "custom_buy_enter_days"
                /\ session' = [session EXCEPT !.step = "enter_username", !.plan = Custom,
                                              !.priced = session.panel]
                /\ Answers(Plain("username"))

\* _confirm_buy_username; without a panel or a plan it raises.
Invoice == Buttons(IF sticky THEN "cutInvoice" ELSE "invoice", session.panel, Chosen)

Invoices ==
    /\ session.panel # None /\ Resolved
    /\ session' = IF sticky
                  THEN [session EXCEPT !.step = "Takhfif_confirm_purchase", !.offer = Chosen]
                  ELSE [session EXCEPT !.step = "crconf"]

\* retry_buy_username_callback
RetryUsername(m) ==
    /\ Pressed(m, {"conflict"}) /\ Silent
    /\ \/ session.step # "enter_username" /\ Expires(m)
       \/ /\ session.step = "enter_username"
          /\ Shows(m, Plain("username")) /\ UNCHANGED session /\ Notes(m)

\* generate_buy_username_callback
GenerateUsername(m) ==
    /\ Pressed(m, {"username"}) /\ Silent
    /\ \/ session.step # "enter_username" /\ Expires(m)
       \/ /\ session.step = "enter_username"
          /\ Invoices /\ Shows(m, Invoice) /\ Notes(m)

\* buy_username_message_handler: a name that is not free is asked for again.
TypeUsername ==
    /\ session.step = "enter_username" /\ Quiet /\ Silent
    /\ \/ Invoices /\ Answers(Invoice)
       \/ Answers(Plain("username")) /\ UNCHANGED session

\* buy_discount_code_handler
TypeCode ==
    /\ session.step = "WhatingForCodeTakhfif" /\ Silent
    /\ \/ Clears /\ Answers(Plain("home"))
       \/ /\ Resolved /\ Quiet
          /\ session' = [session EXCEPT !.step = "Takhfif_confirm_purchase", !.offer = Chosen]
          /\ Answers(Buttons("cutInvoice", session.panel, Chosen))

\* The message is replaced by an error and the session kept.
Refuses(m) == Shows(m, Plain("home")) /\ UNCHANGED session /\ Notes(m) /\ ordered' = {}

\* _complete_vpn_purchase, create_vpn_purchase_for_user: bought from the wallet, put
\* aside to be paid for directly (with the code the session holds), or the name is taken.
Completes(m, price, cut, told) ==
    /\ Resolved /\ session.panel # None
    /\ \/ Clears /\ Shows(m, Plain("home")) /\ Orders(m, Purchase, price, cut, told)
       \/ /\ session' = [session EXCEPT !.step = "enter_username"]
          /\ Shows(m, Plain("conflict")) /\ Notes(m) /\ ordered' = {}

\* confirm_buy_callback
ConfirmBuy(m, told) ==
    \/ session.step # "crconf" /\ Expires(m) /\ ordered' = {}
    \/ session.step = "crconf" /\ (Completes(m, Chosen, sticky, told) \/ Refuses(m))

\* apply_buy_discount_callback
ApplyCode(m) ==
    /\ ordered' = {}
    /\ \/ session.step # "crconf" /\ Expires(m)
       \/ /\ session.step = "crconf"
          /\ session' = [session EXCEPT !.step = "WhatingForCodeTakhfif"]
          /\ Shows(m, Plain("ask")) /\ Notes(m)

\* A mutant that does not ask for the step.
ConfirmsAnyStep(m) ==
    /\ Pressed(m, {"cutInvoice"}) /\ UNCHANGED sticky
    /\ session.offer # NoItem /\ Completes(m, session.offer, TRUE, FALSE)

\* confirm_discounted_buy_callback
ConfirmDiscountedBuy(m) ==
    /\ Pressed(m, {"cutInvoice"}) /\ UNCHANGED sticky
    /\ \/ session.step # "Takhfif_confirm_purchase" /\ Expires(m) /\ ordered' = {}
       \/ /\ session.step = "Takhfif_confirm_purchase"
          /\ \/ session.offer # NoItem /\ Completes(m, session.offer, TRUE, FALSE)
             \/ Refuses(m)

InvoicePressed(m) ==
    Pressed(m, {"invoice"}) /\ UNCHANGED sticky /\ (ConfirmBuy(m, FALSE) \/ ApplyCode(m))

-----------------------------------------------------------------------------
(* Renewing: user/services.  All but the first of the buttons are refused  *)
(* by guard_user_service_callback when the session holds no service.       *)

Guarded == session.config # None

\* TamdidVPN_: a panel that asks for the duration first leaves the step.
TamdidVPN(m) ==
    LET s == chat[m].of IN
    /\ Pressed(m, {"service"})
    /\ IF s \in DurationFirst
       THEN /\ session' = [session EXCEPT !.config = s, !.panel = s]
            /\ Shows(m, Named("renewDurations", s))
       ELSE /\ session' = [session EXCEPT !.step = "selectTamdid", !.config = s, !.panel = s]
            /\ Shows(m, Named("renewPlans", s))
    /\ Notes(m) /\ Silent

\* SelectDurationGroupForTamdid: the plans of the service on the button.
SelectDurationTamdid(m) ==
    /\ Pressed(m, {"renewDurations"}) /\ Guarded
    /\ session' = [session EXCEPT !.step = "selectTamdid"]
    /\ Shows(m, Named("renewPlans", chat[m].of)) /\ Notes(m) /\ Silent

\* SelectPlanTamdid_: the plan on the button for the service of the session.
SelectPlanTamdid(m) ==
    /\ Pressed(m, {"renewPlans"}) /\ Guarded /\ Silent
    /\ \/ session.step # "selectTamdid" /\ Expires(m)
       \/ /\ session.step = "selectTamdid"
          /\ session' = [session EXCEPT !.step = "crconf_tamdid", !.plan = chat[m].of]
          /\ Shows(m, Buttons("renewInvoice", session.config, Item(chat[m].of, None))) /\ Notes(m)

\* The renewal is made for the panel of the session, or put aside.
Renews(m, plan, price, cut) ==
    Clears /\ Shows(m, Named("renewed", session.config))
        /\ Orders(m, Renewal(plan), price, cut, FALSE)

\* A debit that finds too little money: an alert, and a return that lets
\* confirm_buy_callback answer.
DebitTooLate(m) ==
    Shows(m, Plain("expired")) /\ UNCHANGED session /\ disturbed' = TRUE /\ ordered' = {}

\* confirm_purchase_tamdid_, and confirm_buy_callback after each of its returns; told
\* when the return follows notify_session_expired.
ConfirmPurchaseTamdid(m) ==
    \/ ~Guarded /\ ConfirmBuy(m, FALSE)
    \/ Guarded /\ session.step # "crconf_tamdid" /\ ConfirmBuy(m, TRUE)
    \/ /\ Guarded /\ session.step = "crconf_tamdid"
       /\ LET plan == chat[m].item.plan IN
             Renews(m, plan, Item(plan, None), FALSE) \/ Refuses(m) \/ DebitTooLate(m)

\* ApplyCodeTakhfifTamdid, and apply_buy_discount_callback after each of its returns
ApplyCodeTamdid(m) ==
    \/ ~(Guarded /\ session.step = "crconf_tamdid") /\ ApplyCode(m)
    \/ /\ Guarded /\ session.step = "crconf_tamdid" /\ ordered' = {}
       /\ session' = [session EXCEPT !.step = "WhatingForCodeTakhfifTamdid"]
       /\ Shows(m, Named("renewAsk", session.config)) /\ Notes(m)

RenewInvoicePressed(m) ==
    Pressed(m, {"renewInvoice"}) /\ UNCHANGED sticky
        /\ (ConfirmPurchaseTamdid(m) \/ ApplyCodeTamdid(m))

\* service_message_handler
TypeCodeTamdid ==
    /\ session.step = "WhatingForCodeTakhfifTamdid" /\ Silent
    /\ \/ Clears /\ Answers(Plain("home"))
       \/ /\ session' = [session EXCEPT !.step = "Takhfif_confirm_purchase_tamdid",
                                        !.offer = Item(session.plan, None)]
          /\ Answers(Buttons("renewCut", session.config, Item(session.plan, None))) /\ Quiet

\* Confirm_buy_tamdid
ConfirmBuyTamdid(m) ==
    LET step == "Takhfif_confirm_purchase_tamdid" IN
    /\ Pressed(m, {"renewCut"}) /\ Guarded /\ UNCHANGED sticky
    /\ \/ session.step # step /\ Expires(m) /\ ordered' = {}
       \/ /\ session.step = step /\ session.offer # NoItem
          /\ Renews(m, session.plan, session.offer, TRUE)
       \/ session.step = step /\ Refuses(m)

-----------------------------------------------------------------------------
Next ==
    \/ Start \/ BuyMenu \/ ServicesMenu \/ Lapse \/ StickyChanges
    \/ TypeCustom \/ TypeUsername \/ TypeCode \/ TypeCodeTamdid
    \/ \E m \in Messages :
          \/ Restart(m) \/ Cancel(m) \/ ServiceInfo(m) \/ BackToPanels(m)
          \/ \E p \in Panels : BuyVPN(m, p)
          \/ SelectDuration(m) \/ SelectPlan(m) \/ CustomBuy(m)
          \/ RetryUsername(m) \/ GenerateUsername(m)
          \/ InvoicePressed(m) \/ ConfirmDiscountedBuy(m)
          \/ TamdidVPN(m) \/ SelectDurationTamdid(m) \/ SelectPlanTamdid(m)
          \/ RenewInvoicePressed(m) \/ ConfirmBuyTamdid(m)

Spec == Init /\ [][Next]_vars

-----------------------------------------------------------------------------
\* The amount taken was computed for the very item that is bought, and, when the
\* wallet pays, a discount code is claimed exactly when the amount was cut: however
\* old the buttons are that were pressed.
PricedAsMade ==
    \A o \in ordered :
        o.pay.price = o.what.item /\ (~o.pay.direct => o.pay.claims = o.pay.cut)

\* Who only presses buttons of the bot's last message gets what that message shows,
\* with a plan of the panel it is made on.
AsShown ==
    \A o \in ordered : o.kept =>
        /\ o.shown.item = o.what.item
        /\ o.panel = o.shown.of
        /\ o.what.kind = "renewal" => o.what.service = o.shown.of
        /\ o.panel = IF o.what.item.plan = Custom THEN o.what.item.priced ELSE o.what.item.plan

\* And is never told that its button has expired.
LatestWorks == ~disturbed => chat[latest].kind # "expired"

ChatKeepsFaith == PricedAsMade /\ AsShown /\ LatestWorks

-----------------------------------------------------------------------------
(* Why: the inductive invariant.                                           *)

Optional(S) == S \cup {None}
Items == [plan : Optional(Panels \cup {Custom}), priced : Optional(Panels)]

Steps == {"home", "selectData", "custom_buy_enter_gb", "custom_buy_enter_days",
          "enter_username", "crconf", "WhatingForCodeTakhfif", "Takhfif_confirm_purchase",
          "selectTamdid", "crconf_tamdid", "WhatingForCodeTakhfifTamdid",
          "Takhfif_confirm_purchase_tamdid"}

Kinds == {"home", "expired", "panels", "services", "service", "durations", "plans",
          "prompt", "username", "conflict", "invoice", "cutInvoice", "ask",
          "renewDurations", "renewPlans", "renewInvoice", "renewAsk", "renewCut", "renewed"}

Sessions == [step : Steps, panel : Optional(Panels), config : Optional(Panels),
             plan : Optional(Panels \cup {Custom}), priced : Optional(Panels), offer : Items]

Contents ==
    {b \in [kind : Kinds, of : Optional(Panels), item : Items] :
        b.kind = "service" => b.of \in Panels}

\* The session and the buttons hold what the handlers put there.
ConversationsTypeOK ==
    session \in Sessions /\ chat \in [Messages -> Contents] /\ latest \in Messages

\* In the steps that take a cut amount it is that of the plan of the session.
OfferFits ==
    /\ session.step = "Takhfif_confirm_purchase" => session.offer = Chosen
    /\ session.step = "Takhfif_confirm_purchase_tamdid" => session.offer = Item(session.plan, None)

\* Session s holds a plan of its panel; it renews with a plan of the service's panel.
Sells(s) == s.panel = IF s.plan = Custom THEN s.priced ELSE s.plan
RenewsItsOwn(s) == s.config # None /\ s.panel = s.config
RenewsWithItsPlan(s) == RenewsItsOwn(s) /\ s.plan = s.config

BuyingSteps == {"enter_username", "crconf", "WhatingForCodeTakhfif", "Takhfif_confirm_purchase"}
RenewingSteps == {"crconf_tamdid", "WhatingForCodeTakhfifTamdid", "Takhfif_confirm_purchase_tamdid"}
TypingSteps == {"custom_buy_enter_gb", "custom_buy_enter_days"}

StepFits(s) ==
    /\ s.step \in BuyingSteps => Sells(s)
    /\ s.step \in RenewingSteps => RenewsWithItsPlan(s)

\* Buttons b belong to session s: the step is one their handlers accept, and what
\* they say is what the session holds.
BuyFits(s, b) ==
    /\ b.kind \in {"panels", "service"} => s.step = "home"
    /\ b.kind = "prompt" => s.step \in TypingSteps
    /\ b.kind = "durations" => b.of = s.panel /\ s.step \in TypingSteps \cup {"home"}
    /\ b.kind = "plans" => b.of = s.panel /\ s.step = "selectData"
    /\ b.kind \in {"username", "conflict"} => s.step = "enter_username"
    /\ b.kind \in {"invoice", "cutInvoice"} => b.of = s.panel /\ b.item = Item(s.plan, s.priced)
    /\ b.kind = "invoice" => s.step = "crconf"
    /\ b.kind = "cutInvoice" => s.step = "Takhfif_confirm_purchase"

RenewFits(s, b) ==
    /\ b.kind \in {"renewDurations", "renewPlans", "renewInvoice", "renewCut"} =>
         b.of = s.config /\ RenewsItsOwn(s)
    /\ b.kind = "renewPlans" => s.step = "selectTamdid"
    /\ b.kind \in {"renewInvoice", "renewCut"} => b.item = Item(s.plan, None)
    /\ b.kind = "renewInvoice" => s.step = "crconf_tamdid"
    /\ b.kind = "renewCut" => s.step = "Takhfif_confirm_purchase_tamdid"

Fits(s, b) == StepFits(s) /\ b.kind # "expired" /\ BuyFits(s, b) /\ RenewFits(s, b)

\* While only the latest message is pressed, it is the one the session belongs to.
LatestFits == ~disturbed => Fits(session, chat[latest])

ConversationsInv == ConversationsTypeOK /\ OfferFits /\ LatestFits /\ PricedAsMade /\ AsShown

\* docs/content/docs/user/index.mdx:184: a button that is answered as expired takes
\* no money (handlers of services/callbacks.py and shop/callbacks.py).
ExpiredTakesNothing == \A o \in ordered : ~o.told
=============================================================================
