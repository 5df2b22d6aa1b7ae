------------------------------ MODULE Deposits ------------------------------
(***************************************************************************)
(* Topping up the wallet in the chat, for itself or for a purchase that is *)
(* paid for directly: src/app/telegram/user/balance, and the parts of      *)
(* src/app/services/billing/direct_pay_{flow,store,fulfillment}.py it      *)
(* calls.  As in Conversations there is one user, a hash in Redis and      *)
(* messages whose buttons stay, and a handler is one action.  The record   *)
(* of the purchase survives the hash; how its commands interleave with     *)
(* payments under way is the subject of DirectPay.                         *)
(***************************************************************************)
EXTENDS Naturals, Sequences

CONSTANTS
    Purchases, Price,       \* Price[p]: what the invoice of p asked for
    Ways,                   \* ways to pay that are open, of the five below
    Least, Most,            \* Least[w], Most[w]: limits of a way to pay
    Typed,                  \* amounts a user may type
    MAX_PAYMENTS

VARIABLES
    session,   \* step, direct_pay_active, mablagh, direct_pay_ready
    record,    \* the purchase that waits: of, amount to top up, status, payments
    chat,      \* the latest message and an earlier one: kind, purchase and amount shown
    payments,  \* in the order they were opened
    wallet, enabled,  \* enabled: purchases whose direct-pay toggle is on
    number,    \* the user's phone number is known, or not asked for
    disturbed  \* history: since the menu was shown an earlier message was pressed, the
               \* session was lost, or an ordinary menu was opened over a purchase

vars == <<session, record, chat, payments, wallet, enabled, number, disturbed>>

None == "none"
Coins == {"crypto"}

Empty == [step |-> "home", active |-> FALSE, mablagh |-> 0, ready |-> None]
AtStep(step) == [Empty EXCEPT !.step = step]
Messages == {"latest", "earlier"}
NoRecord == [of |-> None, topup |-> 0, status |-> None, tx |-> 0, order |-> 0]

Buttons(kind, of, amount) == [kind |-> kind, of |-> of, amount |-> amount]
Plain(kind) == Buttons(kind, None, 0)

Waits == record.status \in {"pending", "linked"}
CancelSteps == {"crypto", "stars", "tonpays", "irgateway", "card"} \cup {"receipt", "photo"}

Init ==
    /\ session = Empty /\ record = NoRecord
    /\ chat = [m \in Messages |-> Plain("home")]
    /\ payments = <<>> /\ wallet = 0
    /\ enabled \in SUBSET Purchases /\ number \in BOOLEAN
    /\ disturbed = FALSE

-----------------------------------------------------------------------------
(* The chat, the session and the record.                                   *)

\* Message m is edited; or one is written, and either earlier one still at hand.
Writes(buttons, kept) == chat' = [latest |-> buttons, earlier |-> chat[kept]]
Shows(m, buttons) == Writes(buttons, IF m = "latest" THEN "earlier" ELSE "latest")
Answers(buttons) == \E m \in Messages : Shows(m, buttons)
Pressed(m, kinds) == chat[m].kind \in kinds
Notes(m) == disturbed' = (disturbed \/ m = "earlier")
Keeps == UNCHANGED <<wallet, enabled, number>>

\* notify_session_expired
Expires(m) ==
    /\ Shows(m, Plain("expired")) /\ Notes(m)
    /\ Keeps /\ UNCHANGED <<session, record, payments>>

Clamp(w, amount) ==
    IF amount < Least[w] THEN Least[w] ELSE IF amount > Most[w] THEN Most[w] ELSE amount

\* History: the payments that were to make the record's purchase no longer are.
Forgotten(ps) == [i \in DOMAIN ps |-> [ps[i] EXCEPT !.live = FALSE]]

\* Canceled or failed: what else the record holds is not looked at any more.
Over == [NoRecord EXCEPT !.status = "over"]

\* cancel_pending_for_user
Cancels ==
    /\ record' = IF Waits THEN Over ELSE record
    /\ payments' = Forgotten(payments)

\* The menu of the ways to pay, with a purchase it is for or without one; what it
\* shows is all there is in the session.
ShowsMenu(m, of, topup) ==
    /\ Shows(m, Buttons("menu", of, topup))
    /\ session' = [AtStep("menu") EXCEPT !.active = (of # None), !.mablagh = topup]
    /\ disturbed' = FALSE

\* Mutant: the purchase that waits is not called off.
ReturnKeepsWaiting(m) ==
    /\ UNCHANGED <<record, payments>>
    /\ IF session.active /\ Waits THEN ShowsMenu(m, record.of, record.topup)
       ELSE ShowsMenu(m, None, 0)

\* return_to_balance_menu
ReturnToMenu(m) ==
    IF session.active /\ Waits
    THEN ShowsMenu(m, record.of, record.topup) /\ UNCHANGED <<record, payments>>
    ELSE ShowsMenu(m, None, 0) /\ Cancels

\* start_direct_pay_topup, when the session and the wallet call for it.
Startable ==
    /\ session.ready \in enabled
    /\ wallet < Price[session.ready]

StartTopup(m, p) ==
    /\ record' = [NoRecord EXCEPT !.of = p, !.topup = Price[p] - wallet, !.status = "pending"]
    /\ payments' = Forgotten(payments)
    /\ ShowsMenu(m, p, Price[p] - wallet)

-----------------------------------------------------------------------------
(* Payments.                                                               *)

\* A payment as it is opened: its amount; if the latest message led to it, what that
\* told, which purchase it showed and whether the amount is all it lacks; and whether
\* it is to make that purchase.
Payment(w, amount, told, of, fair) ==
    [way |-> w, amount |-> amount, told |-> IF fair THEN told ELSE 0,
     of |-> IF fair THEN of ELSE None, whole |-> fair /\ amount >= record.topup,
     live |-> fair /\ of # None /\ w # "stars", state |-> "open", made |-> None]

Next1 == Len(payments) + 1

\* link_transaction, link_crypto_order: to whatever purchase waits.  The payment
\* linked before, of the same kind, makes nothing any more.
Links(payment) ==
    LET old == IF payment.way = "card" THEN record.tx ELSE record.order
        before == [i \in DOMAIN payments |->
                      [payments[i] EXCEPT !.live = @ /\ (i # old \/ ~Waits)]]
    IN /\ record' = IF ~Waits THEN record
                    ELSE IF payment.way = "card"
                         THEN [record EXCEPT !.tx = Next1, !.status = "linked"]
                         ELSE [record EXCEPT !.order = Next1, !.status = "linked"]
       /\ payments' = Append(before, payment)

\* The session after an amount was asked for: with a purchase it is kept, as far as the
\* way to pay could take it.
Asked(step, amount) ==
    [session EXCEPT !.step = step, !.mablagh = IF session.active THEN amount ELSE @]

\* The payment is open, linked if there is any record, and the conversation is over.
Opens(payment) ==
    /\ Len(payments) < MAX_PAYMENTS
    /\ IF payment.way # "stars" /\ (session.active \/ record # NoRecord)
       THEN Links(payment) /\ session' = Empty /\ disturbed' = FALSE
       ELSE /\ payments' = Append(payments, payment)
            /\ session' = Asked("home", payment.amount)
            /\ UNCHANGED <<record, disturbed>>
    /\ Answers(Plain("home"))

\* Nothing is opened: three crypto invoices wait or no amount was free, which ends the
\* conversation (create_crypto_invoice); or a gateway refuses and asks again.
OpensNot(w, amount) ==
    /\ w # "stars"
    /\ session' = Asked(IF w \in Coins THEN "home" ELSE session.step, amount)
    /\ Answers(Plain(IF w \in Coins THEN "home" ELSE "ask"))
    /\ UNCHANGED <<record, payments, disturbed>>

\* create_crypto_invoice, _create_and_send of both gateways, send_star_invoice.
Invoice(w, amount, told, of, fair) ==
    /\ Opens(Payment(w, amount, told, of, fair)) \/ OpensNot(w, amount)
    /\ Keeps

-----------------------------------------------------------------------------
(* The menu.                                                               *)

\* menu_add_balance_handler: the session goes on with a new step.
MenuAddBalance ==
    /\ session' = [session EXCEPT !.step = "menu"]
    /\ Answers(Buttons("menu", None, 0))
    /\ disturbed' = (disturbed \/ session.active \/ Waits)
    /\ Keeps /\ UNCHANGED <<record, payments>>

\* A way to pay is pressed at another step: _require_balance_payment_step.
TooLate(m) == Pressed(m, {"menu", "coins"}) /\ session.step # "menu" /\ Expires(m)

\* crypto_payments_callback
CryptoCoins(m) ==
    /\ Pressed(m, {"menu"}) /\ session.step = "menu" /\ Coins \subseteq Ways
    /\ Shows(m, [chat[m] EXCEPT !.kind = "coins"]) /\ Notes(m)
    /\ Keeps /\ UNCHANGED <<session, record, payments>>

\* A way that makes an invoice: of the amount the purchase lacks, or one to be typed.
Chooses(m, w) ==
    /\ session.step = "menu" /\ w \in Ways
    /\ IF session.active
       THEN Invoice(w, Clamp(w, session.mablagh), Clamp(w, chat[m].amount), chat[m].of,
                    ~disturbed /\ m = "latest")
       ELSE /\ session' = [session EXCEPT !.step = w]
            /\ Shows(m, Plain("ask")) /\ Notes(m)
            /\ Keeps /\ UNCHANGED <<record, payments>>

CryptoPressed(m) == Pressed(m, {"coins"}) /\ Chooses(m, "crypto")
StarsPressed(m) == Pressed(m, {"menu"}) /\ Chooses(m, "stars")
TonPaysPressed(m) == Pressed(m, {"menu"}) /\ Chooses(m, "tonpays")
IrGatewayPressed(m) == Pressed(m, {"menu"}) /\ Chooses(m, "irgateway")

\* The amount is typed.
Amount(w, a) ==
    /\ session.step = w
    /\ IF a < Least[w] \/ a > Most[w]
       THEN /\ Answers(Plain(IF w \in Coins \cup {"stars"} THEN "error" ELSE "ask"))
            /\ Keeps /\ UNCHANGED <<session, record, payments, disturbed>>
       ELSE Invoice(w, a, a, None, ~disturbed)

CryptoAmount(a) == Amount("crypto", a)
StarsAmount(a) == Amount("stars", a)
TonPaysAmount(a) == Amount("tonpays", a)
IrGatewayAmount(a) == Amount("irgateway", a)

-----------------------------------------------------------------------------
(* By card, with a photo of the receipt.                                   *)

\* manual_card_payment_callback
CardPressed(m) ==
    /\ Pressed(m, {"menu"}) /\ session.step = "menu" /\ "card" \in Ways
    /\ \/ /\ ~number
          /\ session' = [session EXCEPT !.step = "number"] /\ Answers(Plain("home"))
       \/ /\ number /\ session.active
          /\ session' = [session EXCEPT !.step = "receipt",
                                        !.mablagh = Clamp("card", session.mablagh)]
          /\ Shows(m, Buttons("card", chat[m].of, Clamp("card", session.mablagh)))
       \/ /\ number /\ ~session.active
          /\ session' = [session EXCEPT !.step = "card"] /\ Shows(m, Plain("ask"))
    /\ Notes(m) /\ Keeps /\ UNCHANGED <<record, payments>>

\* balance_phone_verify_handler: the way is not gone on with.
PhoneVerify ==
    /\ session.step = "number" /\ ~number
    /\ number' = TRUE
    /\ session' = [session EXCEPT !.step = "home"] /\ Answers(Plain("home"))
    /\ UNCHANGED <<record, payments, wallet, enabled, disturbed>>

\* cart_b_cart_amount_handler
CardAmount(a) ==
    /\ session.step = "card"
    /\ IF a < Least["card"] \/ a > Most["card"]
       THEN Answers(Plain("error")) /\ UNCHANGED session
       ELSE /\ session' = [session EXCEPT !.step = "receipt", !.mablagh = a]
            /\ Answers(Buttons("card", None, a))
    /\ Keeps /\ UNCHANGED <<record, payments, disturbed>>

\* manual_card_send_photo_callback
SendPhoto(m) ==
    /\ Pressed(m, {"card"})
    /\ IF session.step # "receipt" THEN Expires(m)
       ELSE /\ session' = [session EXCEPT !.step = "photo"]
            /\ Shows(m, Buttons("photo", chat[m].of, session.mablagh)) /\ Notes(m)
            /\ Keeps /\ UNCHANGED <<record, payments>>

\* mablagh_sharj_handler: a new photo, or one that is known already.
Photo ==
    /\ session.step = "photo"
    /\ \/ /\ Len(payments) < MAX_PAYMENTS
          /\ LET paid == Payment("card", session.mablagh, chat.latest.amount,
                                 chat.latest.of, ~disturbed)
             IN IF session.active \/ record # NoRecord THEN Links(paid)
                ELSE payments' = Append(payments, paid) /\ UNCHANGED record
       \/ UNCHANGED <<record, payments>>
    /\ session' = Empty /\ disturbed' = FALSE
    /\ Answers(Plain("home")) /\ Keeps

-----------------------------------------------------------------------------
(* Leaving.                                                                *)

\* balance_flow_cancel_callback, and the same by text.
FlowCancel(m) ==
    /\ Pressed(m, {"ask", "card", "photo"}) /\ session.step \in CancelSteps
    /\ ReturnToMenu(m) /\ Keeps

LegacyCancel ==
    /\ session.step \in CancelSteps
    /\ \E m \in Messages : ReturnToMenu(m)
    /\ Keeps

\* cart_b_cart_callback: back from the coins.
BackFromCoins(m) ==
    /\ Pressed(m, {"coins"}) /\ session.step = "menu"
    /\ ReturnToMenu(m) /\ Keeps

\* balance_return_home_callback
ReturnHome(m) ==
    /\ Pressed(m, {"menu", "error"})
    /\ Cancels /\ session' = Empty /\ disturbed' = FALSE
    /\ Answers(Plain("home")) /\ Keeps

\* /start, the button of an expired message, and the life time of the hash.
Start ==
    /\ session' = Empty /\ disturbed' = FALSE /\ Answers(Plain("home"))
    /\ Keeps /\ UNCHANGED <<record, payments>>

Lapse ==
    /\ session # Empty
    /\ session' = Empty /\ disturbed' = TRUE
    /\ Keeps /\ UNCHANGED <<record, payments, chat>>

-----------------------------------------------------------------------------
(* A purchase the wallet does not cover.                                   *)

\* The confirmed purchase is put aside (mark_direct_pay_ready) and the menu opened at
\* once, or a message says what is missing and offers to top up.
Orders(p) ==
    /\ wallet < Price[p]
    /\ \/ p \in enabled /\ \E m \in Messages : StartTopup(m, p)
       \/ /\ session' = [session EXCEPT !.step = "home",
                                        !.ready = IF p \in enabled THEN p ELSE @]
          /\ Answers(Buttons("short", p, 0))
          /\ UNCHANGED <<record, payments, disturbed>>
    /\ Keeps

\* direct_pay_topup_callback; back_to_balance_callback if the toggle was off.
TopUp(m) ==
    /\ Pressed(m, {"short"})
    /\ IF Startable THEN StartTopup(m, session.ready) ELSE ReturnToMenu(m)
    /\ Keeps

-----------------------------------------------------------------------------
(* The payment is confirmed, or ends otherwise.                            *)

\* get_pending_by_transaction_id, get_pending_by_crypto_order_id, and the claim.
MakesFor(i) == Waits /\ i \in {record.tx, record.order}

\* The credit, and fulfill_pending_record: the purchase is made if the wallet covers
\* it, unless the panel refuses.
Credit(i) ==
    /\ payments[i].state = "open"
    /\ LET sum == wallet + payments[i].amount
           after(state, made) == [payments[i] EXCEPT !.state = state, !.made = made]
           fails(state) ==
               /\ wallet' = sum /\ record' = Over
               /\ payments' = [Forgotten(payments) EXCEPT ![i] = after(state, None)]
       IN \/ /\ ~MakesFor(i) /\ wallet' = sum
             /\ payments' = [payments EXCEPT ![i] = after("credited", None)]
             /\ UNCHANGED record
          \/ MakesFor(i) /\ sum < Price[record.of] /\ fails("short")
          \/ MakesFor(i) /\ sum >= Price[record.of] /\ fails("refused")
          \/ /\ MakesFor(i) /\ sum >= Price[record.of]
             /\ wallet' = sum - Price[record.of] /\ record' = NoRecord
             /\ payments' = [Forgotten(payments) EXCEPT ![i] = after("credited", record.of)]
    /\ UNCHANGED <<session, chat, enabled, number, disturbed>>

\* It is rejected or expires: cancel_after_manual_reject, cancel_after_crypto_expire.
Closes(i) ==
    /\ payments[i].state = "open"
    /\ LET closed == [payments EXCEPT ![i].state = "closed"]
       IN IF MakesFor(i) THEN record' = Over /\ payments' = Forgotten(closed)
          ELSE UNCHANGED record /\ payments' = closed
    /\ Keeps /\ UNCHANGED <<session, chat, disturbed>>

-----------------------------------------------------------------------------
MenuStep(m) ==
    \/ TooLate(m) \/ CryptoCoins(m) \/ CryptoPressed(m) \/ StarsPressed(m)
    \/ TonPaysPressed(m) \/ IrGatewayPressed(m) \/ CardPressed(m) \/ SendPhoto(m)
    \/ FlowCancel(m) \/ BackFromCoins(m) \/ ReturnHome(m) \/ TopUp(m)

TypedStep(a) ==
    CryptoAmount(a) \/ StarsAmount(a) \/ TonPaysAmount(a) \/ IrGatewayAmount(a) \/ CardAmount(a)

Next ==
    \/ \E m \in Messages : MenuStep(m)
    \/ \E a \in Typed : TypedStep(a)
    \/ MenuAddBalance \/ PhoneVerify \/ Photo \/ LegacyCancel \/ Start \/ Lapse
    \/ \E p \in Purchases : Orders(p)
    \/ \E i \in DOMAIN payments : Credit(i) \/ Closes(i)

Spec == Init /\ [][Next]_vars

-----------------------------------------------------------------------------
(* Properties.                                                             *)

\* Every payment is within the limits of its way; who presses only the latest message
\* pays what it told, makes the purchase it showed and no other, and does make it
\* when the payment is confirmed, unless the way could not take all that was missing
\* or the panel refuses; Stars make none.
DepositsKeepFaith ==
    \A i \in DOMAIN payments :
        LET pay == payments[i]
        IN /\ pay.amount \in Least[pay.way]..Most[pay.way]
           /\ pay.told \in {0, pay.amount}
           /\ pay.told # 0 /\ pay.made # None => pay.made = pay.of
           /\ pay.live => /\ pay.state = "credited" => pay.made = pay.of
                          /\ pay.state = "short" => ~pay.whole

=============================================================================
