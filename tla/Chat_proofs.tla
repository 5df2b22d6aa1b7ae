------------------------------ MODULE Chat_proofs ------------------------------
(***************************************************************************)
(* Proofs about the chat: in Conversations what the user orders is what    *)
(* the pressed message shows, then, as the instance Deposit, in Deposits   *)
(* what is paid is what the pressed message told, and last, as the         *)
(* instances Queue and Mail, SendQueue keeps the order of what the bot     *)
(* writes and Broadcast leaves nobody out.                                 *)
(***************************************************************************)
EXTENDS Conversations, Naturals, Sequences, FiniteSetTheorems, TLAPS

\* No panel has the name that stands for none or for a custom plan.
PanelsAreNamed == None \notin Panels /\ Custom \notin Panels

-----------------------------------------------------------------------------
(* Sessions and buttons have their types.                                  *)

LEMMA StepsAre ==
    /\ "home" \in Steps /\ "selectData" \in Steps /\ "custom_buy_enter_gb" \in Steps
    /\ "custom_buy_enter_days" \in Steps /\ "enter_username" \in Steps /\ "crconf" \in Steps
    /\ "WhatingForCodeTakhfif" \in Steps /\ "Takhfif_confirm_purchase" \in Steps
    /\ "selectTamdid" \in Steps /\ "crconf_tamdid" \in Steps
    /\ "WhatingForCodeTakhfifTamdid" \in Steps /\ "Takhfif_confirm_purchase_tamdid" \in Steps
BY DEF Steps

LEMMA OptionalHas ==
    /\ None \in Optional(Panels) /\ None \in Optional(Panels \cup {Custom})
    /\ Custom \in Optional(Panels \cup {Custom})
    /\ \A p \in Panels : p \in Optional(Panels) /\ p \in Optional(Panels \cup {Custom})
    /\ \A p \in Optional(Panels) : p # None => p \in Panels
    /\ \A p \in Optional(Panels) : p \in Optional(Panels \cup {Custom})
BY DEF Optional

LEMMA ItemType ==
    ASSUME NEW plan \in Optional(Panels \cup {Custom}), NEW priced \in Optional(Panels)
    PROVE  /\ Item(plan, priced) \in Items
           /\ Item(plan, priced).plan = plan /\ Item(plan, priced).priced = priced
BY DEF Item, Items

LEMMA NoItemType == NoItem \in Items
BY ItemType, OptionalHas DEF NoItem

LEMMA ButtonsType ==
    ASSUME NEW kind \in Kinds, NEW of \in Optional(Panels), NEW item \in Items,
           kind = "service" => of \in Panels
    PROVE  /\ Buttons(kind, of, item) \in Contents
           /\ Buttons(kind, of, item).kind = kind /\ Buttons(kind, of, item).of = of
           /\ Buttons(kind, of, item).item = item
BY DEF Buttons, Contents

LEMMA PlainType ==
    ASSUME NEW kind \in Kinds, kind # "service"
    PROVE  Plain(kind) \in Contents /\ Plain(kind).kind = kind
BY ButtonsType, NoItemType, OptionalHas DEF Plain

LEMMA NamedType ==
    ASSUME NEW kind \in Kinds, NEW of \in Optional(Panels), kind = "service" => of \in Panels
    PROVE  Named(kind, of) \in Contents /\ Named(kind, of).kind = kind /\ Named(kind, of).of = of
BY ButtonsType, NoItemType, OptionalHas DEF Named

LEMMA EmptyType == Empty \in Sessions /\ Empty.step = "home"
BY StepsAre, OptionalHas, NoItemType DEF Empty, Sessions

\* The parts of a session of the type, and of a message.
LEMMA SessionHas ==
    ASSUME NEW s \in Sessions
    PROVE  /\ s.step \in Steps /\ s.panel \in Optional(Panels) /\ s.config \in Optional(Panels)
           /\ s.plan \in Optional(Panels \cup {Custom}) /\ s.priced \in Optional(Panels)
           /\ s.offer \in Items /\ Item(s.plan, s.priced) \in Items /\ Item(s.plan, None) \in Items
BY ItemType, OptionalHas DEF Sessions

LEMMA MessageHas ==
    ASSUME ConversationsTypeOK, NEW m \in Messages
    PROVE  /\ chat[m] \in Contents /\ chat[m].kind \in Kinds /\ chat[m].of \in Optional(Panels)
           /\ chat[m].item \in Items /\ chat[m].item.plan \in Optional(Panels \cup {Custom})
           /\ chat[m].kind = "service" => chat[m].of \in Panels
BY DEF ConversationsTypeOK, Contents, Items

\* A step that shows a message and orders nothing.
LEMMA ShowingStep ==
    ASSUME ConversationsInv, NEW m \in Messages, NEW b \in Contents, Shows(m, b),
           session' \in Sessions, ordered' = {}, OfferFits',
           ~disturbed' => Fits(session', b)
    PROVE  ConversationsInv'
<1>1. ConversationsTypeOK' BY DEF Shows, ConversationsInv, ConversationsTypeOK
<1>2. chat'[latest'] = b BY DEF Shows, ConversationsInv, ConversationsTypeOK
<1>3. LatestFits' BY <1>2 DEF LatestFits
<1> QED BY <1>1, <1>3 DEF ConversationsInv, PricedAsMade, AsShown


-----------------------------------------------------------------------------
(* Steps that several handlers take.                                       *)

LEMMA ClearedStep ==
    ASSUME ConversationsInv, NEW m \in Messages, Shows(m, Plain("home")), Clears, ordered' = {}
    PROVE  ConversationsInv'
<1>1. Plain("home") \in Contents /\ Plain("home").kind = "home" BY PlainType DEF Kinds
<1>2. session' = Empty BY DEF Clears
<1>3. OfferFits' /\ Fits(session', Plain("home"))
      BY <1>1, <1>2, EmptyType DEF OfferFits, Fits, StepFits, BuyFits, RenewFits,
                                   BuyingSteps, RenewingSteps
<1> QED BY <1>1, <1>2, <1>3, EmptyType, ShowingStep

LEMMA HomeStep ==
    ASSUME ConversationsInv, NEW m \in Messages, NEW kind \in {"home", "panels", "services"},
           Shows(m, Plain(kind)), session' = [session EXCEPT !.step = "home"], ordered' = {}
    PROVE  ConversationsInv'
<1>1. Plain(kind) \in Contents /\ Plain(kind).kind = kind BY PlainType DEF Kinds
<1>2. session \in Sessions BY DEF ConversationsInv, ConversationsTypeOK
<1>3. session' \in Sessions /\ session'.step = "home" BY <1>2, StepsAre DEF Sessions
<1>4. OfferFits' /\ Fits(session', Plain(kind))
      BY <1>1, <1>3 DEF OfferFits, Fits, StepFits, BuyFits, RenewFits, BuyingSteps, RenewingSteps
<1> QED BY <1>1, <1>3, <1>4, ShowingStep

\* The session stays and the message is not the latest, or says nothing.
LEMMA ReplacedStep ==
    ASSUME ConversationsInv, NEW m \in Messages, NEW kind \in {"home", "expired"},
           Shows(m, Plain(kind)), UNCHANGED session, ordered' = {},
           ~disturbed' => ~disturbed /\ kind = "home"
    PROVE  ConversationsInv'
<1>1. Plain(kind) \in Contents /\ Plain(kind).kind = kind BY PlainType DEF Kinds
<1>2. session' \in Sessions BY DEF ConversationsInv, ConversationsTypeOK
<1>3. OfferFits' BY DEF OfferFits, ConversationsInv, Chosen
<1>4. ASSUME ~disturbed' PROVE Fits(session', Plain(kind))
  <2>1. StepFits(session) BY <1>4 DEF ConversationsInv, LatestFits, Fits
  <2> QED BY <1>1, <1>4, <2>1 DEF Fits, StepFits, BuyFits, RenewFits
<1> QED BY <1>1, <1>2, <1>3, <1>4, ShowingStep

\* Who presses the latest message only, presses one that fits.
LEMMA PressedFits ==
    ASSUME ConversationsInv, NEW m \in Messages, Notes(m), ~disturbed'
    PROVE  ~disturbed /\ m = latest /\ Fits(session, chat[m])
BY DEF Notes, ConversationsInv, LatestFits

LEMMA ExpiresStep ==
    ASSUME ConversationsInv, NEW m \in Messages, Expires(m), ordered' = {},
           ~Fits(session, chat[m])
    PROVE  ConversationsInv'
<1>1. Shows(m, Plain("expired")) /\ UNCHANGED session /\ disturbed'
      BY PressedFits DEF Expires
<1> QED BY <1>1, ReplacedStep

LEMMA RefusesStep ==
    ASSUME ConversationsInv, NEW m \in Messages, Refuses(m)
    PROVE  ConversationsInv'
<1>1. Shows(m, Plain("home")) /\ UNCHANGED session /\ ordered' = {} BY DEF Refuses
<1>2. ~disturbed' => ~disturbed BY DEF Refuses, Notes
<1> QED BY <1>1, <1>2, ReplacedStep

\* What is ordered has its price, and is what a message that fits shows.
LEMMA OrderingStep ==
    ASSUME ConversationsInv, NEW m \in Messages, NEW b \in Contents, Shows(m, b), Clears,
           b.kind \in {"home", "renewed"}, NEW what, NEW cut, NEW told,
           Orders(m, what, what.item, cut, told),
           ~disturbed /\ m = latest =>
               /\ chat[m].item = what.item /\ session.panel = chat[m].of
               /\ what.kind = "renewal" => what.service = chat[m].of
               /\ session.panel = IF what.item.plan = Custom THEN what.item.priced
                                                           ELSE what.item.plan
    PROVE  ConversationsInv'
<1>1. ConversationsTypeOK'
      BY EmptyType DEF Clears, Shows, ConversationsInv, ConversationsTypeOK
<1>2. session' = Empty /\ OfferFits' BY EmptyType DEF Clears, OfferFits
<1>3. chat'[latest'] = b BY DEF Shows, ConversationsInv, ConversationsTypeOK
<1>4. LatestFits'
      BY <1>2, <1>3, EmptyType DEF LatestFits, Fits, StepFits, BuyFits, RenewFits,
                                   BuyingSteps, RenewingSteps
<1>5. PICK pay \in {FromWallet(what.item, cut), Aside(what.item, cut)} :
          ordered' = {[what |-> what, panel |-> session.panel, pay |-> pay, told |-> told,
                       shown |-> chat[m], kept |-> ~disturbed /\ m = latest]}
      BY DEF Orders
<1>6. pay.price = what.item /\ (~pay.direct => pay.claims = pay.cut)
      BY <1>5 DEF FromWallet, Aside
<1>7. PricedAsMade' BY <1>5, <1>6 DEF PricedAsMade
<1>8. ASSUME NEW o \in ordered', o.kept
      PROVE  /\ o.shown.item = o.what.item /\ o.panel = o.shown.of
             /\ o.what.kind = "renewal" => o.what.service = o.shown.of
             /\ o.panel = IF o.what.item.plan = Custom THEN o.what.item.priced
                                                       ELSE o.what.item.plan
  <2>1. o = [what |-> what, panel |-> session.panel, pay |-> pay, told |-> told,
             shown |-> chat[m], kept |-> ~disturbed /\ m = latest]
        BY <1>5, <1>8
  <2>2. o.what = what /\ o.panel = session.panel /\ o.shown = chat[m] BY <2>1
  <2>3. o.kept = (~disturbed /\ m = latest) BY <2>1, Zenon
  <2>4. ~disturbed /\ m = latest BY <1>8, <2>3
  <2> QED BY <2>2, <2>4
<1>9. AsShown' BY <1>8 DEF AsShown
<1> QED BY <1>1, <1>2, <1>4, <1>7, <1>9 DEF ConversationsInv

\* A new step of the session, and buttons that fit it.
LEMMA MovingStep ==
    ASSUME ConversationsInv, NEW m \in Messages, NEW b \in Contents, Shows(m, b),
           session' \in Sessions, ordered' = {},
           session'.step \notin {"Takhfif_confirm_purchase", "Takhfif_confirm_purchase_tamdid"},
           ~disturbed' => Fits(session', b)
    PROVE  ConversationsInv'
BY ShowingStep DEF OfferFits

-----------------------------------------------------------------------------
(* Menus.                                                                  *)

LEMMA StartStep == ASSUME ConversationsInv, Start PROVE ConversationsInv'
BY ClearedStep DEF Start, Answers, Silent

LEMMA RestartStep ==
    ASSUME ConversationsInv, NEW m \in Messages, Restart(m) PROVE ConversationsInv'
BY ClearedStep DEF Restart, Answers, Silent

LEMMA BuyMenuStep == ASSUME ConversationsInv, BuyMenu PROVE ConversationsInv'
BY HomeStep DEF BuyMenu, Answers, Silent

LEMMA CancelStep ==
    ASSUME ConversationsInv, NEW m \in Messages, Cancel(m) PROVE ConversationsInv'
BY HomeStep DEF Cancel, Answers, Silent

LEMMA BackToPanelsStep ==
    ASSUME ConversationsInv, NEW m \in Messages, BackToPanels(m) PROVE ConversationsInv'
BY HomeStep DEF BackToPanels, Silent

LEMMA ServicesMenuStep == ASSUME ConversationsInv, ServicesMenu PROVE ConversationsInv'
BY HomeStep DEF ServicesMenu, Answers, Silent

LEMMA ServiceInfoStep ==
    ASSUME ConversationsInv, NEW m \in Messages, ServiceInfo(m) PROVE ConversationsInv'
<1>1. PICK s \in Panels : Shows(m, Named("service", s)) BY DEF ServiceInfo
<1>2. Named("service", s) \in Contents /\ Named("service", s).kind = "service"
      BY NamedType, OptionalHas DEF Kinds
<1>3. session \in Sessions BY DEF ConversationsInv, ConversationsTypeOK
<1>4. session' \in Sessions /\ session'.step = "home" /\ ordered' = {}
      BY <1>3, StepsAre DEF Sessions, ServiceInfo, Silent
<1>5. Fits(session', Named("service", s))
      BY <1>2, <1>4 DEF Fits, StepFits, BuyFits, RenewFits, BuyingSteps, RenewingSteps
<1> QED BY <1>1, <1>2, <1>4, <1>5, MovingStep

LEMMA LapseStep == ASSUME ConversationsInv, Lapse PROVE ConversationsInv'
BY EmptyType DEF Lapse, Silent, ConversationsInv, ConversationsTypeOK, OfferFits, LatestFits,
                 PricedAsMade, AsShown

LEMMA StickyChangesStep == ASSUME ConversationsInv, StickyChanges PROVE ConversationsInv'
BY DEF StickyChanges, ConversationsInv, ConversationsTypeOK, OfferFits, Chosen, LatestFits,
       PricedAsMade, AsShown

-----------------------------------------------------------------------------
(* Buying.                                                                 *)

LEMMA BuyVPNStep ==
    ASSUME ConversationsInv, NEW m \in Messages, NEW p \in Panels, BuyVPN(m, p)
    PROVE  ConversationsInv'
<1>1. session \in Sessions BY DEF ConversationsInv, ConversationsTypeOK
<1>2. p \in Optional(Panels) BY OptionalHas
<1>3. CASE p \in DurationFirst
  <2>1. Named("durations", p) \in Contents /\ Named("durations", p).kind = "durations"
            /\ Named("durations", p).of = p
        BY <1>2, NamedType DEF Kinds
  <2>2. /\ session' \in Sessions /\ session'.step = session.step /\ session'.panel = p
        /\ session'.plan = session.plan /\ session'.priced = session.priced
        /\ session'.offer = session.offer
        BY <1>1, <1>2, <1>3 DEF BuyVPN, Sessions
  <2>3. OfferFits' BY <2>2 DEF OfferFits, Chosen, ConversationsInv
  <2>4. ASSUME ~disturbed' PROVE Fits(session', Named("durations", p))
    <3>1. Fits(session, chat[m]) /\ chat[m].kind \in {"panels", "prompt"}
          BY <2>4, PressedFits DEF BuyVPN, Pressed
    <3>2. session.step \in TypingSteps \cup {"home"} BY <3>1 DEF Fits, BuyFits
    <3> QED BY <2>1, <2>2, <3>2
            DEF Fits, StepFits, BuyFits, RenewFits, BuyingSteps, RenewingSteps, TypingSteps
  <2> QED BY <1>3, <2>1, <2>2, <2>3, <2>4, ShowingStep DEF BuyVPN, Silent
<1>4. CASE p \notin DurationFirst
  <2>1. Named("plans", p) \in Contents /\ Named("plans", p).kind = "plans"
            /\ Named("plans", p).of = p
        BY <1>2, NamedType DEF Kinds
  <2>2. session' \in Sessions /\ session'.step = "selectData" /\ session'.panel = p
        BY <1>1, <1>2, <1>4, StepsAre DEF BuyVPN, Sessions
  <2>3. Fits(session', Named("plans", p))
        BY <2>1, <2>2 DEF Fits, StepFits, BuyFits, RenewFits, BuyingSteps, RenewingSteps
  <2> QED BY <1>4, <2>1, <2>2, <2>3, MovingStep DEF BuyVPN, Silent
<1> QED BY <1>3, <1>4

LEMMA SelectDurationStep ==
    ASSUME ConversationsInv, NEW m \in Messages, SelectDuration(m) PROVE ConversationsInv'
<1> DEFINE b == Named("plans", chat[m].of)
<1>1. b \in Contents /\ b.kind = "plans" /\ b.of = chat[m].of
      BY NamedType, MessageHas DEF Kinds, ConversationsInv
<1>2. session \in Sessions BY DEF ConversationsInv, ConversationsTypeOK
<1>3. session' \in Sessions /\ session'.step = "selectData" /\ session'.panel = session.panel
      BY <1>2, StepsAre DEF SelectDuration, Sessions
<1>4. ASSUME ~disturbed' PROVE Fits(session', b)
  <2>1. Fits(session, chat[m]) /\ chat[m].kind = "durations"
        BY <1>4, PressedFits DEF SelectDuration, Pressed
  <2> QED BY <1>1, <1>3, <2>1
          DEF Fits, StepFits, BuyFits, RenewFits, BuyingSteps, RenewingSteps, TypingSteps
<1> QED BY <1>1, <1>3, <1>4, MovingStep DEF SelectDuration, Silent

LEMMA SelectPlanStep ==
    ASSUME PanelsAreNamed, ConversationsInv, NEW m \in Messages, SelectPlan(m)
    PROVE  ConversationsInv'
<1>1. chat[m].kind = "plans" /\ ordered' = {} BY DEF SelectPlan, Pressed, Silent
<1>2. CASE session.step # "selectData" /\ Expires(m)
  <2>1. ~Fits(session, chat[m]) BY <1>1, <1>2 DEF Fits, BuyFits
  <2> QED BY <1>1, <1>2, <2>1, ExpiresStep
<1>3. CASE session.step = "selectData"
  <2>1. Plain("username") \in Contents /\ Plain("username").kind = "username"
        BY PlainType DEF Kinds
  <2>2. session \in Sessions BY DEF ConversationsInv, ConversationsTypeOK
  <2>3. /\ session' \in Sessions /\ session'.step = "enter_username"
        /\ session'.panel = session.panel /\ session'.plan = chat[m].of
        BY <1>3, <2>2, StepsAre, OptionalHas, MessageHas DEF SelectPlan, Sessions, ConversationsInv
  <2>4. ASSUME ~disturbed' PROVE Fits(session', Plain("username"))
    <3>1. Fits(session, chat[m]) BY <1>3, <2>4, PressedFits DEF SelectPlan
    <3>2. session.panel = chat[m].of BY <1>1, <3>1 DEF Fits, BuyFits
    <3>3. chat[m].of # Custom BY MessageHas DEF PanelsAreNamed, Optional, None, Custom, ConversationsInv
    <3> QED BY <2>1, <2>3, <3>2, <3>3
            DEF Fits, StepFits, BuyFits, RenewFits, RenewingSteps, Sells
  <2> QED BY <1>1, <1>3, <2>1, <2>3, <2>4, MovingStep DEF SelectPlan
<1> QED BY <1>2, <1>3 DEF SelectPlan

LEMMA CustomBuyStep ==
    ASSUME ConversationsInv, NEW m \in Messages, CustomBuy(m) PROVE ConversationsInv'
<1> DEFINE b == Named("prompt", chat[m].of)
<1>1. b \in Contents /\ b.kind = "prompt"
      BY NamedType, MessageHas DEF Kinds, ConversationsInv
<1>2. session \in Sessions BY DEF ConversationsInv, ConversationsTypeOK
<1>3. session' \in Sessions /\ session'.step = "custom_buy_enter_gb"
      BY <1>2, StepsAre, OptionalHas, MessageHas DEF CustomBuy, Sessions, ConversationsInv
<1>4. Fits(session', b)
      BY <1>1, <1>3 DEF Fits, StepFits, BuyFits, RenewFits, BuyingSteps, RenewingSteps, TypingSteps
<1> QED BY <1>1, <1>3, <1>4, MovingStep DEF CustomBuy, Silent

LEMMA TypeCustomStep ==
    ASSUME ConversationsInv, TypeCustom PROVE ConversationsInv'
<1>1. ordered' = {} BY DEF TypeCustom, Silent
<1>2. session \in Sessions BY DEF ConversationsInv, ConversationsTypeOK
<1>3. session.panel \in Optional(Panels) BY <1>2, SessionHas
<1>4. CASE Clears /\ Answers(Plain("home")) BY <1>1, <1>4, ClearedStep DEF Answers
<1>5. CASE session' = [session EXCEPT !.step = "enter_username", !.plan = Custom,
                                      !.priced = session.panel]
           /\ Answers(Plain("username"))
  <2>1. PICK m \in Messages : Shows(m, Plain("username")) BY <1>5 DEF Answers
  <2>2. Plain("username") \in Contents /\ Plain("username").kind = "username"
        BY PlainType DEF Kinds
  <2>3. /\ session' \in Sessions /\ session'.step = "enter_username"
        /\ session'.plan = Custom /\ session'.priced = session'.panel
        BY <1>2, <1>3, <1>5, StepsAre, OptionalHas DEF Sessions
  <2>4. Fits(session', Plain("username"))
        BY <2>2, <2>3 DEF Fits, StepFits, BuyFits, RenewFits, RenewingSteps, Sells
  <2> QED BY <1>1, <2>1, <2>2, <2>3, <2>4, MovingStep
<1>6. CASE /\ session.step \in TypingSteps /\ session.panel \in WithCustom
           /\ Answers(Named("prompt", session.panel))
           /\ \/ UNCHANGED session
              \/ session' = [session EXCEPT !.step = "custom_buy_enter_days", !.plan = Custom]
  <2>1. PICK m \in Messages : Shows(m, Named("prompt", session.panel)) BY <1>6 DEF Answers
  <2>2. Named("prompt", session.panel) \in Contents
            /\ Named("prompt", session.panel).kind = "prompt"
        BY <1>3, NamedType DEF Kinds
  <2>3. session' \in Sessions /\ session'.step \in TypingSteps
        BY <1>2, <1>6, StepsAre, OptionalHas DEF Sessions, TypingSteps
  <2>4. Fits(session', Named("prompt", session.panel))
        BY <2>2, <2>3
        DEF Fits, StepFits, BuyFits, RenewFits, BuyingSteps, RenewingSteps, TypingSteps
  <2>5. session'.step \notin {"Takhfif_confirm_purchase", "Takhfif_confirm_purchase_tamdid"}
        BY <2>3 DEF TypingSteps
  <2> QED BY <1>1, <2>1, <2>2, <2>3, <2>4, <2>5, MovingStep
<1> QED BY <1>4, <1>5, <1>6 DEF TypeCustom, TypingSteps

\* The invoice fits the session it is written for.
LEMMA InvoicesStep ==
    ASSUME ConversationsInv, NEW m \in Messages, Invoices, Shows(m, Invoice), ordered' = {},
           session.step = "enter_username", ~disturbed' => ~disturbed
    PROVE  ConversationsInv'
<1>1. session \in Sessions BY DEF ConversationsInv, ConversationsTypeOK
<1>2. /\ Invoice \in Contents /\ Invoice.of = session.panel /\ Invoice.item = Chosen
      /\ Invoice.kind = IF sticky THEN "cutInvoice" ELSE "invoice"
      BY <1>1, SessionHas, ButtonsType DEF Kinds, Invoice, Chosen
<1>3. /\ session' \in Sessions /\ session'.panel = session.panel
      /\ session'.plan = session.plan /\ session'.priced = session.priced
      /\ session'.step = IF sticky THEN "Takhfif_confirm_purchase" ELSE "crconf"
      /\ sticky => session'.offer = Chosen
      BY <1>1, SessionHas, StepsAre DEF Invoices, Sessions, Chosen
<1>4. OfferFits' BY <1>3 DEF OfferFits, Chosen
<1>5. ASSUME ~disturbed' PROVE Fits(session', Invoice)
  <2>1. Sells(session)
        BY <1>5 DEF ConversationsInv, LatestFits, Fits, StepFits, BuyingSteps
  <2> QED BY <1>2, <1>3, <2>1 DEF Fits, StepFits, BuyFits, RenewFits, RenewingSteps, Sells, Chosen
<1> QED BY <1>2, <1>3, <1>4, <1>5, ShowingStep

\* The user is asked for a name while the session waits for one.
LEMMA NamingStep ==
    ASSUME ConversationsInv, NEW m \in Messages, NEW kind \in {"username", "conflict"},
           Shows(m, Plain(kind)), ordered' = {}, ~disturbed' => ~disturbed,
           session.step \in BuyingSteps,
           session' = [session EXCEPT !.step = "enter_username"]
    PROVE  ConversationsInv'
<1>1. Plain(kind) \in Contents /\ Plain(kind).kind = kind BY PlainType DEF Kinds
<1>2. session \in Sessions BY DEF ConversationsInv, ConversationsTypeOK
<1>3. /\ session' \in Sessions /\ session'.step = "enter_username"
      /\ session'.panel = session.panel /\ session'.plan = session.plan
      /\ session'.priced = session.priced
      BY <1>2, StepsAre DEF Sessions
<1>4. ASSUME ~disturbed' PROVE Fits(session', Plain(kind))
  <2>1. Sells(session)
        BY <1>4 DEF ConversationsInv, LatestFits, Fits, StepFits
  <2> QED BY <1>1, <1>3, <2>1 DEF Fits, StepFits, BuyFits, RenewFits, RenewingSteps, Sells
<1> QED BY <1>1, <1>3, <1>4, MovingStep

LEMMA SameStep ==
    ASSUME ConversationsInv, UNCHANGED session
    PROVE  session' = [session EXCEPT !.step = session.step]
BY DEF ConversationsInv, ConversationsTypeOK, Sessions

LEMMA RetryUsernameStep ==
    ASSUME ConversationsInv, NEW m \in Messages, RetryUsername(m) PROVE ConversationsInv'
<1>1. chat[m].kind = "conflict" /\ ordered' = {} BY DEF RetryUsername, Pressed, Silent
<1>2. CASE session.step # "enter_username"
  <2>1. ~Fits(session, chat[m]) BY <1>1, <1>2 DEF Fits, BuyFits
  <2> QED BY <1>1, <1>2, <2>1, ExpiresStep DEF RetryUsername
<1>3. CASE session.step = "enter_username"
  <2>1. Shows(m, Plain("username")) /\ UNCHANGED session /\ Notes(m)
        BY <1>3 DEF RetryUsername, Expires
  <2>2. session' = [session EXCEPT !.step = "enter_username"] BY <1>3, <2>1, SameStep
  <2> QED BY <1>1, <1>3, <2>1, <2>2, NamingStep DEF Notes, BuyingSteps
<1> QED BY <1>2, <1>3

LEMMA GenerateUsernameStep ==
    ASSUME ConversationsInv, NEW m \in Messages, GenerateUsername(m) PROVE ConversationsInv'
<1>1. chat[m].kind = "username" /\ ordered' = {} BY DEF GenerateUsername, Pressed, Silent
<1>2. CASE session.step # "enter_username"
  <2>1. ~Fits(session, chat[m]) BY <1>1, <1>2 DEF Fits, BuyFits
  <2> QED BY <1>1, <1>2, <2>1, ExpiresStep DEF GenerateUsername
<1>3. CASE session.step = "enter_username"
  <2> QED BY <1>1, <1>3, InvoicesStep DEF GenerateUsername, Notes
<1> QED BY <1>2, <1>3

LEMMA TypeUsernameStep ==
    ASSUME ConversationsInv, TypeUsername PROVE ConversationsInv'
<1>1. session.step = "enter_username" /\ ordered' = {} /\ disturbed' = disturbed
      BY DEF TypeUsername, Silent, Quiet
<1>2. CASE Invoices /\ Answers(Invoice) BY <1>1, <1>2, InvoicesStep DEF Answers
<1>3. CASE Answers(Plain("username")) /\ UNCHANGED session
  <2>1. session' = [session EXCEPT !.step = "enter_username"] BY <1>1, <1>3, SameStep
  <2> QED BY <1>1, <1>3, <2>1, NamingStep DEF Answers, BuyingSteps
<1> QED BY <1>2, <1>3 DEF TypeUsername

LEMMA TypeCodeStep == ASSUME ConversationsInv, TypeCode PROVE ConversationsInv'
<1>1. session.step = "WhatingForCodeTakhfif" /\ ordered' = {} BY DEF TypeCode, Silent
<1>2. CASE Clears /\ Answers(Plain("home")) BY <1>1, <1>2, ClearedStep DEF Answers
<1>3. CASE /\ Quiet
           /\ session' = [session EXCEPT !.step = "Takhfif_confirm_purchase", !.offer = Chosen]
           /\ Answers(Buttons("cutInvoice", session.panel, Chosen))
  <2> DEFINE b == Buttons("cutInvoice", session.panel, Chosen)
  <2>1. PICK m \in Messages : Shows(m, b) BY <1>3 DEF Answers
  <2>2. session \in Sessions BY DEF ConversationsInv, ConversationsTypeOK
  <2>3. b \in Contents /\ b.of = session.panel /\ b.item = Chosen /\ b.kind = "cutInvoice"
        BY <2>2, SessionHas, ButtonsType DEF Kinds, Chosen
  <2>4. /\ session' \in Sessions /\ session'.panel = session.panel
        /\ session'.plan = session.plan /\ session'.priced = session.priced
        /\ session'.step = "Takhfif_confirm_purchase" /\ session'.offer = Chosen
        BY <1>3, <2>2, SessionHas, StepsAre DEF Sessions, Chosen
  <2>5. OfferFits' BY <2>4 DEF OfferFits, Chosen
  <2>6. ASSUME ~disturbed' PROVE Fits(session', b)
    <3>1. Sells(session)
          BY <1>1, <1>3, <2>6 DEF Quiet, ConversationsInv, LatestFits, Fits, StepFits, BuyingSteps
    <3> QED BY <2>3, <2>4, <3>1 DEF Fits, StepFits, BuyFits, RenewFits, RenewingSteps, Sells, Chosen
  <2> QED BY <1>1, <2>1, <2>3, <2>4, <2>5, <2>6, ShowingStep
<1> QED BY <1>2, <1>3 DEF TypeCode

-----------------------------------------------------------------------------
(* Confirming.                                                             *)

LEMMA CompletesStep ==
    ASSUME ConversationsInv, NEW m \in Messages, NEW cut, NEW told,
           session.step \in BuyingSteps,
           Fits(session, chat[m]) => chat[m].kind \in {"invoice", "cutInvoice"},
           Completes(m, Chosen, cut, told)
    PROVE  ConversationsInv'
<1>1. CASE session' = [session EXCEPT !.step = "enter_username"]
           /\ Shows(m, Plain("conflict")) /\ Notes(m) /\ ordered' = {}
  <2>1. ~disturbed' => ~disturbed BY <1>1 DEF Notes
  <2> QED BY <1>1, <2>1, NamingStep
<1>2. CASE Clears /\ Shows(m, Plain("home")) /\ Orders(m, Purchase, Chosen, cut, told)
  <2>1. Plain("home") \in Contents /\ Plain("home").kind = "home" BY PlainType DEF Kinds
  <2>2. session \in Sessions BY DEF ConversationsInv, ConversationsTypeOK
  <2>3. /\ Purchase.item = Chosen /\ Purchase.kind = "purchase"
        /\ Chosen.plan = session.plan /\ Chosen.priced = session.priced
        BY <2>2, SessionHas, ItemType DEF Purchase, Chosen
  <2>4. ASSUME ~disturbed /\ m = latest
        PROVE  /\ chat[m].item = Purchase.item /\ session.panel = chat[m].of
               /\ Purchase.kind = "renewal" => Purchase.service = chat[m].of
               /\ session.panel = IF Purchase.item.plan = Custom THEN Purchase.item.priced
                                                                 ELSE Purchase.item.plan
    <3>1. Fits(session, chat[m]) BY <2>4 DEF ConversationsInv, LatestFits
    <3>2. Sells(session) BY <3>1 DEF Fits, StepFits, BuyingSteps
    <3>3. session.panel = chat[m].of /\ chat[m].item = Chosen
          BY <2>4, <3>1 DEF Fits, BuyFits, Chosen
    <3> QED BY <2>3, <3>2, <3>3 DEF Sells
  <2> QED BY <1>2, <2>1, <2>3, <2>4, OrderingStep
<1> QED BY <1>1, <1>2 DEF Completes

LEMMA ConfirmBuyStep ==
    ASSUME ConversationsInv, NEW m \in Messages, NEW told, ConfirmBuy(m, told),
           Fits(session, chat[m]) => session.step = "crconf" /\ chat[m].kind = "invoice"
    PROVE  ConversationsInv'
<1>1. CASE session.step # "crconf" BY <1>1, ExpiresStep DEF ConfirmBuy
<1>2. CASE session.step = "crconf" /\ Completes(m, Chosen, sticky, told)
  <2> QED BY <1>2, CompletesStep DEF BuyingSteps
<1>3. CASE Refuses(m) BY <1>3, RefusesStep
<1> QED BY <1>1, <1>2, <1>3 DEF ConfirmBuy

LEMMA ApplyCodeStep ==
    ASSUME ConversationsInv, NEW m \in Messages, ApplyCode(m),
           Fits(session, chat[m]) => session.step = "crconf" /\ chat[m].kind = "invoice"
    PROVE  ConversationsInv'
<1>1. CASE session.step # "crconf" BY <1>1, ExpiresStep DEF ApplyCode
<1>2. CASE session.step = "crconf"
  <2>1. Plain("ask") \in Contents /\ Plain("ask").kind = "ask" BY PlainType DEF Kinds
  <2>2. session \in Sessions BY DEF ConversationsInv, ConversationsTypeOK
  <2>3. /\ session' \in Sessions /\ session'.step = "WhatingForCodeTakhfif"
        /\ session'.panel = session.panel /\ session'.plan = session.plan
        /\ session'.priced = session.priced
        BY <1>2, <2>2, StepsAre DEF ApplyCode, Sessions
  <2>4. ASSUME ~disturbed' PROVE Fits(session', Plain("ask"))
    <3>1. Fits(session, chat[m]) BY <1>2, <2>4, PressedFits DEF ApplyCode
    <3>2. Sells(session) BY <1>2, <3>1 DEF Fits, StepFits, BuyingSteps
    <3> QED BY <2>1, <2>3, <3>2 DEF Fits, StepFits, BuyFits, RenewFits, RenewingSteps, Sells
  <2> QED BY <1>2, <2>1, <2>3, <2>4, MovingStep DEF ApplyCode
<1> QED BY <1>1, <1>2

LEMMA InvoicePressedStep ==
    ASSUME ConversationsInv, NEW m \in Messages, InvoicePressed(m) PROVE ConversationsInv'
<1>1. Fits(session, chat[m]) => session.step = "crconf" /\ chat[m].kind = "invoice"
      BY DEF InvoicePressed, Pressed, Fits, BuyFits
<1> QED BY <1>1, ConfirmBuyStep, ApplyCodeStep DEF InvoicePressed

LEMMA ConfirmDiscountedBuyStep ==
    ASSUME ConversationsInv, NEW m \in Messages, ConfirmDiscountedBuy(m)
    PROVE  ConversationsInv'
<1>1. chat[m].kind = "cutInvoice" BY DEF ConfirmDiscountedBuy, Pressed
<1>2. CASE session.step # "Takhfif_confirm_purchase" /\ Expires(m) /\ ordered' = {}
  <2>1. ~Fits(session, chat[m]) BY <1>1, <1>2 DEF Fits, BuyFits
  <2> QED BY <1>2, <2>1, ExpiresStep
<1>3. CASE session.step = "Takhfif_confirm_purchase" /\ Completes(m, session.offer, TRUE, FALSE)
  <2>1. session.offer = Chosen BY <1>3 DEF ConversationsInv, OfferFits
  <2>2. Completes(m, Chosen, TRUE, FALSE) BY <1>3, <2>1
  <2>3. session.step \in BuyingSteps BY <1>3 DEF BuyingSteps
  <2>4. chat[m].kind \in {"invoice", "cutInvoice"} BY <1>1
  <2> QED BY <2>2, <2>3, <2>4, CompletesStep, Zenon
<1>4. CASE Refuses(m) BY <1>4, RefusesStep
<1> QED BY <1>2, <1>3, <1>4 DEF ConfirmDiscountedBuy


-----------------------------------------------------------------------------
(* Renewing.                                                               *)

LEMMA TamdidVPNStep ==
    ASSUME PanelsAreNamed, ConversationsInv, NEW m \in Messages, TamdidVPN(m)
    PROVE  ConversationsInv'
<1> DEFINE s == chat[m].of
<1>1. session \in Sessions BY DEF ConversationsInv, ConversationsTypeOK
<1>2. chat[m].kind = "service" BY DEF TamdidVPN, Pressed
<1>3. s \in Panels /\ s \in Optional(Panels) BY <1>2, MessageHas DEF ConversationsInv
<1>4. CASE s \in DurationFirst
  <2> DEFINE b == Named("renewDurations", s)
  <2>1. b \in Contents /\ b.kind = "renewDurations" /\ b.of = s BY <1>3, NamedType DEF Kinds
  <2>2. /\ session' \in Sessions /\ session'.step = session.step
        /\ session'.panel = s /\ session'.config = s
        /\ session'.plan = session.plan /\ session'.priced = session.priced
        /\ session'.offer = session.offer
        BY <1>1, <1>3, <1>4 DEF TamdidVPN, Sessions
  <2>3. OfferFits' BY <2>2 DEF OfferFits, Chosen, ConversationsInv
  <2>4. ASSUME ~disturbed' PROVE Fits(session', b)
    <3>1. Fits(session, chat[m]) BY <1>4, <2>4, PressedFits DEF TamdidVPN
    <3>2. session.step = "home" BY <1>2, <3>1 DEF Fits, BuyFits
    <3>3. s # None BY <1>3 DEF PanelsAreNamed
    <3> QED BY <2>1, <2>2, <3>2, <3>3
            DEF Fits, StepFits, BuyFits, RenewFits, BuyingSteps, RenewingSteps, RenewsItsOwn
  <2> QED BY <1>4, <2>1, <2>2, <2>3, <2>4, ShowingStep DEF TamdidVPN, Silent
<1>5. CASE s \notin DurationFirst
  <2> DEFINE b == Named("renewPlans", s)
  <2>1. b \in Contents /\ b.kind = "renewPlans" /\ b.of = s BY <1>3, NamedType DEF Kinds
  <2>2. /\ session' \in Sessions /\ session'.step = "selectTamdid"
        /\ session'.panel = s /\ session'.config = s
        BY <1>1, <1>3, <1>5, StepsAre DEF TamdidVPN, Sessions
  <2>3. s # None BY <1>3 DEF PanelsAreNamed
  <2>4. Fits(session', b)
        BY <2>1, <2>2, <2>3
        DEF Fits, StepFits, BuyFits, RenewFits, BuyingSteps, RenewingSteps, RenewsItsOwn
  <2> QED BY <1>5, <2>1, <2>2, <2>4, MovingStep DEF TamdidVPN, Silent
<1> QED BY <1>4, <1>5

LEMMA SelectDurationTamdidStep ==
    ASSUME ConversationsInv, NEW m \in Messages, SelectDurationTamdid(m)
    PROVE  ConversationsInv'
<1> DEFINE b == Named("renewPlans", chat[m].of)
<1>1. b \in Contents /\ b.kind = "renewPlans" /\ b.of = chat[m].of
      BY NamedType, MessageHas DEF Kinds, ConversationsInv
<1>2. session \in Sessions BY DEF ConversationsInv, ConversationsTypeOK
<1>3. /\ session' \in Sessions /\ session'.step = "selectTamdid"
      /\ session'.panel = session.panel /\ session'.config = session.config
      BY <1>2, StepsAre DEF SelectDurationTamdid, Sessions
<1>4. ASSUME ~disturbed' PROVE Fits(session', b)
  <2>1. Fits(session, chat[m]) /\ chat[m].kind = "renewDurations"
        BY <1>4, PressedFits DEF SelectDurationTamdid, Pressed
  <2>2. chat[m].of = session.config /\ RenewsItsOwn(session) BY <2>1 DEF Fits, RenewFits
  <2> QED BY <1>1, <1>3, <2>2
          DEF Fits, StepFits, BuyFits, RenewFits, BuyingSteps, RenewingSteps, RenewsItsOwn
<1> QED BY <1>1, <1>3, <1>4, MovingStep DEF SelectDurationTamdid, Silent

LEMMA SelectPlanTamdidStep ==
    ASSUME ConversationsInv, NEW m \in Messages, SelectPlanTamdid(m) PROVE ConversationsInv'
<1>1. chat[m].kind = "renewPlans" /\ ordered' = {}
      BY DEF SelectPlanTamdid, Pressed, Silent
<1>2. CASE session.step # "selectTamdid"
  <2>1. ~Fits(session, chat[m]) BY <1>1, <1>2 DEF Fits, RenewFits
  <2> QED BY <1>1, <1>2, <2>1, ExpiresStep DEF SelectPlanTamdid
<1>3. CASE session.step = "selectTamdid"
  <2> DEFINE item == Item(chat[m].of, None)
             b == Buttons("renewInvoice", session.config, item)
  <2>1. session \in Sessions BY DEF ConversationsInv, ConversationsTypeOK
  <2>2. chat[m].of \in Optional(Panels \cup {Custom})
        BY MessageHas, OptionalHas DEF ConversationsInv
  <2>3. item \in Items BY <2>2, ItemType, OptionalHas
  <2>4. b \in Contents /\ b.kind = "renewInvoice" /\ b.of = session.config /\ b.item = item
        BY <2>1, <2>3, SessionHas, ButtonsType DEF Kinds
  <2>5. /\ session' \in Sessions /\ session'.step = "crconf_tamdid"
        /\ session'.panel = session.panel /\ session'.config = session.config
        /\ session'.plan = chat[m].of
        BY <1>3, <2>1, <2>2, StepsAre DEF SelectPlanTamdid, Sessions
  <2>6. ASSUME ~disturbed' PROVE Fits(session', b)
    <3>1. Fits(session, chat[m]) BY <1>3, <2>6, PressedFits DEF SelectPlanTamdid
    <3>2. chat[m].of = session.config /\ RenewsItsOwn(session)
          BY <1>1, <3>1 DEF Fits, RenewFits
    <3> QED BY <2>4, <2>5, <3>2 DEF Fits, StepFits, BuyFits, RenewFits, BuyingSteps,
                                    RenewsItsOwn, RenewsWithItsPlan
  <2> QED BY <1>1, <1>3, <2>4, <2>5, <2>6, MovingStep DEF SelectPlanTamdid
<1> QED BY <1>2, <1>3

\* A renewal with the plan of the session and the button, for the service of both.
LEMMA RenewsStep ==
    ASSUME PanelsAreNamed, ConversationsInv, NEW m \in Messages,
           NEW plan \in Optional(Panels \cup {Custom}), NEW cut,
           Renews(m, plan, Item(plan, None), cut),
           session.step \in RenewingSteps,
           Fits(session, chat[m]) =>
               /\ chat[m].kind \in {"renewInvoice", "renewCut"}
               /\ plan = session.plan
    PROVE  ConversationsInv'
<1> DEFINE b == Named("renewed", session.config)
<1>1. session \in Sessions BY DEF ConversationsInv, ConversationsTypeOK
<1>2. b \in Contents /\ b.kind = "renewed" BY <1>1, SessionHas, NamedType DEF Kinds
<1>3. /\ Renewal(plan).item = Item(plan, None) /\ Renewal(plan).service = session.config
      /\ Item(plan, None).plan = plan
      BY ItemType, OptionalHas DEF Renewal
<1>4. ASSUME ~disturbed /\ m = latest
      PROVE  /\ chat[m].item = Renewal(plan).item /\ session.panel = chat[m].of
             /\ Renewal(plan).kind = "renewal" => Renewal(plan).service = chat[m].of
             /\ session.panel = IF Renewal(plan).item.plan = Custom
                                THEN Renewal(plan).item.priced ELSE Renewal(plan).item.plan
  <2>1. Fits(session, chat[m]) BY <1>4 DEF ConversationsInv, LatestFits
  <2>2. /\ plan = session.plan /\ chat[m].of = session.config
        /\ chat[m].item = Item(session.plan, None)
        BY <2>1 DEF Fits, RenewFits
  <2>3. session.config # None /\ session.panel = session.config /\ session.plan = session.config
        BY <2>1 DEF Fits, StepFits, RenewsWithItsPlan, RenewsItsOwn
  <2>4. session.config # Custom
        BY <1>1, <2>3, SessionHas DEF Optional, PanelsAreNamed
  <2> QED BY <1>3, <2>2, <2>3, <2>4
<1>5. Shows(m, b) /\ Clears /\ Orders(m, Renewal(plan), Renewal(plan).item, cut, FALSE)
      BY <1>3 DEF Renews
<1> QED BY <1>2, <1>4, <1>5, OrderingStep, Zenon

LEMMA ConfirmPurchaseTamdidStep ==
    ASSUME PanelsAreNamed, ConversationsInv, NEW m \in Messages, chat[m].kind = "renewInvoice",
           ConfirmPurchaseTamdid(m)
    PROVE  ConversationsInv'
<1>1. Fits(session, chat[m]) => /\ Guarded /\ session.step = "crconf_tamdid"
                                /\ chat[m].item = Item(session.plan, None)
      BY DEF Fits, RenewFits, RenewsItsOwn, Guarded
<1>2. CASE ~Guarded /\ ConfirmBuy(m, FALSE)
  <2>1. ~Fits(session, chat[m]) BY <1>1, <1>2
  <2> QED BY <1>2, <2>1, ConfirmBuyStep, Zenon
<1>3. CASE Guarded /\ session.step # "crconf_tamdid" /\ ConfirmBuy(m, TRUE)
  <2>1. ~Fits(session, chat[m]) BY <1>1, <1>3
  <2> QED BY <1>3, <2>1, ConfirmBuyStep, Zenon
<1>4. CASE /\ Guarded /\ session.step = "crconf_tamdid"
           /\ Renews(m, chat[m].item.plan, Item(chat[m].item.plan, None), FALSE)
  <2>1. chat[m].item.plan \in Optional(Panels \cup {Custom})
        BY MessageHas DEF ConversationsInv
  <2>2. session \in Sessions BY DEF ConversationsInv, ConversationsTypeOK
  <2>3. Item(session.plan, None).plan = session.plan
        BY <2>2, SessionHas, ItemType, OptionalHas
  <2>4. Fits(session, chat[m]) => /\ chat[m].kind \in {"renewInvoice", "renewCut"}
                                  /\ chat[m].item.plan = session.plan
        BY <1>1, <2>3
  <2>5. session.step \in RenewingSteps BY <1>4 DEF RenewingSteps
  <2> QED BY <1>4, <2>1, <2>4, <2>5, RenewsStep, Zenon
<1>5. CASE Refuses(m) BY <1>5, RefusesStep
<1>6. CASE DebitTooLate(m) BY <1>6, ReplacedStep DEF DebitTooLate
<1> QED BY <1>2, <1>3, <1>4, <1>5, <1>6 DEF ConfirmPurchaseTamdid

LEMMA ApplyCodeTamdidStep ==
    ASSUME ConversationsInv, NEW m \in Messages, chat[m].kind = "renewInvoice",
           ApplyCodeTamdid(m)
    PROVE  ConversationsInv'
<1>1. Fits(session, chat[m]) => Guarded /\ session.step = "crconf_tamdid"
      BY DEF Fits, RenewFits, RenewsItsOwn, Guarded
<1>2. CASE ~(Guarded /\ session.step = "crconf_tamdid") /\ ApplyCode(m)
  <2>1. ~Fits(session, chat[m]) BY <1>1, <1>2
  <2> QED BY <1>2, <2>1, ApplyCodeStep
<1>3. CASE Guarded /\ session.step = "crconf_tamdid"
  <2> DEFINE b == Named("renewAsk", session.config)
  <2>1. session \in Sessions BY DEF ConversationsInv, ConversationsTypeOK
  <2>2. b \in Contents /\ b.kind = "renewAsk" BY <2>1, SessionHas, NamedType DEF Kinds
  <2>3. /\ session' \in Sessions /\ session'.step = "WhatingForCodeTakhfifTamdid"
        /\ session'.panel = session.panel /\ session'.config = session.config
        /\ session'.plan = session.plan
        BY <1>3, <2>1, StepsAre DEF ApplyCodeTamdid, Sessions
  <2>4. ASSUME ~disturbed' PROVE Fits(session', b)
    <3>1. Fits(session, chat[m]) BY <1>3, <2>4, PressedFits DEF ApplyCodeTamdid
    <3>2. RenewsWithItsPlan(session)
          BY <1>3, <3>1 DEF Fits, StepFits, RenewingSteps
    <3> QED BY <2>2, <2>3, <3>2 DEF Fits, StepFits, BuyFits, RenewFits, BuyingSteps,
                                    RenewsItsOwn, RenewsWithItsPlan
  <2> QED BY <1>3, <2>2, <2>3, <2>4, MovingStep DEF ApplyCodeTamdid
<1> QED BY <1>2, <1>3 DEF ApplyCodeTamdid

LEMMA RenewInvoicePressedStep ==
    ASSUME PanelsAreNamed, ConversationsInv, NEW m \in Messages, RenewInvoicePressed(m)
    PROVE  ConversationsInv'
BY ConfirmPurchaseTamdidStep, ApplyCodeTamdidStep DEF RenewInvoicePressed, Pressed

LEMMA TypeCodeTamdidStep == ASSUME ConversationsInv, TypeCodeTamdid PROVE ConversationsInv'
<1>1. session.step = "WhatingForCodeTakhfifTamdid" /\ ordered' = {}
      BY DEF TypeCodeTamdid, Silent
<1>2. CASE Clears /\ Answers(Plain("home")) BY <1>1, <1>2, ClearedStep DEF Answers
<1>3. CASE ~(Clears /\ Answers(Plain("home")))
  <2> DEFINE item == Item(session.plan, None)
             b == Buttons("renewCut", session.config, item)
  <2>1. PICK m \in Messages : Shows(m, b) BY <1>3 DEF TypeCodeTamdid, Answers
  <2>2. session \in Sessions BY DEF ConversationsInv, ConversationsTypeOK
  <2>3. b \in Contents /\ b.of = session.config /\ b.item = item /\ b.kind = "renewCut"
        BY <2>2, SessionHas, ButtonsType DEF Kinds
  <2>4. session' = [session EXCEPT !.step = "Takhfif_confirm_purchase_tamdid", !.offer = item]
            /\ disturbed' = disturbed
        BY <1>3 DEF TypeCodeTamdid, Quiet
  <2>5. /\ session' \in Sessions /\ session'.panel = session.panel
        /\ session'.config = session.config /\ session'.plan = session.plan
        /\ session'.step = "Takhfif_confirm_purchase_tamdid" /\ session'.offer = item
        BY <2>2, <2>4, SessionHas, StepsAre DEF Sessions
  <2>6. OfferFits' BY <2>5 DEF OfferFits
  <2>7. ASSUME ~disturbed' PROVE Fits(session', b)
    <3>1. RenewsWithItsPlan(session)
          BY <1>1, <2>4, <2>7 DEF ConversationsInv, LatestFits, Fits, StepFits, RenewingSteps
    <3> QED BY <2>3, <2>5, <3>1 DEF Fits, StepFits, BuyFits, RenewFits, BuyingSteps,
                                    RenewsItsOwn, RenewsWithItsPlan
  <2> QED BY <1>1, <2>1, <2>3, <2>5, <2>6, <2>7, ShowingStep
<1> QED BY <1>2, <1>3

LEMMA ConfirmBuyTamdidStep ==
    ASSUME PanelsAreNamed, ConversationsInv, NEW m \in Messages, ConfirmBuyTamdid(m)
    PROVE  ConversationsInv'
<1> DEFINE step == "Takhfif_confirm_purchase_tamdid"
<1>1. chat[m].kind = "renewCut" BY DEF ConfirmBuyTamdid, Pressed
<1>2. CASE session.step # step /\ Expires(m) /\ ordered' = {}
  <2>1. ~Fits(session, chat[m]) BY <1>1, <1>2 DEF Fits, RenewFits
  <2> QED BY <1>2, <2>1, ExpiresStep
<1>3. CASE session.step = step /\ Renews(m, session.plan, session.offer, TRUE)
  <2>1. session.offer = Item(session.plan, None) BY <1>3 DEF ConversationsInv, OfferFits
  <2>2. session.plan \in Optional(Panels \cup {Custom})
        BY SessionHas DEF ConversationsInv, ConversationsTypeOK
  <2>3. session.step \in RenewingSteps BY <1>3 DEF RenewingSteps
  <2>4. chat[m].kind \in {"renewInvoice", "renewCut"} BY <1>1
  <2>5. Renews(m, session.plan, Item(session.plan, None), TRUE) BY <1>3, <2>1
  <2> QED BY <2>2, <2>3, <2>4, <2>5, RenewsStep, Zenon
<1>4. CASE Refuses(m) BY <1>4, RefusesStep
<1> QED BY <1>2, <1>3, <1>4 DEF ConfirmBuyTamdid

-----------------------------------------------------------------------------
(* Together.                                                               *)

LEMMA ConversationsInit == Init => ConversationsInv
<1> SUFFICES ASSUME Init PROVE ConversationsInv OBVIOUS
<1>1. Plain("home") \in Contents /\ Plain("home").kind = "home" BY PlainType DEF Kinds
<1>2. ConversationsTypeOK BY <1>1, EmptyType DEF Init, ConversationsTypeOK
<1>3. OfferFits BY EmptyType DEF Init, OfferFits
<1>4. LatestFits
      BY <1>1, EmptyType DEF Init, LatestFits, Fits, StepFits, BuyFits, RenewFits,
                             BuyingSteps, RenewingSteps
<1> QED BY <1>2, <1>3, <1>4 DEF Init, ConversationsInv, PricedAsMade, AsShown

LEMMA ConversationsStep ==
    ASSUME PanelsAreNamed, ConversationsInv, [Next]_vars PROVE ConversationsInv'
<1>1. CASE Start \/ BuyMenu \/ ServicesMenu \/ Lapse \/ StickyChanges
      BY <1>1, StartStep, BuyMenuStep, ServicesMenuStep, LapseStep, StickyChangesStep
<1>2. CASE TypeCustom \/ TypeUsername \/ TypeCode \/ TypeCodeTamdid
      BY <1>2, TypeCustomStep, TypeUsernameStep, TypeCodeStep, TypeCodeTamdidStep
<1>3. ASSUME NEW m \in Messages,
             \/ Restart(m) \/ Cancel(m) \/ ServiceInfo(m) \/ BackToPanels(m)
             \/ \E p \in Panels : BuyVPN(m, p)
             \/ SelectDuration(m) \/ SelectPlan(m) \/ CustomBuy(m)
      PROVE  ConversationsInv'
      BY <1>3, RestartStep, CancelStep, ServiceInfoStep, BackToPanelsStep, BuyVPNStep,
         SelectDurationStep, SelectPlanStep, CustomBuyStep
<1>4. ASSUME NEW m \in Messages,
             \/ RetryUsername(m) \/ GenerateUsername(m)
             \/ InvoicePressed(m) \/ ConfirmDiscountedBuy(m)
      PROVE  ConversationsInv'
      BY <1>4, RetryUsernameStep, GenerateUsernameStep, InvoicePressedStep,
         ConfirmDiscountedBuyStep
<1>5. ASSUME NEW m \in Messages,
             \/ TamdidVPN(m) \/ SelectDurationTamdid(m) \/ SelectPlanTamdid(m)
             \/ RenewInvoicePressed(m) \/ ConfirmBuyTamdid(m)
      PROVE  ConversationsInv'
      BY <1>5, TamdidVPNStep, SelectDurationTamdidStep, SelectPlanTamdidStep,
         RenewInvoicePressedStep, ConfirmBuyTamdidStep
<1>6. CASE UNCHANGED vars
      BY <1>6 DEF vars, ConversationsInv, ConversationsTypeOK, OfferFits, Chosen, LatestFits,
                  PricedAsMade, AsShown
<1> QED BY <1>1, <1>2, <1>3, <1>4, <1>5, <1>6 DEF Next

\* What is ordered is priced as made, and who presses the latest message only gets
\* what it shows and is never told that it has expired: whatever panels, plans and
\* messages there are, and however old the pressed buttons (handlers of user/shop and
\* user/services).
THEOREM ConversationsKeepFaith ==
    ASSUME PanelsAreNamed PROVE Spec => []ChatKeepsFaith
<1>1. Init => ConversationsInv BY ConversationsInit
<1>2. ConversationsInv /\ [Next]_vars => ConversationsInv' BY ConversationsStep
<1>3. ConversationsInv => ChatKeepsFaith
      BY DEF ConversationsInv, ChatKeepsFaith, LatestFits, Fits, LatestWorks
<1> QED BY <1>1, <1>2, <1>3, PTL DEF Spec

-----------------------------------------------------------------------------
(***************************************************************************)
(* Deposits, for any purchases, prices, limits and amounts.  A session     *)
(* with a purchase has a pending record nothing is linked to; the latest   *)
(* message of an undisturbed conversation tells the session and the        *)
(* record; and a live open payment is linked to the record that waits.     *)
(***************************************************************************)
CONSTANTS Purchases, Price, Ways, Least, Most, Typed, MAX_PAYMENTS
VARIABLES record, payments, wallet, enabled, number

\* The session, the chat and what disturbed it have the names of Conversations.
Deposit == INSTANCE Deposits

WayNames == {"crypto", "stars", "tonpays", "irgateway", "card"}

\* Amounts are whole numbers, a way to pay has room between its limits, and no purchase is
\* called "none".
DepositAssumptions ==
    /\ Price \in [Purchases -> Nat] /\ Deposit!None \notin Purchases
    /\ \A w \in Ways : Least[w] \in Nat /\ Most[w] \in Nat /\ Least[w] <= Most[w]
    /\ Ways \subseteq WayNames /\ Typed \subseteq Nat

SessionSteps == Ways \cup {"home", "menu", "number", "receipt", "photo"}
MessageKinds ==
    {"home", "expired", "menu", "coins", "ask", "error", "card", "photo", "short"}
Some == Purchases \cup {Deposit!None}
MessageType == [kind : MessageKinds, of : Some, amount : Nat]
SessionType == [step : SessionSteps, active : BOOLEAN, mablagh : Nat, ready : Some]
RecordType ==
    [of : Some, topup : Nat, status : {Deposit!None, "pending", "linked", "over"}, tx : Nat, order : Nat]
PaymentType ==
    [way : Ways, amount : Nat, told : Nat, of : Some, whole : BOOLEAN, live : BOOLEAN,
     state : {"open", "credited", "short", "refused", "closed"}, made : Some]

DepositTyped ==
    /\ session \in SessionType /\ record \in RecordType
    /\ chat \in [Deposit!Messages -> MessageType]
    /\ payments \in Seq(PaymentType)
    /\ wallet \in Nat /\ enabled \subseteq Purchases /\ number \in BOOLEAN /\ disturbed \in BOOLEAN

\* The record asks for no less than what the purchase lacks.
RecordOK ==
    /\ Deposit!Waits => record.of \in Purchases /\ wallet + record.topup >= Price[record.of]
    /\ record.tx <= Len(payments) /\ record.order <= Len(payments)

\* A payment by itself, and against the record.
PayOK(pay) ==
    /\ pay.amount \in Least[pay.way]..Most[pay.way]
    /\ pay.told \in {0, pay.amount}
    /\ pay.state = "open" => pay.made = Deposit!None
    /\ pay.told # 0 /\ pay.made # Deposit!None => pay.made = pay.of
    /\ pay.live => /\ pay.state = "credited" => pay.made = pay.of
                   /\ pay.state = "short" => ~pay.whole
LinkOK(i, pay, rec) ==
    /\ pay.live /\ pay.state = "open" =>
           /\ rec.status \in {"pending", "linked"} /\ i \in {rec.tx, rec.order}
           /\ pay.of = rec.of
           /\ pay.whole => pay.amount >= rec.topup
    /\ rec.status \in {"pending", "linked"} /\ i \in {rec.tx, rec.order} /\ pay.told # 0
           => pay.of = rec.of
PaymentsOK ==
    \A i \in DOMAIN payments : PayOK(payments[i]) /\ LinkOK(i, payments[i], record)

\* The session, and what the latest message tells of it when nothing disturbed.
SessionOK ==
    /\ session.active => record.status = "pending" /\ record.tx = 0 /\ record.order = 0
    /\ session.step \in {"receipt", "photo"} =>
           "card" \in Ways /\ session.mablagh \in Least["card"]..Most["card"]
Follows ==
    LET now == chat["latest"]
        at == session.step
    IN  /\ at = "menu" /\ session.active /\ now.kind \in {"menu", "coins"} =>
               now.amount = session.mablagh /\ now.of = record.of
        /\ at \in Ways \/ (at = "menu" /\ ~session.active) => ~Deposit!Waits
        /\ at = "receipt" => now.kind = "card"
        /\ at = "photo" => now.kind = "photo"
        /\ at \in {"receipt", "photo"} =>
               /\ now.amount = session.mablagh
               /\ IF session.active THEN now.of = record.of ELSE now.of = Deposit!None /\ ~Deposit!Waits

DepositInv ==
    /\ DepositTyped /\ RecordOK /\ PaymentsOK /\ SessionOK
    /\ ~disturbed => Follows

-----------------------------------------------------------------------------
\* What is shown.
LEMMA WritesIs ==
    ASSUME chat \in [Deposit!Messages -> MessageType], NEW b \in MessageType, NEW m \in Deposit!Messages,
           Deposit!Writes(b, m)
    PROVE  chat' \in [Deposit!Messages -> MessageType] /\ chat'["latest"] = b
BY DEF Deposit!Writes, Deposit!Messages

LEMMA ShowsIs ==
    ASSUME chat \in [Deposit!Messages -> MessageType], NEW b \in MessageType, NEW m \in Deposit!Messages,
           Deposit!Shows(m, b)
    PROVE  chat' \in [Deposit!Messages -> MessageType] /\ chat'["latest"] = b
<1>1. (IF m = "latest" THEN "earlier" ELSE "latest") \in Deposit!Messages
  BY DEF Deposit!Messages
<1> QED
  BY <1>1, WritesIs DEF Deposit!Shows

LEMMA AnswersIs ==
    ASSUME chat \in [Deposit!Messages -> MessageType], NEW b \in MessageType, Deposit!Answers(b)
    PROVE  chat' \in [Deposit!Messages -> MessageType] /\ chat'["latest"] = b
BY ShowsIs DEF Deposit!Answers

LEMMA ButtonsAre ==
    /\ \A k \in MessageKinds : Deposit!Plain(k) \in MessageType /\ Deposit!Plain(k).kind = k /\ Deposit!Plain(k).of = Deposit!None
                               /\ Deposit!Plain(k).amount = 0
    /\ \A k \in MessageKinds, p \in Some, n \in Nat :
           /\ Deposit!Buttons(k, p, n) \in MessageType /\ Deposit!Buttons(k, p, n).kind = k
           /\ Deposit!Buttons(k, p, n).of = p /\ Deposit!Buttons(k, p, n).amount = n
BY DEF Deposit!Plain, Deposit!Buttons, MessageType, Some

LEMMA EmptyIs ==
    /\ Deposit!Empty \in SessionType /\ Deposit!Empty.step = "home" /\ ~Deposit!Empty.active
    /\ Deposit!Empty.mablagh = 0 /\ Deposit!Empty.ready = Deposit!None
    /\ Deposit!None \in Some /\ Deposit!NoRecord \in RecordType /\ Deposit!Over \in RecordType
    /\ Deposit!NoRecord.status = Deposit!None /\ Deposit!Over.status = "over" /\ Deposit!NoRecord.tx = 0 /\ Deposit!NoRecord.order = 0
    /\ Deposit!Over.tx = 0 /\ Deposit!Over.order = 0
BY DEF Deposit!Empty, SessionType, SessionSteps, Some, Deposit!NoRecord, Deposit!Over, RecordType

-----------------------------------------------------------------------------
\* Payments and the record.
LEMMA SeqIs ==
    ASSUME NEW S, NEW n \in Nat, NEW f \in [1..n -> S]
    PROVE  f \in Seq(S) /\ Len(f) = n /\ DOMAIN f = 1..n
OBVIOUS

LEMMA PaymentHas ==
    ASSUME payments \in Seq(PaymentType), NEW i \in DOMAIN payments
    PROVE  /\ payments[i] \in PaymentType /\ i \in Nat \ {0} /\ i <= Len(payments)
           /\ payments[i].live \in BOOLEAN /\ payments[i].amount \in Nat
           /\ payments[i].told \in Nat /\ payments[i].way \in Ways
<1>1. DOMAIN payments = 1..Len(payments) /\ Len(payments) \in Nat
  OBVIOUS
<1>2. payments[i] \in PaymentType
  BY <1>1
<1>3. \A pay \in PaymentType : /\ pay.live \in BOOLEAN /\ pay.amount \in Nat
                              /\ pay.told \in Nat /\ pay.way \in Ways
  BY DEF PaymentType
<1> QED
  BY <1>1, <1>2, <1>3

LEMMA ClampIs ==
    ASSUME DepositAssumptions, NEW w \in Ways, NEW n \in Nat
    PROVE  Deposit!Clamp(w, n) \in Nat /\ Deposit!Clamp(w, n) \in Least[w]..Most[w]
BY DEF DepositAssumptions, Deposit!Clamp

LEMMA LimitsAreNat ==
    ASSUME DepositAssumptions, NEW w \in Ways, NEW n \in Least[w]..Most[w]
    PROVE  n \in Nat
BY DEF DepositAssumptions

\* All payments are forgotten, and the record starts again or waits no longer.
LEMMA ForgottenKeeps ==
    ASSUME DepositTyped, PaymentsOK, payments' = Deposit!Forgotten(payments),
           record'.status \in {"pending", "linked"} => record'.tx = 0 /\ record'.order = 0
    PROVE  payments' \in Seq(PaymentType) /\ Len(payments') = Len(payments) /\ PaymentsOK'
<1>1. /\ DOMAIN payments = 1..Len(payments) /\ Len(payments) \in Nat
      /\ payments \in Seq(PaymentType)
  BY DEF DepositTyped
<1>2. ASSUME NEW i \in DOMAIN payments
      PROVE  /\ [payments[i] EXCEPT !.live = FALSE] \in PaymentType
             /\ PayOK([payments[i] EXCEPT !.live = FALSE])
             /\ LinkOK(i, [payments[i] EXCEPT !.live = FALSE], record')
  <2>1. payments[i] \in PaymentType /\ i # 0
    BY <1>1, PaymentHas
  <2> DEFINE y == [payments[i] EXCEPT !.live = FALSE]
  <2>2. /\ y \in PaymentType /\ ~y.live /\ y.amount = payments[i].amount
        /\ y.way = payments[i].way /\ y.told = payments[i].told /\ y.state = payments[i].state
        /\ y.made = payments[i].made /\ y.of = payments[i].of
    BY <2>1 DEF PaymentType
  <2> HIDE DEF y
  <2>3. PayOK(y)
    BY <2>2 DEF PaymentsOK, PayOK
  <2>4. LinkOK(i, y, record')
    BY <2>1, <2>2 DEF LinkOK
  <2> QED
    BY <2>2, <2>3, <2>4 DEF y
<1>3. /\ payments' \in [1..Len(payments) -> PaymentType]
      /\ \A i \in DOMAIN payments : payments'[i] = [payments[i] EXCEPT !.live = FALSE]
  BY <1>1, <1>2 DEF Deposit!Forgotten
<1>4. /\ payments' \in Seq(PaymentType) /\ Len(payments') = Len(payments)
      /\ DOMAIN payments' = DOMAIN payments
  BY <1>1, <1>3, SeqIs
<1>5. PaymentsOK'
  <2> SUFFICES ASSUME NEW i \in DOMAIN payments
               PROVE  PayOK(payments'[i]) /\ LinkOK(i, payments'[i], record')
    BY <1>4 DEF PaymentsOK
  <2>1. payments'[i] = [payments[i] EXCEPT !.live = FALSE]
    BY <1>3
  <2> QED
    BY <1>2, <2>1
<1> QED
  BY <1>4, <1>5

\* A payment that is linked to what waits.
LEMMA LinksKeeps ==
    ASSUME DepositTyped, RecordOK, PaymentsOK, NEW pay \in PaymentType, PayOK(pay),
           pay.state = "open", Deposit!Links(pay), wallet' = wallet,
           pay.live => Deposit!Waits /\ pay.of = record.of /\ (pay.whole => pay.amount >= record.topup),
           Deposit!Waits /\ pay.told # 0 => pay.of = record.of
    PROVE  /\ payments' \in Seq(PaymentType) /\ record' \in RecordType
           /\ RecordOK' /\ PaymentsOK' /\ (Deposit!Waits' => Deposit!Waits)
<1> DEFINE n == Len(payments)
           old == IF pay.way = "card" THEN record.tx ELSE record.order
           y(i) == [payments[i] EXCEPT !.live = @ /\ (i # old \/ ~Deposit!Waits)]
           before == [i \in DOMAIN payments |-> y(i)]
<1>1. DOMAIN payments = 1..n /\ n \in Nat /\ payments \in Seq(PaymentType) /\ record \in RecordType
  BY DEF DepositTyped
<1>2. ASSUME NEW i \in DOMAIN payments
      PROVE  /\ y(i) \in PaymentType
             /\ y(i).live <=> payments[i].live /\ (i # old \/ ~Deposit!Waits)
             /\ y(i).amount = payments[i].amount /\ y(i).way = payments[i].way
             /\ y(i).told = payments[i].told /\ y(i).state = payments[i].state
             /\ y(i).made = payments[i].made /\ y(i).of = payments[i].of
             /\ y(i).whole = payments[i].whole
  <2> DEFINE l == payments[i].live /\ (i # old \/ ~Deposit!Waits)
  <2>1. payments[i] \in PaymentType /\ l \in BOOLEAN
    BY <1>1, PaymentHas
  <2>2. y(i) = [payments[i] EXCEPT !.live = l]
    OBVIOUS
  <2> HIDE DEF l, y
  <2>3. /\ [payments[i] EXCEPT !.live = l] \in PaymentType
        /\ [payments[i] EXCEPT !.live = l].live = l
    BY <2>1 DEF PaymentType
  <2> QED
    BY <2>1, <2>2, <2>3 DEF PaymentType, l
<1>3. /\ record' = (IF ~Deposit!Waits THEN record
                    ELSE IF pay.way = "card" THEN [record EXCEPT !.tx = n + 1, !.status = "linked"]
                    ELSE [record EXCEPT !.order = n + 1, !.status = "linked"])
      /\ payments' = Append(before, pay)
  BY DEF Deposit!Links, Deposit!Next1
<1> HIDE DEF y
<1>4. before \in Seq(PaymentType) /\ Len(before) = n /\ DOMAIN before = 1..n
  <2>1. before \in [1..n -> PaymentType]
    BY <1>1, <1>2
  <2> HIDE DEF before, n
  <2> QED
    BY <1>1, <2>1, SeqIs
<1>5. /\ payments' \in Seq(PaymentType) /\ Len(payments') = n + 1
      /\ DOMAIN payments' = 1..(n + 1) /\ payments'[n + 1] = pay
      /\ \A i \in 1..n : payments'[i] = before[i]
  <2> HIDE DEF before, n
  <2> QED
    BY <1>1, <1>3, <1>4
<1>6. \A i \in 1..n : payments'[i] = y(i)
  BY <1>1, <1>5
<1> HIDE DEF before, old
<1>7. /\ record' \in RecordType /\ record'.of = record.of /\ record'.topup = record.topup
      /\ Deposit!Waits' <=> Deposit!Waits
      /\ Deposit!Waits => record'.tx = (IF pay.way = "card" THEN n + 1 ELSE record.tx)
                                          /\ record'.order = (IF pay.way = "card" THEN record.order ELSE n + 1)
      /\ ~Deposit!Waits => record' = record
  <2>1. CASE ~Deposit!Waits
    BY <1>1, <1>3, <2>1 DEF RecordType, Deposit!Waits
  <2>2. CASE Deposit!Waits /\ pay.way = "card"
    <3>1. n + 1 \in Nat /\ record' = [record EXCEPT !.tx = n + 1, !.status = "linked"]
      BY <1>1, <1>3, <2>2
    <3> HIDE DEF n
    <3> QED
      BY <1>1, <2>2, <3>1 DEF RecordType, Deposit!Waits
  <2>3. CASE Deposit!Waits /\ pay.way # "card"
    <3>1. n + 1 \in Nat /\ record' = [record EXCEPT !.order = n + 1, !.status = "linked"]
      BY <1>1, <1>3, <2>3
    <3> HIDE DEF n
    <3> QED
      BY <1>1, <2>3, <3>1 DEF RecordType, Deposit!Waits
  <2> QED
    BY <2>1, <2>2, <2>3
<1>8. RecordOK'
  <2>1. record'.tx <= n + 1 /\ record'.order <= n + 1
    <3>1. record.tx <= n /\ record.order <= n /\ record.tx \in Nat /\ record.order \in Nat
      BY <1>1 DEF RecordOK, RecordType
    <3> QED
      BY <1>1, <1>7, <3>1
  <2> QED
    BY <1>5, <1>7, <2>1 DEF RecordOK
<1>9. PaymentsOK'
  <2> SUFFICES ASSUME NEW i \in 1..(n + 1)
               PROVE  PayOK(payments'[i]) /\ LinkOK(i, payments'[i], record')
    BY <1>5 DEF PaymentsOK
  <2>w. Deposit!Waits' <=> record'.status \in {"pending", "linked"}
    BY DEF Deposit!Waits
  <2>v. Deposit!Waits <=> record.status \in {"pending", "linked"}
    BY DEF Deposit!Waits
  <2>1. CASE i = n + 1
    <3>1. Deposit!Waits => n + 1 \in {record'.tx, record'.order}
      BY <1>7
    <3>2. LinkOK(n + 1, pay, record')
      <4>1. pay.told # 0 /\ Deposit!Waits' => pay.of = record'.of
        BY <1>7
      <4>2. pay.live => Deposit!Waits' /\ n + 1 \in {record'.tx, record'.order} /\ pay.of = record'.of
                        /\ (pay.whole => pay.amount >= record'.topup)
        BY <1>7, <3>1
      <4> QED
        BY <2>w, <4>1, <4>2 DEF LinkOK
    <3> QED
      BY <1>5, <2>1, <3>2
  <2>2. CASE i \in 1..n
    <3>0. payments'[i] = y(i) /\ i \in DOMAIN payments /\ i # n + 1
      BY <1>1, <1>6, <2>2
    <3>1. PayOK(payments[i]) /\ LinkOK(i, payments[i], record)
      BY <3>0 DEF PaymentsOK
    <3>2. PayOK(y(i))
      BY <1>2, <3>0, <3>1 DEF PayOK
    <3>3. ASSUME y(i).live, y(i).state = "open"
          PROVE  /\ Deposit!Waits' /\ i \in {record'.tx, record'.order} /\ y(i).of = record'.of
                 /\ y(i).whole => y(i).amount >= record'.topup
      <4>1. /\ Deposit!Waits /\ i \in {record.tx, record.order} /\ payments[i].of = record.of
            /\ payments[i].whole => payments[i].amount >= record.topup
        BY <1>2, <2>v, <3>0, <3>1, <3>3 DEF LinkOK
      <4>2. i # old
        BY <1>2, <3>0, <3>3, <4>1
      <4> QED
        BY <1>2, <1>7, <3>0, <4>1, <4>2 DEF old
    <3>4. ASSUME Deposit!Waits', i \in {record'.tx, record'.order}, y(i).told # 0
          PROVE  y(i).of = record'.of
      <4>1. i \in {record.tx, record.order}
        BY <1>7, <3>0, <3>4
      <4> QED
        BY <1>2, <1>7, <2>v, <3>0, <3>1, <3>4, <4>1 DEF LinkOK
    <3>5. LinkOK(i, y(i), record')
      BY <2>w, <3>3, <3>4 DEF LinkOK
    <3> QED
      BY <3>0, <3>2, <3>5
  <2> QED
    BY <1>1, <2>1, <2>2
<1> QED
  BY <1>5, <1>7, <1>8, <1>9

\* A payment that is opened for the wallet alone.
LEMMA OpenedKeeps ==
    ASSUME DepositTyped, RecordOK, PaymentsOK, NEW pay \in PaymentType, PayOK(pay), ~pay.live,
           payments' = Append(payments, pay), UNCHANGED <<record, wallet>>
    PROVE  payments' \in Seq(PaymentType) /\ RecordOK' /\ PaymentsOK'
<1> DEFINE n == Len(payments)
<1>1. DOMAIN payments = 1..n /\ n \in Nat /\ payments \in Seq(PaymentType) /\ record \in RecordType
  BY DEF DepositTyped
<1>2. /\ payments' \in Seq(PaymentType) /\ Len(payments') = n + 1
      /\ DOMAIN payments' = 1..(n + 1) /\ payments'[n + 1] = pay
      /\ \A i \in 1..n : payments'[i] = payments[i]
  BY <1>1
<1>3. record.tx <= n /\ record.order <= n /\ record.tx \in Nat /\ record.order \in Nat
  BY <1>1 DEF RecordOK, RecordType
<1>4. RecordOK'
  BY <1>1, <1>2, <1>3 DEF RecordOK, Deposit!Waits
<1>5. LinkOK(n + 1, pay, record')
  BY <1>1, <1>3 DEF LinkOK
<1>6. PaymentsOK'
  <2> SUFFICES ASSUME NEW i \in 1..(n + 1)
               PROVE  PayOK(payments'[i]) /\ LinkOK(i, payments'[i], record')
    BY <1>2 DEF PaymentsOK
  <2>1. CASE i = n + 1
    BY <1>2, <1>5, <2>1
  <2>2. CASE i \in 1..n
    BY <1>1, <1>2, <2>2 DEF PaymentsOK
  <2> QED
    BY <1>1, <2>1, <2>2
<1> QED
  BY <1>2, <1>4, <1>6

-----------------------------------------------------------------------------
(* The conversation.                                                       *)

\* A step that leaves record and payments alone.
LEMMA TalkKeeps ==
    ASSUME DepositInv, UNCHANGED <<record, payments, wallet, enabled>>, number' \in BOOLEAN,
           session' \in SessionType, chat' \in [Deposit!Messages -> MessageType], disturbed' \in BOOLEAN,
           session'.active => session.active,
           session'.step \in {"receipt", "photo"} =>
               "card" \in Ways /\ session'.mablagh \in Least["card"]..Most["card"],
           ~disturbed' => Follows'
    PROVE  DepositInv'
<1>1. DepositTyped'
  BY DEF DepositInv, DepositTyped
<1>2. RecordOK' /\ PaymentsOK'
  BY DEF DepositInv, RecordOK, PaymentsOK, Deposit!Waits
<1>3. SessionOK'
  BY DEF DepositInv, SessionOK
<1> QED
  BY <1>1, <1>2, <1>3 DEF DepositInv

\* The menu is shown.
LEMMA MenuIs ==
    ASSUME DepositAssumptions, DepositTyped, NEW m \in Deposit!Messages, NEW of \in Some,
           NEW topup \in Nat, Deposit!ShowsMenu(m, of, topup),
           of # Deposit!None => /\ record'.status = "pending" /\ record'.tx = 0 /\ record'.order = 0
                                                /\ record'.of = of,
           of = Deposit!None => ~Deposit!Waits'
    PROVE  /\ session' \in SessionType /\ chat' \in [Deposit!Messages -> MessageType]
           /\ disturbed' = FALSE /\ SessionOK' /\ Follows'
<1>1. /\ session' \in SessionType /\ session'.step = "menu" /\ (session'.active <=> of # Deposit!None)
      /\ session'.mablagh = topup
  <2> DEFINE x == [Deposit!AtStep("menu") EXCEPT !.active = (of # Deposit!None), !.mablagh = topup]
  <2>1. Deposit!AtStep("menu") \in SessionType /\ Deposit!AtStep("menu").step = "menu"
    BY EmptyIs DEF Deposit!AtStep, SessionType, SessionSteps
  <2>2. (of # Deposit!None) \in BOOLEAN
    OBVIOUS
  <2>3. /\ x \in SessionType /\ x.step = "menu" /\ (x.active <=> of # Deposit!None) /\ x.mablagh = topup
    BY <2>1, <2>2 DEF SessionType
  <2> QED
    BY <2>3 DEF Deposit!ShowsMenu
<1>2. /\ Deposit!Buttons("menu", of, topup) \in MessageType /\ Deposit!Buttons("menu", of, topup).kind = "menu"
      /\ Deposit!Buttons("menu", of, topup).of = of /\ Deposit!Buttons("menu", of, topup).amount = topup
  BY ButtonsAre DEF MessageKinds
<1>3. chat' \in [Deposit!Messages -> MessageType] /\ chat'["latest"] = Deposit!Buttons("menu", of, topup)
  BY <1>2, ShowsIs DEF Deposit!ShowsMenu, DepositTyped
<1>4. SessionOK'
  BY <1>1 DEF SessionOK
<1>5. "menu" \notin Ways
  BY DEF DepositAssumptions, WayNames
<1>6. Follows'
  BY <1>1, <1>2, <1>3, <1>5 DEF Follows
<1> QED
  BY <1>1, <1>3, <1>4, <1>6 DEF Deposit!ShowsMenu

LEMMA CancelsKeeps ==
    ASSUME DepositInv, Deposit!Cancels, wallet' = wallet
    PROVE  /\ payments' \in Seq(PaymentType) /\ record' \in RecordType /\ ~Deposit!Waits'
           /\ RecordOK' /\ PaymentsOK' /\ (record' = record \/ record' = Deposit!Over)
<1>1. payments' = Deposit!Forgotten(payments) /\ record' = (IF Deposit!Waits THEN Deposit!Over ELSE record)
  BY DEF Deposit!Cancels
<1>2. record' \in RecordType /\ ~Deposit!Waits' /\ record'.status \notin {"pending", "linked"}
  BY <1>1, EmptyIs DEF Deposit!Waits, DepositInv, DepositTyped
<1>3. payments' \in Seq(PaymentType) /\ Len(payments') = Len(payments) /\ PaymentsOK'
  BY <1>1, <1>2, ForgottenKeeps DEF DepositInv
<1>4. record'.tx <= Len(payments) /\ record'.order <= Len(payments)
  <2>1. Len(payments) \in Nat
    BY DEF DepositInv, DepositTyped
  <2> QED
    BY <1>1, <2>1, EmptyIs DEF DepositInv, RecordOK
<1>5. RecordOK'
  BY <1>2, <1>3, <1>4 DEF RecordOK
<1> QED
  BY <1>1, <1>2, <1>3, <1>5

LEMMA ReturnKeeps ==
    ASSUME DepositAssumptions, DepositInv, NEW m \in Deposit!Messages, Deposit!ReturnToMenu(m), Deposit!Keeps
    PROVE  DepositInv'
<1>0. UNCHANGED <<wallet, enabled, number>> /\ DepositTyped
  BY DEF Deposit!Keeps, DepositInv
<1>1. CASE session.active /\ Deposit!Waits
  <2>1. Deposit!ShowsMenu(m, record.of, record.topup) /\ UNCHANGED <<record, payments>>
    BY <1>1 DEF Deposit!ReturnToMenu
  <2>2. /\ record.of \in Some /\ record.topup \in Nat /\ record.of # Deposit!None
        /\ record.status = "pending" /\ record.tx = 0 /\ record.order = 0
    BY <1>0, <1>1 DEF DepositInv, DepositTyped, RecordType, RecordOK, SessionOK, DepositAssumptions
  <2>3. /\ session' \in SessionType /\ chat' \in [Deposit!Messages -> MessageType]
        /\ disturbed' = FALSE /\ SessionOK' /\ Follows'
    BY <1>0, <2>1, <2>2, MenuIs
  <2>4. DepositTyped'
    BY <1>0, <2>1, <2>3 DEF DepositTyped
  <2>5. RecordOK' /\ PaymentsOK'
    BY <1>0, <2>1 DEF DepositInv, RecordOK, PaymentsOK, Deposit!Waits
  <2> QED
    BY <2>3, <2>4, <2>5 DEF DepositInv
<1>2. CASE ~(session.active /\ Deposit!Waits)
  <2>1. Deposit!ShowsMenu(m, Deposit!None, 0) /\ Deposit!Cancels
    BY <1>2 DEF Deposit!ReturnToMenu
  <2>2. /\ payments' \in Seq(PaymentType) /\ record' \in RecordType /\ ~Deposit!Waits'
        /\ RecordOK' /\ PaymentsOK'
    BY <1>0, <2>1, CancelsKeeps
  <2>3. /\ session' \in SessionType /\ chat' \in [Deposit!Messages -> MessageType]
        /\ disturbed' = FALSE /\ SessionOK' /\ Follows'
    BY <1>0, <2>1, <2>2, MenuIs, EmptyIs
  <2>4. DepositTyped'
    BY <1>0, <2>2, <2>3 DEF DepositTyped
  <2> QED
    BY <2>2, <2>3, <2>4 DEF DepositInv
<1> QED
  BY <1>1, <1>2

LEMMA TopupKeeps ==
    ASSUME DepositAssumptions, DepositInv, NEW m \in Deposit!Messages, NEW p \in Purchases,
           wallet < Price[p], Deposit!StartTopup(m, p), Deposit!Keeps
    PROVE  DepositInv'
<1>0. UNCHANGED <<wallet, enabled, number>> /\ DepositTyped /\ wallet \in Nat /\ Price[p] \in Nat
  BY DEF Deposit!Keeps, DepositInv, DepositTyped, DepositAssumptions
<1> DEFINE topup == Price[p] - wallet
<1>1. topup \in Nat /\ wallet + topup >= Price[p]
  BY <1>0
<1> HIDE DEF topup
<1>2. /\ record' = [Deposit!NoRecord EXCEPT !.of = p, !.topup = topup, !.status = "pending"]
      /\ payments' = Deposit!Forgotten(payments) /\ Deposit!ShowsMenu(m, p, topup)
  BY DEF Deposit!StartTopup, topup
<1>3. /\ record' \in RecordType /\ record'.of = p /\ record'.topup = topup
      /\ record'.status = "pending" /\ record'.tx = 0 /\ record'.order = 0
  <2>1. p \in Some
    BY DEF Some
  <2> QED
    BY <1>1, <1>2, <2>1, EmptyIs DEF RecordType
<1>4. payments' \in Seq(PaymentType) /\ Len(payments') = Len(payments) /\ PaymentsOK'
  BY <1>0, <1>2, <1>3, ForgottenKeeps DEF DepositInv
<1>5. RecordOK'
  <2>1. Len(payments) \in Nat
    BY <1>0 DEF DepositTyped
  <2> QED
    BY <1>0, <1>1, <1>3, <1>4, <2>1 DEF RecordOK
<1>6. p \in Some /\ p # Deposit!None
  BY DEF Some, DepositAssumptions
<1>7. /\ session' \in SessionType /\ chat' \in [Deposit!Messages -> MessageType]
      /\ disturbed' = FALSE /\ SessionOK' /\ Follows'
  BY <1>0, <1>1, <1>2, <1>3, <1>6, MenuIs
<1>8. DepositTyped'
  BY <1>0, <1>3, <1>4, <1>7 DEF DepositTyped
<1> QED
  BY <1>4, <1>5, <1>7, <1>8 DEF DepositInv

LEMMA PaymentIs ==
    ASSUME DepositAssumptions, NEW w \in Ways, NEW amount \in Least[w]..Most[w], NEW told \in Nat,
           NEW of \in Some, NEW fair \in BOOLEAN, fair => told = amount,
           record.topup \in Nat
    PROVE  /\ Deposit!Payment(w, amount, told, of, fair) \in PaymentType
           /\ PayOK(Deposit!Payment(w, amount, told, of, fair))
           /\ Deposit!Payment(w, amount, told, of, fair).state = "open"
           /\ Deposit!Payment(w, amount, told, of, fair).way = w
           /\ Deposit!Payment(w, amount, told, of, fair).amount = amount
           /\ Deposit!Payment(w, amount, told, of, fair).live => fair /\ of # Deposit!None /\ w # "stars"
           /\ Deposit!Payment(w, amount, told, of, fair).told # 0 => fair
           /\ fair => Deposit!Payment(w, amount, told, of, fair).of = of
           /\ Deposit!Payment(w, amount, told, of, fair).whole => amount >= record.topup
<1> DEFINE t == IF fair THEN told ELSE 0
           o == IF fair THEN of ELSE Deposit!None
           whole == fair /\ amount >= record.topup
           live == fair /\ of # Deposit!None /\ w # "stars"
           pay == [way |-> w, amount |-> amount, told |-> t, of |-> o, whole |-> whole,
                   live |-> live, state |-> "open", made |-> Deposit!None]
<1>1. amount \in Nat /\ t \in Nat /\ o \in Some /\ whole \in BOOLEAN /\ live \in BOOLEAN
      /\ Deposit!None \in Some /\ t \in {0, amount}
  BY LimitsAreNat, EmptyIs
<1>2. /\ t # 0 => fair
      /\ live => fair /\ of # Deposit!None /\ w # "stars"
      /\ whole => amount >= record.topup
      /\ fair => o = of
  OBVIOUS
<1>3. Deposit!Payment(w, amount, told, of, fair) = pay
  BY DEF Deposit!Payment
<1> HIDE DEF t, o, whole, live
<1>4. pay \in PaymentType
  BY <1>1 DEF PaymentType
<1>5. PayOK(pay)
  BY <1>1 DEF PayOK
<1> QED
  BY <1>2, <1>3, <1>4, <1>5

LEMMA AskedIs ==
    ASSUME session \in SessionType, NEW step \in SessionSteps, NEW amount \in Nat
    PROVE  /\ Deposit!Asked(step, amount) \in SessionType /\ Deposit!Asked(step, amount).step = step
           /\ Deposit!Asked(step, amount).active = session.active
<1> DEFINE n == IF session.active THEN amount ELSE session.mablagh
<1>1. n \in Nat
  BY DEF SessionType
<1>2. Deposit!Asked(step, amount) = [session EXCEPT !.step = step, !.mablagh = n]
  BY DEF Deposit!Asked
<1> HIDE DEF n
<1> QED
  BY <1>1, <1>2 DEF SessionType

LEMMA OpensKeeps ==
    ASSUME DepositAssumptions, DepositInv, NEW w \in Ways, NEW amount \in Least[w]..Most[w],
           NEW told \in Nat, NEW of \in Some, NEW fair \in BOOLEAN, fair => told = amount,
           fair /\ of # Deposit!None /\ w # "stars" => session.active,
           fair /\ Deposit!Waits => of = record.of,
           Deposit!Opens(Deposit!Payment(w, amount, told, of, fair)), Deposit!Keeps
    PROVE  DepositInv'
<1> DEFINE pay == Deposit!Payment(w, amount, told, of, fair)
<1>0. /\ UNCHANGED <<wallet, enabled, number>> /\ DepositTyped /\ RecordOK /\ PaymentsOK
      /\ SessionOK /\ record.topup \in Nat /\ session \in SessionType
      /\ chat \in [Deposit!Messages -> MessageType] /\ disturbed \in BOOLEAN /\ number \in BOOLEAN
      /\ enabled \subseteq Purchases /\ wallet \in Nat /\ record \in RecordType
  BY DEF Deposit!Keeps, DepositInv, DepositTyped, RecordType
<1>1. /\ pay \in PaymentType /\ PayOK(pay) /\ pay.state = "open" /\ pay.way = w
      /\ pay.amount = amount
      /\ pay.live => fair /\ of # Deposit!None /\ w # "stars"
      /\ pay.told # 0 => fair
      /\ fair => pay.of = of
      /\ pay.whole => amount >= record.topup
  BY <1>0, PaymentIs
<1>2. /\ \/ /\ w # "stars" /\ (session.active \/ record # Deposit!NoRecord)
            /\ Deposit!Links(pay) /\ session' = Deposit!Empty /\ disturbed' = FALSE
         \/ /\ ~(w # "stars" /\ (session.active \/ record # Deposit!NoRecord))
            /\ payments' = Append(payments, pay)
            /\ session' = Deposit!Asked("home", amount)
            /\ UNCHANGED <<record, disturbed>>
      /\ Deposit!Answers(Deposit!Plain("home"))
  BY <1>1 DEF Deposit!Opens
<1> HIDE DEF pay
<1>3. Deposit!Plain("home") \in MessageType
  BY ButtonsAre DEF MessageKinds
<1>4. chat' \in [Deposit!Messages -> MessageType]
  BY <1>0, <1>2, <1>3, AnswersIs
<1>5. "home" \notin Ways /\ "home" \in SessionSteps
  BY DEF DepositAssumptions, WayNames, SessionSteps
<1>6. CASE Deposit!Links(pay) /\ session' = Deposit!Empty /\ disturbed' = FALSE
  <2>0. session.active => Deposit!Waits
    BY <1>0 DEF SessionOK, Deposit!Waits
  <2>1. pay.live => Deposit!Waits /\ pay.of = record.of /\ (pay.whole => pay.amount >= record.topup)
    BY <1>1, <2>0
  <2>2. Deposit!Waits /\ pay.told # 0 => pay.of = record.of
    BY <1>1
  <2>3. /\ payments' \in Seq(PaymentType) /\ record' \in RecordType
        /\ RecordOK' /\ PaymentsOK'
    BY <1>0, <1>1, <1>6, <2>1, <2>2, LinksKeeps
  <2>4. DepositTyped'
    BY <1>0, <1>4, <1>6, <2>3, EmptyIs DEF DepositTyped
  <2>5. SessionOK' /\ Follows'
    BY <1>5, <1>6, EmptyIs DEF SessionOK, Follows
  <2> QED
    BY <2>3, <2>4, <2>5 DEF DepositInv
<1>7. CASE /\ ~(w # "stars" /\ (session.active \/ record # Deposit!NoRecord))
           /\ payments' = Append(payments, pay)
           /\ session' = Deposit!Asked("home", amount)
           /\ UNCHANGED <<record, disturbed>>
  <2>1. ~pay.live
    BY <1>1, <1>7
  <2>2. payments' \in Seq(PaymentType) /\ RecordOK' /\ PaymentsOK'
    BY <1>0, <1>1, <1>7, <2>1, OpenedKeeps
  <2>3. amount \in Nat
    BY LimitsAreNat
  <2>4. /\ session' \in SessionType /\ session'.step = "home"
        /\ session'.active = session.active
    BY <1>0, <1>5, <1>7, <2>3, AskedIs
  <2>5. DepositTyped'
    BY <1>0, <1>4, <1>7, <2>2, <2>4 DEF DepositTyped
  <2>6. SessionOK' /\ Follows'
    BY <1>0, <1>5, <1>7, <2>4 DEF SessionOK, Follows
  <2> QED
    BY <2>2, <2>5, <2>6 DEF DepositInv
<1> QED
  BY <1>2, <1>6, <1>7

LEMMA InvoiceKeeps ==
    ASSUME DepositAssumptions, DepositInv, NEW w \in Ways, NEW amount \in Least[w]..Most[w],
           NEW told \in Nat, NEW of \in Some, NEW fair \in BOOLEAN, fair => told = amount,
           fair /\ of # Deposit!None /\ w # "stars" => session.active,
           fair /\ Deposit!Waits => of = record.of,
           session.step \in Ways \cup {"menu"},
           Deposit!Invoice(w, amount, told, of, fair)
    PROVE  DepositInv'
<1>1. CASE Deposit!Opens(Deposit!Payment(w, amount, told, of, fair)) /\ Deposit!Keeps
  BY <1>1, OpensKeeps
<1>2. CASE Deposit!OpensNot(w, amount) /\ Deposit!Keeps
  <2> DEFINE step == IF w \in Deposit!Coins THEN "home" ELSE session.step
             kind == IF w \in Deposit!Coins THEN "home" ELSE "ask"
  <2>1. /\ session' = Deposit!Asked(step, amount) /\ Deposit!Answers(Deposit!Plain(kind))
        /\ UNCHANGED <<record, payments, disturbed, wallet, enabled, number>>
    BY <1>2 DEF Deposit!OpensNot, Deposit!Keeps
  <2>2. step \in SessionSteps /\ kind \in MessageKinds /\ kind \in {"home", "ask"}
        /\ step \in {"home", session.step}
    BY DEF SessionSteps, MessageKinds
  <2> HIDE DEF step, kind
  <2>3. amount \in Nat
    BY LimitsAreNat
  <2>4. /\ session \in SessionType /\ chat \in [Deposit!Messages -> MessageType] /\ number \in BOOLEAN
        /\ disturbed \in BOOLEAN
    BY DEF DepositInv, DepositTyped
  <2>5. session' \in SessionType /\ session'.step = step /\ session'.active = session.active
    BY <2>1, <2>2, <2>3, <2>4, AskedIs
  <2>6. Deposit!Plain(kind) \in MessageType /\ Deposit!Plain(kind).kind = kind
    BY <2>2, ButtonsAre
  <2>7. chat' \in [Deposit!Messages -> MessageType] /\ chat'["latest"] = Deposit!Plain(kind)
    BY <2>1, <2>4, <2>6, AnswersIs
  <2>8. /\ "home" \notin Ways /\ "receipt" \notin Ways /\ "photo" \notin Ways
    BY DEF DepositAssumptions, WayNames
  <2>9. session'.step \notin {"receipt", "photo"}
    BY <2>2, <2>5, <2>8
  <2>10. ASSUME ~disturbed' PROVE Follows'
    <3>1. Follows /\ (Deposit!Waits' <=> Deposit!Waits)
      BY <2>1, <2>10 DEF DepositInv, Deposit!Waits
    <3>2. chat'["latest"].kind \notin {"menu", "coins"}
      BY <2>2, <2>6, <2>7
    <3>3. session'.step \in Ways \/ (session'.step = "menu" /\ ~session'.active) => ~Deposit!Waits'
      BY <2>2, <2>5, <2>8, <3>1 DEF Follows
    <3> QED
      BY <2>9, <3>2, <3>3 DEF Follows
  <2> QED
    BY <2>1, <2>4, <2>5, <2>7, <2>9, <2>10, TalkKeeps
<1> QED
  BY <1>1, <1>2 DEF Deposit!Invoice

-----------------------------------------------------------------------------
(* The actions.                                                            *)

\* What every action knows of its state.
LEMMA TypesAre ==
    ASSUME DepositInv
    PROVE  /\ session \in SessionType /\ record \in RecordType
           /\ chat \in [Deposit!Messages -> MessageType] /\ payments \in Seq(PaymentType)
           /\ wallet \in Nat /\ enabled \subseteq Purchases /\ number \in BOOLEAN
           /\ disturbed \in BOOLEAN
           /\ session.step \in SessionSteps /\ session.active \in BOOLEAN
           /\ session.mablagh \in Nat /\ session.ready \in Some
           /\ \A m \in Deposit!Messages : /\ chat[m] \in MessageType /\ chat[m].kind \in MessageKinds
                                                          /\ chat[m].of \in Some /\ chat[m].amount \in Nat
<1>1. \A b \in MessageType : b.kind \in MessageKinds /\ b.of \in Some /\ b.amount \in Nat
  BY DEF MessageType
<1> QED
  BY <1>1 DEF DepositInv, DepositTyped, SessionType

LEMMA DepositStepsAre ==
    ASSUME DepositAssumptions
    PROVE  /\ Ways \cap {"home", "menu", "number", "receipt", "photo"} = {}
           /\ Ways \subseteq SessionSteps
           /\ {"home", "menu", "number", "receipt", "photo"} \subseteq SessionSteps
BY DEF DepositAssumptions, WayNames, SessionSteps

LEMMA NotesIs ==
    ASSUME disturbed \in BOOLEAN, NEW m \in Deposit!Messages, Deposit!Notes(m)
    PROVE  disturbed' \in BOOLEAN /\ (~disturbed' => ~disturbed /\ m = "latest")
BY DEF Deposit!Notes, Deposit!Messages

\* A step of the session to another point, with what is said then.
LEMMA StepIs ==
    ASSUME session \in SessionType, NEW step \in SessionSteps,
           session' = [session EXCEPT !.step = step]
    PROVE  /\ session' \in SessionType /\ session'.step = step
           /\ session'.active = session.active /\ session'.mablagh = session.mablagh
BY DEF SessionType

LEMMA TakesIs ==
    ASSUME session \in SessionType, NEW step \in SessionSteps, NEW amount \in Nat,
           session' = [session EXCEPT !.step = step, !.mablagh = amount]
    PROVE  /\ session' \in SessionType /\ session'.step = step
           /\ session'.active = session.active /\ session'.mablagh = amount
BY DEF SessionType

\* A session at home, and one at a way to pay that no purchase waits for, is told nothing.
LEMMA HomeFollows ==
    ASSUME DepositAssumptions, session'.step \in {"home", "number"}
    PROVE  Follows'
BY DepositStepsAre DEF Follows

LEMMA ExpiresKeeps ==
    ASSUME DepositAssumptions, DepositInv, NEW m \in Deposit!Messages, Deposit!Expires(m),
           disturbed \/ m # "latest" \/ session.step \notin {"receipt", "photo"}
    PROVE  DepositInv'
<1>1. /\ Deposit!Shows(m, Deposit!Plain("expired")) /\ Deposit!Notes(m)
      /\ UNCHANGED <<wallet, enabled, number, session, record, payments>>
  BY DEF Deposit!Expires, Deposit!Keeps
<1>2. Deposit!Plain("expired") \in MessageType /\ Deposit!Plain("expired").kind = "expired"
  BY ButtonsAre DEF MessageKinds
<1>3. chat' \in [Deposit!Messages -> MessageType] /\ chat'["latest"] = Deposit!Plain("expired")
  BY <1>1, <1>2, TypesAre, ShowsIs
<1>4. disturbed' \in BOOLEAN /\ (~disturbed' => ~disturbed /\ m = "latest")
  BY <1>1, TypesAre, NotesIs
<1>5. ASSUME ~disturbed' PROVE Follows'
  <2>1. Follows /\ (Deposit!Waits' <=> Deposit!Waits)
    BY <1>1, <1>4, <1>5 DEF DepositInv, Deposit!Waits
  <2>2. session.step \notin {"receipt", "photo"}
    BY <1>4, <1>5
  <2> QED
    BY <1>1, <1>2, <1>3, <2>1, <2>2 DEF Follows
<1>6. session.step \in {"receipt", "photo"} =>
          "card" \in Ways /\ session.mablagh \in Least["card"]..Most["card"]
  BY DEF DepositInv, SessionOK
<1> QED
  BY <1>1, <1>3, <1>4, <1>5, <1>6, TypesAre, TalkKeeps

LEMMA TooLateKeeps ==
    ASSUME DepositAssumptions, DepositInv, NEW m \in Deposit!Messages, Deposit!TooLate(m)
    PROVE  DepositInv'
<1>1. Deposit!Pressed(m, {"menu", "coins"}) /\ session.step # "menu" /\ Deposit!Expires(m)
  BY DEF Deposit!TooLate
<1>2. chat["latest"].kind \in {"menu", "coins"} /\ session.step \in {"receipt", "photo"} => disturbed
  BY DEF DepositInv, Follows
<1>3. disturbed \/ m # "latest" \/ session.step \notin {"receipt", "photo"}
  BY <1>1, <1>2 DEF Deposit!Pressed
<1> QED
  BY <1>1, <1>3, ExpiresKeeps

LEMMA CryptoCoinsKeeps ==
    ASSUME DepositAssumptions, DepositInv, NEW m \in Deposit!Messages, Deposit!CryptoCoins(m)
    PROVE  DepositInv'
<1> DEFINE b == [chat[m] EXCEPT !.kind = "coins"]
<1>1. /\ Deposit!Shows(m, b) /\ Deposit!Notes(m) /\ session.step = "menu" /\ chat[m].kind = "menu"
      /\ UNCHANGED <<wallet, enabled, number, session, record, payments>>
  BY DEF Deposit!CryptoCoins, Deposit!Keeps, Deposit!Pressed
<1>2. b \in MessageType /\ b.kind = "coins" /\ b.of = chat[m].of /\ b.amount = chat[m].amount
  BY TypesAre DEF MessageType, MessageKinds
<1> HIDE DEF b
<1>3. chat' \in [Deposit!Messages -> MessageType] /\ chat'["latest"] = b
  BY <1>1, <1>2, TypesAre, ShowsIs
<1>4. disturbed' \in BOOLEAN /\ (~disturbed' => ~disturbed /\ m = "latest")
  BY <1>1, TypesAre, NotesIs
<1>5. ASSUME ~disturbed' PROVE Follows'
  <2>1. Follows /\ (Deposit!Waits' <=> Deposit!Waits) /\ m = "latest"
    BY <1>1, <1>4, <1>5 DEF DepositInv, Deposit!Waits
  <2> QED
    BY <1>1, <1>2, <1>3, <2>1 DEF Follows
<1>6. session'.step \notin {"receipt", "photo"}
  BY <1>1
<1> QED
  BY <1>1, <1>3, <1>4, <1>5, <1>6, TypesAre, TalkKeeps

LEMMA ChoosesKeeps ==
    ASSUME DepositAssumptions, DepositInv, NEW m \in Deposit!Messages, NEW w,
           Deposit!Pressed(m, {"menu", "coins"}), Deposit!Chooses(m, w)
    PROVE  DepositInv'
<1>0. session.step = "menu" /\ w \in Ways /\ chat[m].kind \in {"menu", "coins"}
  BY DEF Deposit!Chooses, Deposit!Pressed
<1>1. CASE session.active
  <2> DEFINE amount == Deposit!Clamp(w, session.mablagh)
             told == Deposit!Clamp(w, chat[m].amount)
             of == chat[m].of
             fair == ~disturbed /\ m = "latest"
  <2>1. Deposit!Invoice(w, amount, told, of, fair)
    BY <1>1 DEF Deposit!Chooses
  <2>2. amount \in Least[w]..Most[w] /\ told \in Nat /\ of \in Some /\ fair \in BOOLEAN
    BY <1>0, ClampIs, TypesAre
  <2>3. fair => chat[m].amount = session.mablagh /\ of = record.of
    BY <1>0, <1>1 DEF DepositInv, Follows
  <2>4. fair => told = amount
    BY <2>3
  <2> HIDE DEF amount, told, of, fair
  <2> QED
    BY <1>0, <1>1, <2>1, <2>2, <2>3, <2>4, InvoiceKeeps
<1>2. CASE ~session.active
  <2>1. /\ session' = [session EXCEPT !.step = w] /\ Deposit!Shows(m, Deposit!Plain("ask")) /\ Deposit!Notes(m)
        /\ UNCHANGED <<wallet, enabled, number, record, payments>>
    BY <1>2 DEF Deposit!Chooses, Deposit!Keeps
  <2>2. Deposit!Plain("ask") \in MessageType /\ Deposit!Plain("ask").kind = "ask"
    BY ButtonsAre DEF MessageKinds
  <2>3. chat' \in [Deposit!Messages -> MessageType] /\ chat'["latest"] = Deposit!Plain("ask")
    BY <2>1, <2>2, TypesAre, ShowsIs
  <2>4. disturbed' \in BOOLEAN /\ (~disturbed' => ~disturbed /\ m = "latest")
    BY <2>1, TypesAre, NotesIs
  <2>5. w \in SessionSteps /\ w \notin {"home", "menu", "number", "receipt", "photo"}
    BY <1>0, DepositStepsAre
  <2>6. session' \in SessionType /\ session'.step = w /\ session'.active = session.active
    BY <2>1, <2>5, TypesAre, StepIs
  <2>7. ASSUME ~disturbed' PROVE Follows'
    <3>1. ~Deposit!Waits'
      BY <1>0, <1>2, <2>1, <2>4, <2>7 DEF DepositInv, Follows, Deposit!Waits
    <3> QED
      BY <2>5, <2>6, <3>1 DEF Follows
  <2>8. session'.step \notin {"receipt", "photo"}
    BY <2>5, <2>6
  <2> QED
    BY <2>1, <2>3, <2>4, <2>6, <2>7, <2>8, TypesAre, TalkKeeps
<1> QED
  BY <1>1, <1>2

LEMMA AmountKeeps ==
    ASSUME DepositAssumptions, DepositInv, NEW w \in {"crypto", "stars", "tonpays", "irgateway"},
           NEW a \in Typed, Deposit!Amount(w, a), w \in Ways
    PROVE  DepositInv'
<1>0. session.step = w /\ a \in Nat /\ Least[w] \in Nat /\ Most[w] \in Nat
  BY DEF Deposit!Amount, DepositAssumptions
<1>1. CASE a < Least[w] \/ a > Most[w]
  <2> DEFINE kind == IF w \in Deposit!Coins \cup {"stars"} THEN "error" ELSE "ask"
  <2>1. /\ Deposit!Answers(Deposit!Plain(kind))
        /\ UNCHANGED <<wallet, enabled, number, session, record, payments, disturbed>>
    BY <1>1 DEF Deposit!Amount, Deposit!Keeps
  <2>2. kind \in MessageKinds /\ kind \notin {"menu", "coins"}
    BY DEF MessageKinds
  <2> HIDE DEF kind
  <2>3. Deposit!Plain(kind) \in MessageType /\ Deposit!Plain(kind).kind = kind
    BY <2>2, ButtonsAre
  <2>4. chat' \in [Deposit!Messages -> MessageType] /\ chat'["latest"] = Deposit!Plain(kind)
    BY <2>1, <2>3, TypesAre, AnswersIs
  <2>5. session'.step \notin {"receipt", "photo"}
    BY <1>0, <2>1
  <2>6. ASSUME ~disturbed' PROVE Follows'
    <3>1. Follows /\ (Deposit!Waits' <=> Deposit!Waits)
      BY <2>1, <2>6 DEF DepositInv, Deposit!Waits
    <3> QED
      BY <2>1, <2>2, <2>3, <2>4, <2>5, <3>1 DEF Follows
  <2> QED
    BY <2>1, <2>4, <2>5, <2>6, TypesAre, TalkKeeps
<1>2. CASE ~(a < Least[w] \/ a > Most[w])
  <2>1. Deposit!Invoice(w, a, a, Deposit!None, ~disturbed) /\ a \in Least[w]..Most[w]
    BY <1>0, <1>2 DEF Deposit!Amount
  <2>2. (~disturbed) \in BOOLEAN /\ Deposit!None \in Some
    BY TypesAre, EmptyIs
  <2>3. ~disturbed => ~Deposit!Waits
    BY <1>0 DEF DepositInv, Follows
  <2> QED
    BY <1>0, <2>1, <2>2, <2>3, InvoiceKeeps
<1> QED
  BY <1>1, <1>2

LEMMA CardPressedKeeps ==
    ASSUME DepositAssumptions, DepositInv, NEW m \in Deposit!Messages, Deposit!CardPressed(m)
    PROVE  DepositInv'
<1>0. /\ session.step = "menu" /\ "card" \in Ways /\ chat[m].kind = "menu" /\ Deposit!Notes(m)
      /\ UNCHANGED <<wallet, enabled, number, record, payments>>
  BY DEF Deposit!CardPressed, Deposit!Keeps, Deposit!Pressed
<1>1. disturbed' \in BOOLEAN /\ (~disturbed' => ~disturbed /\ m = "latest")
  BY <1>0, TypesAre, NotesIs
<1>2. ~disturbed' => Follows /\ m = "latest" /\ (Deposit!Waits' <=> Deposit!Waits)
  BY <1>0, <1>1 DEF DepositInv, Deposit!Waits
<1>3. "number" \in SessionSteps /\ "receipt" \in SessionSteps /\ "card" \in SessionSteps
  BY <1>0, DepositStepsAre
<1>4. CASE session' = [session EXCEPT !.step = "number"] /\ Deposit!Answers(Deposit!Plain("home"))
  <2>1. /\ session' \in SessionType /\ session'.step = "number"
        /\ session'.active = session.active
    BY <1>3, <1>4, TypesAre, StepIs
  <2>2. Deposit!Plain("home") \in MessageType
    BY ButtonsAre DEF MessageKinds
  <2>3. chat' \in [Deposit!Messages -> MessageType]
    BY <1>4, <2>2, TypesAre, AnswersIs
  <2>4. Follows' /\ session'.step \notin {"receipt", "photo"}
    BY <2>1, HomeFollows
  <2> QED
    BY <1>0, <1>1, <2>1, <2>3, <2>4, TypesAre, TalkKeeps
<1>5. CASE /\ session.active
           /\ session' = [session EXCEPT !.step = "receipt",
                                         !.mablagh = Deposit!Clamp("card", session.mablagh)]
           /\ Deposit!Shows(m, Deposit!Buttons("card", chat[m].of, Deposit!Clamp("card", session.mablagh)))
  <2> DEFINE n == Deposit!Clamp("card", session.mablagh)
             b == Deposit!Buttons("card", chat[m].of, n)
  <2>1. n \in Nat /\ n \in Least["card"]..Most["card"]
    BY <1>0, TypesAre, ClampIs
  <2>2. session' = [session EXCEPT !.step = "receipt", !.mablagh = n] /\ Deposit!Shows(m, b)
    BY <1>5
  <2> HIDE DEF n
  <2>3. b \in MessageType /\ b.kind = "card" /\ b.of = chat[m].of /\ b.amount = n
    BY <2>1, TypesAre, ButtonsAre DEF MessageKinds
  <2> HIDE DEF b
  <2>4. /\ session' \in SessionType /\ session'.step = "receipt"
        /\ session'.active = session.active /\ session'.mablagh = n
    BY <1>3, <2>1, <2>2, TypesAre, TakesIs
  <2>5. chat' \in [Deposit!Messages -> MessageType] /\ chat'["latest"] = b
    BY <2>2, <2>3, TypesAre, ShowsIs
  <2>6. ASSUME ~disturbed' PROVE Follows'
    <3>1. chat["latest"].of = record.of /\ m = "latest"
      BY <1>0, <1>2, <1>5, <2>6 DEF Follows
    <3>2. session'.step \notin Ways \cup {"menu", "photo"}
      BY <2>4, DepositStepsAre
    <3> QED
      BY <1>0, <1>5, <2>3, <2>4, <2>5, <3>1, <3>2 DEF Follows
  <2> QED
    BY <1>0, <1>1, <1>5, <2>1, <2>4, <2>5, <2>6, TypesAre, TalkKeeps
<1>6. CASE /\ ~session.active
           /\ session' = [session EXCEPT !.step = "card"] /\ Deposit!Shows(m, Deposit!Plain("ask"))
  <2>1. /\ session' \in SessionType /\ session'.step = "card"
        /\ session'.active = session.active
    BY <1>3, <1>6, TypesAre, StepIs
  <2>2. Deposit!Plain("ask") \in MessageType /\ Deposit!Plain("ask").kind = "ask"
    BY ButtonsAre DEF MessageKinds
  <2>3. chat' \in [Deposit!Messages -> MessageType]
    BY <1>6, <2>2, TypesAre, ShowsIs
  <2>4. ASSUME ~disturbed' PROVE Follows'
    <3>1. ~Deposit!Waits'
      BY <1>0, <1>2, <1>6, <2>4 DEF Follows
    <3> QED
      BY <2>1, <3>1 DEF Follows
  <2>5. session'.step \notin {"receipt", "photo"}
    BY <2>1
  <2> QED
    BY <1>0, <1>1, <2>1, <2>3, <2>4, <2>5, TypesAre, TalkKeeps
<1> QED
  BY <1>4, <1>5, <1>6 DEF Deposit!CardPressed

LEMMA PhoneVerifyKeeps ==
    ASSUME DepositAssumptions, DepositInv, Deposit!PhoneVerify
    PROVE  DepositInv'
<1>1. /\ number' = TRUE /\ session' = [session EXCEPT !.step = "home"]
      /\ Deposit!Answers(Deposit!Plain("home"))
      /\ UNCHANGED <<record, payments, wallet, enabled, disturbed>>
  BY DEF Deposit!PhoneVerify
<1>2. "home" \in SessionSteps
  BY DepositStepsAre
<1>3. /\ session' \in SessionType /\ session'.step = "home"
      /\ session'.active = session.active
  BY <1>1, <1>2, TypesAre, StepIs
<1>4. Deposit!Plain("home") \in MessageType
  BY ButtonsAre DEF MessageKinds
<1>5. chat' \in [Deposit!Messages -> MessageType]
  BY <1>1, <1>4, TypesAre, AnswersIs
<1>6. Follows' /\ session'.step \notin {"receipt", "photo"}
  BY <1>3, HomeFollows
<1> QED
  BY <1>1, <1>3, <1>5, <1>6, TypesAre, TalkKeeps

LEMMA CardAmountKeeps ==
    ASSUME DepositAssumptions, DepositInv, NEW a \in Typed, Deposit!CardAmount(a)
    PROVE  DepositInv'
<1>0. /\ session.step = "card" /\ UNCHANGED <<wallet, enabled, number, record, payments, disturbed>>
      /\ (Deposit!Waits' <=> Deposit!Waits) /\ a \in Nat
  BY DEF Deposit!CardAmount, Deposit!Keeps, Deposit!Waits, DepositAssumptions
<1>1. "card" \in Ways /\ "receipt" \in SessionSteps
  BY <1>0, TypesAre, DepositStepsAre DEF SessionSteps
<1>2. ~disturbed => ~Deposit!Waits /\ ~session.active
  BY <1>0, <1>1 DEF DepositInv, Follows, SessionOK, Deposit!Waits
<1>3. CASE Deposit!Answers(Deposit!Plain("error")) /\ UNCHANGED session
  <2>1. Deposit!Plain("error") \in MessageType
    BY ButtonsAre DEF MessageKinds
  <2>2. chat' \in [Deposit!Messages -> MessageType]
    BY <1>3, <2>1, TypesAre, AnswersIs
  <2>3. session'.step = "card"
    BY <1>0, <1>3
  <2>4. ~disturbed' => Follows'
    BY <1>0, <1>2, <2>3 DEF Follows
  <2>5. session'.step \notin {"receipt", "photo"}
    BY <2>3
  <2> QED
    BY <1>0, <1>3, <2>2, <2>4, <2>5, TypesAre, TalkKeeps
<1>4. CASE /\ ~(a < Least["card"] \/ a > Most["card"])
           /\ session' = [session EXCEPT !.step = "receipt", !.mablagh = a]
           /\ Deposit!Answers(Deposit!Buttons("card", Deposit!None, a))
  <2> DEFINE b == Deposit!Buttons("card", Deposit!None, a)
  <2>1. b \in MessageType /\ b.kind = "card" /\ b.of = Deposit!None /\ b.amount = a
    BY <1>0, EmptyIs, ButtonsAre DEF MessageKinds
  <2>2. Deposit!Answers(b)
    BY <1>4
  <2> HIDE DEF b
  <2>3. /\ session' \in SessionType /\ session'.step = "receipt"
        /\ session'.active = session.active /\ session'.mablagh = a
    BY <1>0, <1>1, <1>4, TypesAre, TakesIs
  <2>4. chat' \in [Deposit!Messages -> MessageType] /\ chat'["latest"] = b
    BY <2>1, <2>2, TypesAre, AnswersIs
  <2>5. a \in Least["card"]..Most["card"]
    BY <1>0, <1>1, <1>4 DEF DepositAssumptions
  <2>6. ASSUME ~disturbed' PROVE Follows'
    <3>1. session'.step \notin Ways \cup {"menu", "photo"}
      BY <2>3, DepositStepsAre
    <3>2. ~Deposit!Waits' /\ ~session'.active
      BY <1>0, <1>2, <2>3, <2>6
    <3> QED
      BY <2>1, <2>3, <2>4, <3>1, <3>2 DEF Follows
  <2> QED
    BY <1>0, <1>1, <2>3, <2>4, <2>5, <2>6, TypesAre, TalkKeeps
<1> QED
  BY <1>3, <1>4 DEF Deposit!CardAmount

LEMMA SendPhotoKeeps ==
    ASSUME DepositAssumptions, DepositInv, NEW m \in Deposit!Messages, Deposit!SendPhoto(m)
    PROVE  DepositInv'
<1>0. chat[m].kind = "card"
  BY DEF Deposit!SendPhoto, Deposit!Pressed
<1>1. CASE session.step # "receipt"
  <2>1. Deposit!Expires(m)
    BY <1>1 DEF Deposit!SendPhoto
  <2>2. chat["latest"].kind # "photo" /\ session.step = "photo" => disturbed
    BY DEF DepositInv, Follows
  <2>3. disturbed \/ m # "latest" \/ session.step \notin {"receipt", "photo"}
    BY <1>0, <1>1, <2>2
  <2> QED
    BY <2>1, <2>3, ExpiresKeeps
<1>2. CASE session.step = "receipt"
  <2> DEFINE b == Deposit!Buttons("photo", chat[m].of, session.mablagh)
  <2>1. /\ session' = [session EXCEPT !.step = "photo"] /\ Deposit!Shows(m, b) /\ Deposit!Notes(m)
        /\ UNCHANGED <<wallet, enabled, number, record, payments>>
    BY <1>2 DEF Deposit!SendPhoto, Deposit!Keeps
  <2>2. b \in MessageType /\ b.kind = "photo" /\ b.of = chat[m].of /\ b.amount = session.mablagh
    BY TypesAre, ButtonsAre DEF MessageKinds
  <2> HIDE DEF b
  <2>3. chat' \in [Deposit!Messages -> MessageType] /\ chat'["latest"] = b
    BY <2>1, <2>2, TypesAre, ShowsIs
  <2>4. disturbed' \in BOOLEAN /\ (~disturbed' => ~disturbed /\ m = "latest")
    BY <2>1, TypesAre, NotesIs
  <2>5. "photo" \in SessionSteps
    BY DepositStepsAre
  <2>6. /\ session' \in SessionType /\ session'.step = "photo"
        /\ session'.active = session.active /\ session'.mablagh = session.mablagh
    BY <2>1, <2>5, TypesAre, StepIs
  <2>7. "card" \in Ways /\ session.mablagh \in Least["card"]..Most["card"]
    BY <1>2 DEF DepositInv, SessionOK
  <2>8. ASSUME ~disturbed' PROVE Follows'
    <3>1. session'.step \notin Ways \cup {"menu", "receipt"}
      BY <2>6, DepositStepsAre
    <3>2. Follows /\ (Deposit!Waits' <=> Deposit!Waits) /\ m = "latest"
      BY <2>1, <2>4, <2>8 DEF DepositInv, Deposit!Waits
    <3>3. IF session.active THEN b.of = record.of ELSE b.of = Deposit!None /\ ~Deposit!Waits
      BY <1>2, <2>2, <3>2 DEF Follows
    <3> QED
      BY <2>1, <2>2, <2>3, <2>6, <3>1, <3>2, <3>3 DEF Follows
  <2> QED
    BY <2>1, <2>3, <2>4, <2>6, <2>7, <2>8, TypesAre, TalkKeeps
<1> QED
  BY <1>1, <1>2

LEMMA PhotoKeeps ==
    ASSUME DepositAssumptions, DepositInv, Deposit!Photo
    PROVE  DepositInv'
<1> DEFINE fair == ~disturbed
           told == chat["latest"].amount
           of == chat["latest"].of
           pay == Deposit!Payment("card", session.mablagh, told, of, fair)
<1>0. /\ session.step = "photo" /\ session' = Deposit!Empty /\ disturbed' = FALSE
      /\ Deposit!Answers(Deposit!Plain("home"))
      /\ UNCHANGED <<wallet, enabled, number>>
  BY DEF Deposit!Photo, Deposit!Keeps
<1>1. Deposit!Plain("home") \in MessageType
  BY ButtonsAre DEF MessageKinds
<1>2. chat' \in [Deposit!Messages -> MessageType]
  BY <1>0, <1>1, TypesAre, AnswersIs
<1>3. session'.step = "home" /\ session' \in SessionType /\ ~session'.active
  BY <1>0, EmptyIs
<1>4. SessionOK' /\ Follows'
  BY <1>3, HomeFollows DEF SessionOK
<1>5. "card" \in Ways /\ session.mablagh \in Least["card"]..Most["card"]
  BY <1>0 DEF DepositInv, SessionOK
<1>6. /\ fair => told = session.mablagh
      /\ fair => IF session.active THEN of = record.of ELSE of = Deposit!None /\ ~Deposit!Waits
      /\ session.active => Deposit!Waits
  BY <1>0 DEF DepositInv, Follows, SessionOK, Deposit!Waits
<1>7. told \in Nat /\ of \in Some /\ fair \in BOOLEAN /\ record.topup \in Nat
  <2>1. "latest" \in Deposit!Messages
    BY DEF Deposit!Messages
  <2> QED
    BY <2>1, TypesAre DEF RecordType
<1>8. \/ /\ session.active \/ record # Deposit!NoRecord
         /\ Deposit!Links(pay)
      \/ /\ ~(session.active \/ record # Deposit!NoRecord)
         /\ payments' = Append(payments, pay) /\ UNCHANGED record
      \/ UNCHANGED <<record, payments>>
  BY DEF Deposit!Photo
<1> HIDE DEF fair, told, of
<1>9. /\ pay \in PaymentType /\ PayOK(pay) /\ pay.state = "open"
      /\ pay.amount = session.mablagh
      /\ pay.live => fair /\ of # Deposit!None
      /\ pay.told # 0 => fair
      /\ fair => pay.of = of
      /\ pay.whole => session.mablagh >= record.topup
  BY <1>5, <1>6, <1>7, PaymentIs
<1> HIDE DEF pay
<1>10. payments' \in Seq(PaymentType) /\ record' \in RecordType /\ RecordOK' /\ PaymentsOK'
  <2>0. DepositTyped /\ RecordOK /\ PaymentsOK /\ wallet' = wallet
    BY <1>0 DEF DepositInv
  <2>1. CASE Deposit!Links(pay)
    <3>1. pay.live => Deposit!Waits /\ pay.of = record.of /\ (pay.whole => pay.amount >= record.topup)
      BY <1>6, <1>9
    <3>2. Deposit!Waits /\ pay.told # 0 => pay.of = record.of
      BY <1>6, <1>9
    <3> QED
      BY <1>9, <2>0, <2>1, <3>1, <3>2, LinksKeeps
  <2>2. CASE /\ ~(session.active \/ record # Deposit!NoRecord)
             /\ payments' = Append(payments, pay) /\ UNCHANGED record
    <3>1. ~pay.live
      BY <1>6, <1>9, <2>2
    <3> QED
      BY <1>9, <2>0, <2>2, <3>1, OpenedKeeps, TypesAre
  <2>3. CASE UNCHANGED <<record, payments>>
    BY <2>0, <2>3, TypesAre DEF RecordOK, PaymentsOK, Deposit!Waits
  <2> QED
    BY <1>8, <2>1, <2>2, <2>3
<1>11. DepositTyped'
  BY <1>0, <1>2, <1>3, <1>10, TypesAre DEF DepositTyped
<1> QED
  BY <1>4, <1>10, <1>11 DEF DepositInv

LEMMA ReturnHomeKeeps ==
    ASSUME DepositAssumptions, DepositInv, NEW m \in Deposit!Messages, Deposit!ReturnHome(m)
    PROVE  DepositInv'
<1>1. /\ Deposit!Cancels /\ session' = Deposit!Empty /\ disturbed' = FALSE /\ Deposit!Answers(Deposit!Plain("home"))
      /\ UNCHANGED <<wallet, enabled, number>>
  BY DEF Deposit!ReturnHome, Deposit!Keeps
<1>2. Deposit!Plain("home") \in MessageType
  BY ButtonsAre DEF MessageKinds
<1>3. chat' \in [Deposit!Messages -> MessageType]
  BY <1>1, <1>2, TypesAre, AnswersIs
<1>4. session'.step = "home" /\ session' \in SessionType /\ ~session'.active
  BY <1>1, EmptyIs
<1>5. SessionOK' /\ Follows'
  BY <1>4, HomeFollows DEF SessionOK
<1>6. /\ payments' \in Seq(PaymentType) /\ record' \in RecordType
      /\ RecordOK' /\ PaymentsOK'
  BY <1>1, CancelsKeeps
<1>7. DepositTyped'
  BY <1>1, <1>3, <1>4, <1>6, TypesAre DEF DepositTyped
<1> QED
  BY <1>5, <1>6, <1>7 DEF DepositInv

LEMMA StartKeeps ==
    ASSUME DepositAssumptions, DepositInv, Deposit!Start
    PROVE  DepositInv'
<1>1. /\ session' = Deposit!Empty /\ disturbed' = FALSE /\ Deposit!Answers(Deposit!Plain("home"))
      /\ UNCHANGED <<wallet, enabled, number, record, payments>>
  BY DEF Deposit!Start, Deposit!Keeps
<1>2. Deposit!Plain("home") \in MessageType
  BY ButtonsAre DEF MessageKinds
<1>3. chat' \in [Deposit!Messages -> MessageType]
  BY <1>1, <1>2, TypesAre, AnswersIs
<1>4. session'.step = "home" /\ session' \in SessionType /\ ~session'.active
  BY <1>1, EmptyIs
<1>5. Follows' /\ session'.step \notin {"receipt", "photo"}
  BY <1>4, HomeFollows
<1> QED
  BY <1>1, <1>3, <1>4, <1>5, TypesAre, TalkKeeps

LEMMA LapseKeeps ==
    ASSUME DepositAssumptions, DepositInv, Deposit!Lapse
    PROVE  DepositInv'
<1>1. /\ session' = Deposit!Empty /\ disturbed' = TRUE
      /\ UNCHANGED <<wallet, enabled, number, record, payments, chat>>
  BY DEF Deposit!Lapse, Deposit!Keeps
<1>2. session'.step = "home" /\ session' \in SessionType /\ ~session'.active
  BY <1>1, EmptyIs
<1> QED
  BY <1>1, <1>2, TypesAre, TalkKeeps

LEMMA MenuAddBalanceKeeps ==
    ASSUME DepositAssumptions, DepositInv, Deposit!MenuAddBalance
    PROVE  DepositInv'
<1> DEFINE b == Deposit!Buttons("menu", Deposit!None, 0)
<1>1. /\ session' = [session EXCEPT !.step = "menu"] /\ Deposit!Answers(b)
      /\ disturbed' = (disturbed \/ session.active \/ Deposit!Waits)
      /\ UNCHANGED <<wallet, enabled, number, record, payments>>
  BY DEF Deposit!MenuAddBalance, Deposit!Keeps
<1>2. b \in MessageType
  BY EmptyIs, ButtonsAre DEF MessageKinds
<1> HIDE DEF b
<1>3. chat' \in [Deposit!Messages -> MessageType]
  BY <1>1, <1>2, TypesAre, AnswersIs
<1>4. "menu" \in SessionSteps
  BY DepositStepsAre
<1>5. /\ session' \in SessionType /\ session'.step = "menu"
      /\ session'.active = session.active
  BY <1>1, <1>4, TypesAre, StepIs
<1>6. ASSUME ~disturbed' PROVE Follows'
  <2>1. ~session'.active /\ ~Deposit!Waits'
    BY <1>1, <1>5, <1>6 DEF Deposit!Waits
  <2> QED
    BY <1>5, <2>1 DEF Follows
<1>7. disturbed' \in BOOLEAN
  BY <1>1, TypesAre DEF Deposit!Waits
<1> QED
  BY <1>1, <1>3, <1>5, <1>6, <1>7, TypesAre, TalkKeeps

LEMMA OrdersKeeps ==
    ASSUME DepositAssumptions, DepositInv, NEW p \in Purchases, Deposit!Orders(p)
    PROVE  DepositInv'
<1>1. CASE \E m \in Deposit!Messages : Deposit!StartTopup(m, p)
  BY <1>1, TopupKeeps DEF Deposit!Orders
<1>2. CASE /\ session' = [session EXCEPT !.step = "home",
                                         !.ready = IF p \in enabled THEN p ELSE @]
           /\ Deposit!Answers(Deposit!Buttons("short", p, 0))
           /\ UNCHANGED <<record, payments, disturbed>>
  <2> DEFINE ready == IF p \in enabled THEN p ELSE session.ready
             b == Deposit!Buttons("short", p, 0)
  <2>1. UNCHANGED <<wallet, enabled, number, record, payments, disturbed>> /\ Deposit!Answers(b)
    BY <1>2 DEF Deposit!Orders, Deposit!Keeps
  <2>2. p \in Some /\ ready \in Some /\ "home" \in SessionSteps
    BY TypesAre, DepositStepsAre DEF Some
  <2>3. session' = [session EXCEPT !.step = "home", !.ready = ready]
    BY <1>2
  <2> HIDE DEF ready
  <2>4. /\ session' \in SessionType /\ session'.step = "home"
        /\ session'.active = session.active
    BY <2>2, <2>3, TypesAre DEF SessionType
  <2>5. b \in MessageType
    BY <2>2, ButtonsAre DEF MessageKinds
  <2> HIDE DEF b
  <2>6. chat' \in [Deposit!Messages -> MessageType]
    BY <2>1, <2>5, TypesAre, AnswersIs
  <2>7. Follows' /\ session'.step \notin {"receipt", "photo"}
    BY <2>4, HomeFollows
  <2> QED
    BY <2>1, <2>4, <2>6, <2>7, TypesAre, TalkKeeps
<1> QED
  BY <1>1, <1>2 DEF Deposit!Orders

LEMMA TopUpKeeps ==
    ASSUME DepositAssumptions, DepositInv, NEW m \in Deposit!Messages, Deposit!TopUp(m)
    PROVE  DepositInv'
<1>1. CASE Deposit!Startable
  <2>1. Deposit!StartTopup(m, session.ready) /\ Deposit!Keeps /\ session.ready \in Purchases
        /\ wallet < Price[session.ready]
    BY <1>1, TypesAre DEF Deposit!TopUp, Deposit!Startable
  <2> QED
    BY <2>1, TopupKeeps
<1>2. CASE ~Deposit!Startable
  BY <1>2, ReturnKeeps DEF Deposit!TopUp
<1> QED
  BY <1>1, <1>2

\* A payment ends.
LEMMA SettledKeeps ==
    ASSUME DepositTyped, PaymentsOK, NEW i \in DOMAIN payments, NEW pay \in PaymentType,
           PayOK(pay), pay.state # "open", NEW forget \in BOOLEAN,
           payments' = [j \in DOMAIN payments |->
                           IF j = i THEN pay
                           ELSE IF forget THEN [payments[j] EXCEPT !.live = FALSE]
                           ELSE payments[j]],
           IF forget THEN ~Deposit!Waits' ELSE record' = record /\ ~Deposit!MakesFor(i)
    PROVE  payments' \in Seq(PaymentType) /\ Len(payments') = Len(payments) /\ PaymentsOK'
<1>1. /\ DOMAIN payments = 1..Len(payments) /\ Len(payments) \in Nat
      /\ payments \in Seq(PaymentType)
  BY DEF DepositTyped
<1>2. ASSUME NEW j \in DOMAIN payments
      PROVE  /\ payments'[j] \in PaymentType
             /\ PayOK(payments'[j])
             /\ LinkOK(j, payments'[j], record')
  <2>0. PayOK(payments[j]) /\ LinkOK(j, payments[j], record) /\ payments[j] \in PaymentType
    BY <1>1, PaymentHas DEF PaymentsOK
  <2>1. CASE j = i
    <3>1. payments'[j] = pay
      BY <2>1
    <3>2. LinkOK(i, pay, record')
      BY DEF LinkOK, Deposit!MakesFor, Deposit!Waits
    <3> QED
      BY <2>1, <3>1, <3>2
  <2>2. CASE j # i /\ ~forget
    <3>1. payments'[j] = payments[j] /\ record' = record
      BY <2>2
    <3> QED
      BY <2>0, <3>1
  <2>3. CASE j # i /\ forget
    <3> DEFINE y == [payments[j] EXCEPT !.live = FALSE]
    <3>1. payments'[j] = y
      BY <2>3
    <3>2. /\ y \in PaymentType /\ ~y.live /\ y.amount = payments[j].amount
          /\ y.way = payments[j].way /\ y.told = payments[j].told /\ y.state = payments[j].state
          /\ y.made = payments[j].made /\ y.of = payments[j].of
      BY <2>0 DEF PaymentType
    <3> HIDE DEF y
    <3>3. PayOK(y)
      BY <2>0, <3>2 DEF PayOK
    <3>4. LinkOK(j, y, record')
      BY <2>3, <3>2 DEF LinkOK, Deposit!Waits
    <3> QED
      BY <3>1, <3>2, <3>3, <3>4
  <2> QED
    BY <2>1, <2>2, <2>3
<1>3. payments' \in [1..Len(payments) -> PaymentType]
  BY <1>1, <1>2
<1>4. /\ payments' \in Seq(PaymentType) /\ Len(payments') = Len(payments)
      /\ DOMAIN payments' = DOMAIN payments
  BY <1>1, <1>3, SeqIs
<1>5. PaymentsOK'
  BY <1>2, <1>4 DEF PaymentsOK
<1> QED
  BY <1>4, <1>5

\* A confirmed payment, or one that ends otherwise, leaves the session and the chat alone.
LEMMA EndsKeep ==
    ASSUME DepositAssumptions, DepositInv, NEW i \in DOMAIN payments, wallet' \in Nat,
           UNCHANGED <<session, chat, enabled, number, disturbed>>,
           payments' \in Seq(PaymentType), Len(payments') = Len(payments), PaymentsOK',
           \/ record' = record /\ wallet' >= wallet
           \/ Deposit!MakesFor(i) /\ record' \in {Deposit!NoRecord, Deposit!Over}
    PROVE  DepositInv'
<1>1. record' \in RecordType /\ (Deposit!Waits' => Deposit!Waits /\ record' = record /\ wallet' >= wallet)
  BY TypesAre, EmptyIs DEF Deposit!Waits, Deposit!None
<1>2. i # 0
  BY TypesAre, PaymentHas
<1>3. session.active => record' = record
  BY <1>2 DEF DepositInv, SessionOK, Deposit!MakesFor
<1>4. DepositTyped'
  BY <1>1, TypesAre DEF DepositTyped
<1>5. RecordOK'
  <2>1. record'.tx <= Len(payments') /\ record'.order <= Len(payments')
    <3>1. Len(payments) \in Nat
      BY TypesAre
    <3> QED
      BY <3>1, EmptyIs DEF DepositInv, RecordOK
  <2>2. ASSUME Deposit!Waits'
        PROVE  record'.of \in Purchases /\ wallet' + record'.topup >= Price[record'.of]
    <3>1. Deposit!Waits /\ record' = record /\ wallet' >= wallet
      BY <1>1, <2>2
    <3>2. record.of \in Purchases /\ wallet + record.topup >= Price[record.of]
      BY <3>1 DEF DepositInv, RecordOK
    <3>3. wallet \in Nat /\ record.topup \in Nat /\ Price[record.of] \in Nat
      BY <3>2, TypesAre DEF RecordType, DepositAssumptions
    <3> QED
      BY <3>1, <3>2, <3>3
  <2> QED
    BY <2>1, <2>2 DEF RecordOK
<1>6. SessionOK'
  BY <1>3 DEF DepositInv, SessionOK
<1>7. ASSUME ~disturbed' PROVE Follows'
  <2>1. Follows
    BY <1>7 DEF DepositInv
  <2> QED
    BY <1>1, <1>3, <2>1 DEF Follows
<1> QED
  BY <1>4, <1>5, <1>6, <1>7 DEF DepositInv

LEMMA CreditKeeps ==
    ASSUME DepositAssumptions, DepositInv, NEW i \in DOMAIN payments, Deposit!Credit(i)
    PROVE  DepositInv'
<1> DEFINE sum == wallet + payments[i].amount
           After(state, made) == [payments[i] EXCEPT !.state = state, !.made = made]
<1>0. /\ payments[i].state = "open" /\ payments[i] \in PaymentType
      /\ UNCHANGED <<session, chat, enabled, number, disturbed>>
      /\ DOMAIN payments = 1..Len(payments)
  BY TypesAre, PaymentHas DEF Deposit!Credit
<1>1. PayOK(payments[i]) /\ LinkOK(i, payments[i], record) /\ DepositTyped /\ PaymentsOK
  BY DEF DepositInv, PaymentsOK
<1>2. /\ wallet \in Nat /\ payments[i].amount \in Nat /\ record.topup \in Nat
      /\ sum \in Nat /\ sum >= wallet
      /\ payments[i].live \in BOOLEAN /\ payments[i].whole \in BOOLEAN
  BY <1>0, TypesAre DEF PaymentType, RecordType
<1>3. Deposit!MakesFor(i) => /\ record.of \in Purchases /\ Price[record.of] \in Nat
                                             /\ wallet + record.topup >= Price[record.of]
  BY DEF Deposit!MakesFor, DepositInv, RecordOK, DepositAssumptions
<1>4. ASSUME NEW state \in {"credited", "short", "refused"}, NEW made \in Some
      PROVE  /\ After(state, made) \in PaymentType
             /\ After(state, made).state = state /\ After(state, made).made = made
             /\ After(state, made).amount = payments[i].amount
             /\ After(state, made).way = payments[i].way
             /\ After(state, made).told = payments[i].told
             /\ After(state, made).of = payments[i].of
             /\ After(state, made).whole = payments[i].whole
             /\ After(state, made).live = payments[i].live
  BY <1>0 DEF PaymentType
<1>5. payments[i].live => /\ Deposit!MakesFor(i) /\ payments[i].of = record.of
                          /\ payments[i].whole => payments[i].amount >= record.topup
  BY <1>0, <1>1 DEF LinkOK, Deposit!MakesFor, Deposit!Waits
<1>6. Deposit!MakesFor(i) /\ payments[i].told # 0 => payments[i].of = record.of
  BY <1>1 DEF LinkOK, Deposit!MakesFor, Deposit!Waits
<1>7. Deposit!None \in Some /\ (Deposit!MakesFor(i) => record.of \in Some)
  BY <1>3 DEF Some
<1>8. \/ /\ ~Deposit!MakesFor(i) /\ wallet' = sum
         /\ payments' = [payments EXCEPT ![i] = After("credited", Deposit!None)]
         /\ record' = record
      \/ /\ Deposit!MakesFor(i) /\ sum < Price[record.of] /\ wallet' = sum /\ record' = Deposit!Over
         /\ payments' = [Deposit!Forgotten(payments) EXCEPT ![i] = After("short", Deposit!None)]
      \/ /\ Deposit!MakesFor(i) /\ sum >= Price[record.of] /\ wallet' = sum /\ record' = Deposit!Over
         /\ payments' = [Deposit!Forgotten(payments) EXCEPT ![i] = After("refused", Deposit!None)]
      \/ /\ Deposit!MakesFor(i) /\ sum >= Price[record.of]
         /\ wallet' = sum - Price[record.of] /\ record' = Deposit!NoRecord
         /\ payments' = [Deposit!Forgotten(payments) EXCEPT ![i] = After("credited", record.of)]
  BY Zenon DEF Deposit!Credit
<1> HIDE DEF sum, After
<1>9. ASSUME NEW pay
      PROVE  /\ [payments EXCEPT ![i] = pay] =
                    [j \in DOMAIN payments |->
                        IF j = i THEN pay
                        ELSE IF FALSE THEN [payments[j] EXCEPT !.live = FALSE]
                        ELSE payments[j]]
             /\ [Deposit!Forgotten(payments) EXCEPT ![i] = pay] =
                    [j \in DOMAIN payments |->
                        IF j = i THEN pay
                        ELSE IF TRUE THEN [payments[j] EXCEPT !.live = FALSE]
                        ELSE payments[j]]
  BY DEF Deposit!Forgotten
<1>a. Deposit!NoRecord.status \notin {"pending", "linked"} /\ Deposit!Over.status \notin {"pending", "linked"}
  BY EmptyIs DEF Deposit!None
<1>10. CASE /\ ~Deposit!MakesFor(i) /\ wallet' = sum
            /\ payments' = [payments EXCEPT ![i] = After("credited", Deposit!None)]
            /\ record' = record
  <2> DEFINE pay == After("credited", Deposit!None)
  <2>1. pay \in PaymentType /\ pay.state # "open"
    BY <1>4, <1>7
  <2>2. PayOK(pay)
    BY <1>1, <1>4, <1>5, <1>7, <1>10 DEF PayOK
  <2> HIDE DEF pay
  <2>3. payments' = [j \in DOMAIN payments |->
                        IF j = i THEN pay
                        ELSE IF FALSE THEN [payments[j] EXCEPT !.live = FALSE]
                        ELSE payments[j]]
    BY <1>9, <1>10 DEF pay
  <2>4. payments' \in Seq(PaymentType) /\ Len(payments') = Len(payments) /\ PaymentsOK'
    BY <1>1, <1>10, <2>1, <2>2, <2>3, SettledKeeps
  <2> QED
    BY <1>0, <1>2, <1>10, <2>4, EndsKeep
<1>11. CASE /\ Deposit!MakesFor(i) /\ sum < Price[record.of] /\ wallet' = sum /\ record' = Deposit!Over
            /\ payments' = [Deposit!Forgotten(payments) EXCEPT ![i] = After("short", Deposit!None)]
  <2> DEFINE pay == After("short", Deposit!None)
  <2>1. pay \in PaymentType /\ pay.state # "open"
    BY <1>4, <1>7
  <2>2. payments[i].live => ~payments[i].whole
    BY <1>2, <1>3, <1>5, <1>11 DEF sum
  <2>3. PayOK(pay)
    BY <1>1, <1>4, <1>7, <2>2 DEF PayOK
  <2> HIDE DEF pay
  <2>4. ~Deposit!Waits'
    BY <1>11, <1>a DEF Deposit!Waits
  <2>5. payments' \in Seq(PaymentType) /\ Len(payments') = Len(payments) /\ PaymentsOK'
    BY <1>1, <1>9, <1>11, <2>1, <2>3, <2>4, SettledKeeps DEF pay
  <2> QED
    BY <1>0, <1>2, <1>11, <2>5, EndsKeep
<1>12. CASE /\ Deposit!MakesFor(i) /\ sum >= Price[record.of] /\ wallet' = sum /\ record' = Deposit!Over
            /\ payments' = [Deposit!Forgotten(payments) EXCEPT ![i] = After("refused", Deposit!None)]
  <2> DEFINE pay == After("refused", Deposit!None)
  <2>1. pay \in PaymentType /\ pay.state # "open"
    BY <1>4, <1>7
  <2>3. PayOK(pay)
    BY <1>1, <1>4, <1>7 DEF PayOK
  <2> HIDE DEF pay
  <2>4. ~Deposit!Waits'
    BY <1>12, <1>a DEF Deposit!Waits
  <2>5. payments' \in Seq(PaymentType) /\ Len(payments') = Len(payments) /\ PaymentsOK'
    BY <1>1, <1>9, <1>12, <2>1, <2>3, <2>4, SettledKeeps DEF pay
  <2> QED
    BY <1>0, <1>2, <1>12, <2>5, EndsKeep
<1>13. CASE /\ Deposit!MakesFor(i) /\ sum >= Price[record.of]
            /\ wallet' = sum - Price[record.of] /\ record' = Deposit!NoRecord
            /\ payments' = [Deposit!Forgotten(payments) EXCEPT ![i] = After("credited", record.of)]
  <2> DEFINE pay == After("credited", record.of)
  <2>1. pay \in PaymentType /\ pay.state # "open"
    BY <1>4, <1>7, <1>13
  <2>2. record.of \in Some
    BY <1>7, <1>13
  <2>3. PayOK(pay)
    BY <1>1, <1>4, <1>5, <1>6, <1>13, <2>2 DEF PayOK
  <2> HIDE DEF pay
  <2>4. ~Deposit!Waits'
    BY <1>13, <1>a DEF Deposit!Waits
  <2>f. payments' = [j \in DOMAIN payments |->
                        IF j = i THEN pay
                        ELSE IF TRUE THEN [payments[j] EXCEPT !.live = FALSE]
                        ELSE payments[j]]
    BY <1>9, <1>13 DEF pay
  <2>5. payments' \in Seq(PaymentType) /\ Len(payments') = Len(payments) /\ PaymentsOK'
    BY <1>1, <2>1, <2>3, <2>4, <2>f, SettledKeeps
  <2>6. wallet' \in Nat
    BY <1>2, <1>3, <1>13
  <2> QED
    BY <1>0, <1>13, <2>5, <2>6, EndsKeep
<1> QED
  BY <1>8, <1>10, <1>11, <1>12, <1>13

LEMMA ClosesKeeps ==
    ASSUME DepositAssumptions, DepositInv, NEW i \in DOMAIN payments, Deposit!Closes(i)
    PROVE  DepositInv'
<1> DEFINE pay == [payments[i] EXCEPT !.state = "closed"]
           less == [pay EXCEPT !.live = FALSE]
           closed == [payments EXCEPT ![i].state = "closed"]
<1>0. /\ payments[i].state = "open" /\ payments[i] \in PaymentType
      /\ UNCHANGED <<session, chat, wallet, enabled, number, disturbed>>
      /\ DOMAIN payments = 1..Len(payments)
      /\ \/ Deposit!MakesFor(i) /\ record' = Deposit!Over /\ payments' = Deposit!Forgotten(closed)
         \/ ~Deposit!MakesFor(i) /\ record' = record /\ payments' = closed
  BY TypesAre, PaymentHas DEF Deposit!Closes, Deposit!Keeps
<1>1. PayOK(payments[i]) /\ LinkOK(i, payments[i], record) /\ DepositTyped /\ PaymentsOK
  BY DEF DepositInv, PaymentsOK
<1>2. /\ pay \in PaymentType /\ pay.state = "closed" /\ pay.amount = payments[i].amount
      /\ pay.way = payments[i].way /\ pay.told = payments[i].told /\ pay.of = payments[i].of
      /\ pay.made = payments[i].made /\ pay.whole = payments[i].whole
      /\ pay.live = payments[i].live
  BY <1>0 DEF PaymentType
<1>3. /\ less \in PaymentType /\ less.state = "closed" /\ less.amount = payments[i].amount
      /\ less.way = payments[i].way /\ less.told = payments[i].told /\ less.of = payments[i].of
      /\ less.made = payments[i].made /\ ~less.live
  BY <1>2 DEF PaymentType
<1>4. closed = [payments EXCEPT ![i] = pay]
  OBVIOUS
<1> HIDE DEF pay, closed
<1>5. PayOK(pay) /\ PayOK(less)
  BY <1>0, <1>1, <1>2, <1>3 DEF PayOK
<1>6. payments' \in Seq(PaymentType) /\ Len(payments') = Len(payments) /\ PaymentsOK'
  <2>1. CASE Deposit!MakesFor(i) /\ record' = Deposit!Over /\ payments' = Deposit!Forgotten(closed)
    <3>1. payments' = [j \in DOMAIN payments |->
                          IF j = i THEN less
                          ELSE IF TRUE THEN [payments[j] EXCEPT !.live = FALSE]
                          ELSE payments[j]]
      BY <1>4, <2>1 DEF Deposit!Forgotten
    <3>2. ~Deposit!Waits'
      BY <2>1, EmptyIs DEF Deposit!Waits
    <3> HIDE DEF less
    <3> QED
      BY <1>1, <1>3, <1>5, <3>1, <3>2, SettledKeeps
  <2>2. CASE ~Deposit!MakesFor(i) /\ record' = record /\ payments' = closed
    <3>1. payments' = [j \in DOMAIN payments |->
                          IF j = i THEN pay
                          ELSE IF FALSE THEN [payments[j] EXCEPT !.live = FALSE]
                          ELSE payments[j]]
      BY <1>4, <2>2
    <3> QED
      BY <1>1, <1>2, <1>5, <2>2, <3>1, SettledKeeps
  <2> QED
    BY <1>0, <2>1, <2>2
<1>7. wallet' \in Nat /\ wallet' >= wallet
  BY <1>0, TypesAre
<1> QED
  BY <1>0, <1>6, <1>7, EndsKeep

-----------------------------------------------------------------------------
LEMMA DepositInitOK ==
    ASSUME DepositAssumptions, Deposit!Init
    PROVE  DepositInv
<1>1. DepositTyped
  <2>1. Deposit!Plain("home") \in MessageType
    BY ButtonsAre DEF MessageKinds
  <2>2. <<>> \in Seq(PaymentType)
    OBVIOUS
  <2>3. enabled \subseteq Purchases
    BY DEF Deposit!Init
  <2> QED
    BY <2>1, <2>2, <2>3, EmptyIs DEF Deposit!Init, DepositTyped
<1>2. RecordOK /\ PaymentsOK /\ SessionOK /\ ~Deposit!Waits
  BY EmptyIs DEF Deposit!Init, RecordOK, PaymentsOK, SessionOK, Deposit!Waits, Deposit!None
<1>3. Follows
  BY <1>2, EmptyIs, DepositStepsAre DEF Deposit!Init, Follows
<1> QED
  BY <1>1, <1>2, <1>3 DEF DepositInv

LEMMA DepositNextKeeps ==
    ASSUME DepositAssumptions, DepositInv, [Deposit!Next]_(Deposit!vars)
    PROVE  DepositInv'
<1>1. CASE UNCHANGED Deposit!vars
  BY <1>1 DEF Deposit!vars, DepositInv, DepositTyped, RecordOK, PaymentsOK, SessionOK, Follows,
     Deposit!Waits
<1>2. ASSUME NEW m \in Deposit!Messages, Deposit!MenuStep(m) PROVE DepositInv'
  <2>1. CASE Deposit!CryptoPressed(m) \/ Deposit!StarsPressed(m) \/ Deposit!TonPaysPressed(m) \/ Deposit!IrGatewayPressed(m)
    <3>1. /\ Deposit!Pressed(m, {"menu", "coins"})
          /\ Deposit!Chooses(m, "crypto") \/ Deposit!Chooses(m, "stars") \/ Deposit!Chooses(m, "tonpays")
                \/ Deposit!Chooses(m, "irgateway")
      BY <2>1 DEF Deposit!CryptoPressed, Deposit!StarsPressed, Deposit!TonPaysPressed,
         Deposit!IrGatewayPressed, Deposit!Pressed
    <3> QED
      BY <3>1, ChoosesKeeps
  <2>2. CASE Deposit!FlowCancel(m) \/ Deposit!BackFromCoins(m)
    BY <2>2, ReturnKeeps DEF Deposit!FlowCancel, Deposit!BackFromCoins
  <2> QED
    BY <1>2, <2>1, <2>2, TooLateKeeps, CryptoCoinsKeeps, CardPressedKeeps, SendPhotoKeeps,
       ReturnHomeKeeps, TopUpKeeps DEF Deposit!MenuStep
<1>3. ASSUME NEW a \in Typed, Deposit!TypedStep(a) PROVE DepositInv'
  <2>1. ASSUME NEW w \in {"crypto", "stars", "tonpays", "irgateway"}, Deposit!Amount(w, a)
        PROVE  DepositInv'
    <3>1. session.step = w
      BY <2>1 DEF Deposit!Amount
    <3>2. w \in Ways
      BY <3>1, TypesAre DEF SessionSteps
    <3> QED
      BY <2>1, <3>2, AmountKeeps
  <2> QED
    BY <1>3, <2>1, CardAmountKeeps
       DEF Deposit!TypedStep, Deposit!CryptoAmount, Deposit!StarsAmount, Deposit!TonPaysAmount, Deposit!IrGatewayAmount
<1>4. CASE Deposit!LegacyCancel
  BY <1>4, ReturnKeeps DEF Deposit!LegacyCancel
<1>5. CASE Deposit!MenuAddBalance \/ Deposit!PhoneVerify \/ Deposit!Photo \/ Deposit!Start \/ Deposit!Lapse
  BY <1>5, MenuAddBalanceKeeps, PhoneVerifyKeeps, PhotoKeeps, StartKeeps, LapseKeeps
<1>6. ASSUME NEW p \in Purchases, Deposit!Orders(p) PROVE DepositInv'
  BY <1>6, OrdersKeeps
<1>7. ASSUME NEW i \in DOMAIN payments, Deposit!Credit(i) \/ Deposit!Closes(i) PROVE DepositInv'
  BY <1>7, CreditKeeps, ClosesKeeps
<1> QED
  BY <1>1, <1>2, <1>3, <1>4, <1>5, <1>6, <1>7 DEF Deposit!Next

\* Every payment is within the limits of its way, who presses only the latest message pays
\* what it told and gets the purchase it showed when that is confirmed, whatever the
\* purchases, prices, limits and amounts: src/app/telegram/user/balance.
THEOREM DepositsKeepFaithAlways ==
    ASSUME DepositAssumptions
    PROVE  Deposit!Spec => []Deposit!DepositsKeepFaith
<1>1. DepositInv => Deposit!DepositsKeepFaith
  BY DEF DepositInv, PaymentsOK, PayOK, Deposit!DepositsKeepFaith
<1> QED
  BY <1>1, DepositInitOK, DepositNextKeeps, PTL DEF Deposit!Spec

-----------------------------------------------------------------------------
(***************************************************************************)
(* SendQueue, for any messages and any length of the list.  Among the      *)
(* messages that met no flood the order of the pushes leads from the right *)
(* end of the list over the worker to what was sent; one that met a flood  *)
(* may be put back anywhere.                                               *)
(***************************************************************************)
\* The outgoing messages are not those whose buttons the user presses.
CONSTANTS Outgoing, MAX_LEN, MAX_FAULTS
VARIABLES up, queue, state, floods, waits, trims, worker, pushed, sent, cut, faults

Queue == INSTANCE SendQueue WITH Messages <- Outgoing

QueueAssumptions == MAX_LEN \in Nat

WorkerPcs == {"idle", "send", "requeue", "defer", "trim"}

\* The types of the state.
QueueTyped ==
    /\ queue \in Seq(Outgoing) /\ pushed \in Seq(Outgoing) /\ sent \in Seq(Outgoing)
    /\ state \in [Outgoing -> {"new", "queued", "taken"} \cup Queue!Ended]
    /\ floods \in [Outgoing -> Nat]
    /\ waits \in [Outgoing -> BOOLEAN]
    /\ worker \in [pc : WorkerPcs, job : Outgoing \cup {Queue!NoMessage}]
    /\ cut \in [Outgoing -> SUBSET Outgoing]
    /\ faults \in Nat /\ up \in BOOLEAN

\* m is in the list s.
Within(s, m) == \E k \in DOMAIN s : s[k] = m

\* A message is in the list once or with the worker.
HeldOnce ==
    /\ \A i, j \in DOMAIN queue : queue[i] = queue[j] => i = j
    /\ \A i \in DOMAIN queue : state[queue[i]] = "queued"
    /\ worker.pc \in {"send", "requeue", "defer"} => Queue!Job \in Outgoing /\ state[Queue!Job] = "taken"

\* One that was put back, or that waits, met a flood.
PutBack ==
    /\ worker.pc \in {"requeue", "defer"} => floods[Queue!Job] > 0
    /\ \A m \in Outgoing : waits[m] => floods[m] > 0
    /\ ~up => faults > 0

\* Whatever was sent, is with the worker or is in the list was pushed.
AllPushed ==
    /\ \A i \in DOMAIN queue : Within(pushed, queue[i])
    /\ \A i \in DOMAIN sent : Within(pushed, sent[i])
    /\ worker.pc \in {"send", "requeue", "defer"} => Within(pushed, Queue!Job)

\* The order of the pushes leads from the list over the worker to what was sent.
ListOrder ==
    \A i, j \in DOMAIN queue :
        i < j /\ floods[queue[i]] = 0 /\ floods[queue[j]] = 0 => Queue!Before(pushed, queue[j], queue[i])
TakenOrder ==
    worker.pc = "send" /\ floods[Queue!Job] = 0 =>
        /\ \A i \in DOMAIN queue : floods[queue[i]] = 0 => Queue!Before(pushed, Queue!Job, queue[i])
        /\ \A i \in DOMAIN sent : floods[sent[i]] = 0 => Queue!Before(pushed, sent[i], Queue!Job)
SentOrder ==
    \A i \in DOMAIN sent, j \in DOMAIN queue :
        floods[sent[i]] = 0 /\ floods[queue[j]] = 0 => Queue!Before(pushed, sent[i], queue[j])

QueueParts == HeldOnce /\ PutBack /\ AllPushed /\ ListOrder /\ TakenOrder /\ SentOrder
QueueInv == QueueTyped /\ QueueParts /\ Queue!QueueKeepsOrder

-----------------------------------------------------------------------------
(* Lists of messages.                                                      *)

\* A message at the left end moves the others by one.
LEMMA PrependedMessage ==
    ASSUME NEW S, NEW q \in Seq(S), NEW m \in S
    PROVE  /\ <<m>> \o q \in Seq(S)
           /\ DOMAIN (<<m>> \o q) = 1..Len(q) + 1
           /\ (<<m>> \o q)[1] = m
           /\ \A i \in DOMAIN (<<m>> \o q) :
                i # 1 => i - 1 \in DOMAIN q /\ (<<m>> \o q)[i] = q[i - 1]
  OBVIOUS

\* A message at the right end leaves the others where they are.
LEMMA AppendedMessage ==
    ASSUME NEW S, NEW q \in Seq(S), NEW m \in S
    PROVE  /\ Append(q, m) \in Seq(S)
           /\ DOMAIN Append(q, m) = 1..Len(q) + 1
           /\ Append(q, m)[Len(q) + 1] = m
           /\ \A i \in DOMAIN q : i \in DOMAIN Append(q, m) /\ Append(q, m)[i] = q[i]
           /\ \A i \in DOMAIN Append(q, m) :
                i # Len(q) + 1 => i \in DOMAIN q /\ Append(q, m)[i] = q[i]
  OBVIOUS

\* The left part of a list.
LEMMA LeftPart ==
    ASSUME NEW S, NEW q \in Seq(S), NEW n \in Nat, n <= Len(q)
    PROVE  /\ SubSeq(q, 1, n) \in Seq(S)
           /\ DOMAIN SubSeq(q, 1, n) = 1..n
           /\ \A i \in 1..n : i \in DOMAIN q /\ SubSeq(q, 1, n)[i] = q[i]
  OBVIOUS

\* The order of a list outlives a message at its right end, and what is in the list is before it.
LEMMA BeforeAppended ==
    ASSUME NEW S, NEW p \in Seq(S), NEW x \in S
    PROVE  /\ \A m, n : Queue!Before(p, m, n) => Queue!Before(Append(p, x), m, n)
           /\ \A m : Within(p, m) => Queue!Before(Append(p, x), m, x)
<1>1. /\ Append(p, x) \in Seq(S)
      /\ DOMAIN Append(p, x) = 1..Len(p) + 1
      /\ Len(p) \in Nat /\ DOMAIN p = 1..Len(p)
      /\ Append(p, x)[Len(p) + 1] = x
      /\ \A i \in DOMAIN p : i \in DOMAIN Append(p, x) /\ Append(p, x)[i] = p[i]
  BY AppendedMessage
<1>2. Len(Append(p, x)) = Len(p) + 1
  BY <1>1
<1>3. ASSUME NEW m, NEW n, Queue!Before(p, m, n)
      PROVE  Queue!Before(Append(p, x), m, n)
  <2>1. PICK i, j \in 1..Len(p) : i < j /\ p[i] = m /\ p[j] = n
    BY <1>3 DEF Queue!Before
  <2> QED BY <2>1, <1>1, <1>2 DEF Queue!Before
<1>4. ASSUME NEW m, NEW k \in DOMAIN p, p[k] = m
      PROVE  Queue!Before(Append(p, x), m, x)
  <2>1. k \in 1..Len(p) + 1 /\ Len(p) + 1 \in 1..Len(p) + 1 /\ k < Len(p) + 1
    BY <1>1
  <2> QED BY <2>1, <1>1, <1>2, <1>4 DEF Queue!Before
<1> QED BY <1>3, <1>4 DEF Within

\* What is before another in the appended list is so in the list, or the other is the new end.
LEMMA BeforeInAppended ==
    ASSUME NEW S, NEW p \in Seq(S), NEW x \in S, NEW m, NEW n,
           Queue!Before(Append(p, x), m, n)
    PROVE  \/ Queue!Before(p, m, n)
           \/ n = x /\ Within(p, m)
<1>1. /\ Len(Append(p, x)) = Len(p) + 1
      /\ Len(p) \in Nat /\ DOMAIN p = 1..Len(p)
      /\ Append(p, x)[Len(p) + 1] = x
      /\ \A i \in DOMAIN p : Append(p, x)[i] = p[i]
  OBVIOUS
<1>2. PICK i, j \in 1..Len(p) + 1 : i < j /\ Append(p, x)[i] = m /\ Append(p, x)[j] = n
  BY <1>1 DEF Queue!Before
<1>3. i \in DOMAIN p /\ p[i] = m
  BY <1>1, <1>2
<1>4. CASE j = Len(p) + 1
  BY <1>1, <1>2, <1>3, <1>4 DEF Within
<1>5. CASE j # Len(p) + 1
  <2>1. j \in 1..Len(p) /\ i \in 1..Len(p) /\ p[j] = n
    BY <1>1, <1>2, <1>3, <1>5
  <2> QED BY <2>1, <1>2, <1>3 DEF Queue!Before
<1> QED BY <1>4, <1>5

\* LTRIM keeps the first MAX_LEN of a list without duplicates.
LEMMA KeptByCut ==
    ASSUME QueueAssumptions, NEW q \in Seq(Outgoing), Len(q) > MAX_LEN,
           \A i, j \in DOMAIN q : q[i] = q[j] => i = j
    PROVE  LET off == Queue!ToSet(SubSeq(q, MAX_LEN + 1, Len(q)))
           IN  /\ \A m : m \in off <=> \E j \in DOMAIN q : j > MAX_LEN /\ q[j] = m
               /\ \A m : m \in Queue!ToSet(q) \ off <=> \E i \in 1..MAX_LEN : q[i] = m
               /\ Queue!Cardinality(Queue!ToSet(q) \ off) = MAX_LEN
<1> DEFINE off == Queue!ToSet(SubSeq(q, MAX_LEN + 1, Len(q)))
           kept == Queue!ToSet(q) \ off
           f == [i \in 1..MAX_LEN |-> q[i]]
<1>1. MAX_LEN \in Nat /\ Len(q) \in Nat /\ DOMAIN q = 1..Len(q)
  BY DEF QueueAssumptions
<1>2. /\ DOMAIN SubSeq(q, MAX_LEN + 1, Len(q)) = 1..Len(q) - MAX_LEN
      /\ \A k \in 1..Len(q) - MAX_LEN :
            SubSeq(q, MAX_LEN + 1, Len(q))[k] = q[MAX_LEN + k]
  BY <1>1
<1>3. \A m : m \in off <=> \E j \in DOMAIN q : j > MAX_LEN /\ q[j] = m
  <2>1. ASSUME NEW m \in off
        PROVE  \E j \in DOMAIN q : j > MAX_LEN /\ q[j] = m
    <3>1. PICK k \in 1..Len(q) - MAX_LEN : m = q[MAX_LEN + k]
      BY <2>1, <1>2 DEF Queue!ToSet
    <3>2. MAX_LEN + k \in DOMAIN q /\ MAX_LEN + k > MAX_LEN
      BY <1>1
    <3> QED BY <3>1, <3>2
  <2>2. ASSUME NEW m, NEW j \in DOMAIN q, j > MAX_LEN, q[j] = m
        PROVE  m \in off
    <3>1. j - MAX_LEN \in 1..Len(q) - MAX_LEN /\ MAX_LEN + (j - MAX_LEN) = j
      BY <1>1, <2>2
    <3>2. SubSeq(q, MAX_LEN + 1, Len(q))[j - MAX_LEN] = m
      BY <1>2, <3>1, <2>2
    <3> QED BY <1>2, <3>1, <3>2 DEF Queue!ToSet
  <2> QED BY <2>1, <2>2
<1> HIDE DEF off
<1>4. \A m : m \in kept <=> \E i \in 1..MAX_LEN : q[i] = m
  <2>1. ASSUME NEW m \in kept
        PROVE  \E i \in 1..MAX_LEN : q[i] = m
    <3>1. PICK i \in DOMAIN q : q[i] = m
      BY <2>1 DEF Queue!ToSet
    <3>2. ~(i > MAX_LEN)
      BY <2>1, <1>3, <3>1
    <3> QED BY <1>1, <3>1, <3>2
  <2>2. ASSUME NEW m, NEW i \in 1..MAX_LEN, q[i] = m
        PROVE  m \in kept
    <3>1. i \in DOMAIN q
      BY <1>1
    <3>2. m \in Queue!ToSet(q)
      BY <3>1, <2>2 DEF Queue!ToSet
    <3>3. \A j \in DOMAIN q : q[j] = m => j = i
      BY <3>1, <2>2
    <3>4. m \notin off
      BY <1>3, <3>3, <1>1
    <3> QED BY <3>2, <3>4
  <2> QED BY <2>1, <2>2
<1> HIDE DEF kept
<1>5. f \in Bijection(1..MAX_LEN, kept)
  <2>1. f \in [1..MAX_LEN -> kept]
    BY <1>4
  <2>2. \A i, j \in 1..MAX_LEN : f[i] = f[j] => i = j
    BY <1>1
  <2>3. \A m \in kept : \E i \in 1..MAX_LEN : f[i] = m
    BY <1>4
  <2> QED BY <2>1, <2>2, <2>3 DEF Bijection, Injection, Surjection, IsInjective
<1>6. ExistsBijection(1..MAX_LEN, kept)
  BY <1>5 DEF ExistsBijection
<1>7. IsFiniteSet(1..MAX_LEN) /\ Cardinality(1..MAX_LEN) = MAX_LEN
  BY <1>1, FS_Interval
<1>8. Queue!Cardinality(kept) = MAX_LEN
  <2>1. Cardinality(kept) = MAX_LEN
    BY <1>6, <1>7, FS_Bijection
  <2> QED BY <2>1 DEF Cardinality, Queue!Cardinality
<1> QED BY <1>3, <1>4, <1>8 DEF off, kept

-----------------------------------------------------------------------------
(* The types, and what no step takes back.                                 *)

LEMMA QueueInitially == Queue!Init => QueueInv
<1> SUFFICES ASSUME Queue!Init PROVE QueueInv
  OBVIOUS
<1>1. QueueTyped
  BY DEF Queue!Init, QueueTyped, Queue!IdleWorker, WorkerPcs
<1>2. Len(sent) = 0 /\ DOMAIN queue = {} /\ DOMAIN sent = {}
  BY DEF Queue!Init
<1>3. QueueParts
  BY <1>2 DEF Queue!Init, Queue!IdleWorker, QueueParts, HeldOnce, PutBack, AllPushed, ListOrder,
     TakenOrder,
              SentOrder
<1>4. Queue!QueueKeepsOrder
  <2>1. Queue!InOrder
    BY <1>2 DEF Queue!InOrder, Queue!Before
  <2>2. Queue!CutsTheOldest /\ Queue!KeptUnlessFull
    BY DEF Queue!Init, Queue!CutsTheOldest, Queue!KeptUnlessFull, Queue!Calm
  <2> QED BY <2>1, <2>2 DEF Queue!QueueKeepsOrder
<1> QED BY <1>1, <1>3, <1>4 DEF QueueInv

\* The actions change the state within its types.
LEMMA QueueTypedKept ==
    ASSUME QueueAssumptions, QueueInv, [Queue!Next]_(Queue!vars)
    PROVE  QueueTyped'
<1> USE DEF QueueTyped, Queue!Ended, WorkerPcs, Queue!IdleWorker
<1>0. QueueTyped /\ HeldOnce /\ MAX_LEN \in Nat
  BY DEF QueueInv, QueueParts, QueueAssumptions
<1>1. ASSUME NEW m \in Outgoing, Queue!Push(m) PROVE QueueTyped'
  BY <1>0, <1>1 DEF Queue!Push, Queue!Becomes
<1>2. ASSUME NEW m \in Outgoing, Queue!PushFails(m) PROVE QueueTyped'
  BY <1>0, <1>2 DEF Queue!PushFails, Queue!Becomes, Queue!Fault
<1>3. ASSUME NEW m \in Outgoing, Queue!SendDirectly(m) PROVE QueueTyped'
  BY <1>0, <1>3 DEF Queue!SendDirectly, Queue!Becomes
<1>4. ASSUME NEW m \in Outgoing, Queue!Due(m) PROVE QueueTyped'
  BY <1>0, <1>4 DEF Queue!Due
<1>5. ASSUME Queue!Trims, UNCHANGED <<pushed, sent, floods, waits, faults, up>>,
             worker' = worker \/ worker' = Queue!IdleWorker
      PROVE  QueueTyped'
  <2>1. CASE UNCHANGED <<queue, state, cut>>
    BY <1>0, <1>5, <2>1
  <2>2. CASE Len(queue) > MAX_LEN /\ Queue!Cut
    <3>1. queue' \in Seq(Outgoing)
      BY <1>0, <2>2, LeftPart DEF Queue!Cut
    <3>2. state' \in [Outgoing -> {"new", "queued", "taken"} \cup Queue!Ended]
      BY <1>0, <2>2 DEF Queue!Cut
    <3>3. Queue!ToSet(queue) \subseteq Outgoing
      BY <1>0 DEF Queue!ToSet
    <3>4. cut' \in [Outgoing -> SUBSET Outgoing]
      BY <1>0, <2>2, <3>3 DEF Queue!Cut
    <3> QED BY <1>0, <1>5, <3>1, <3>2, <3>4
  <2> QED BY <1>5, <2>1, <2>2 DEF Queue!Trims
<1>6. CASE Queue!Trim
  BY <1>5, <1>6 DEF Queue!Trim
<1>7. CASE Queue!WorkerTrims
  BY <1>5, <1>7 DEF Queue!WorkerTrims
<1>8. CASE Queue!TrimFails
  BY <1>0, <1>8 DEF Queue!TrimFails, Queue!Fault
<1>9. CASE Queue!Take
  <2>1. Len(queue) \in Nat /\ Len(queue) > 0
    BY <1>0, <1>9 DEF Queue!Take
  <2>2. Queue!Last(queue) \in Outgoing
    BY <1>0, <2>1 DEF Queue!Last
  <2>3. Queue!Front(queue) \in Seq(Outgoing)
    BY <1>0, <2>1, LeftPart DEF Queue!Front
  <2> QED BY <1>0, <1>9, <2>2, <2>3 DEF Queue!Take, Queue!Becomes
<1>10. CASE Queue!Send
  BY <1>0, <1>10 DEF Queue!Send, Queue!Becomes, HeldOnce, Queue!Job
<1>11. CASE Queue!Flood
  <2>1. Queue!Job \in Outgoing
    BY <1>0, <1>11 DEF Queue!Flood, HeldOnce
  <2>2. floods' \in [Outgoing -> Nat]
    BY <1>0, <1>11, <2>1 DEF Queue!Flood
  <2>3. state' \in [Outgoing -> {"new", "queued", "taken"} \cup Queue!Ended]
    BY <1>0, <1>11 DEF Queue!Flood, Queue!Becomes
  <2>4. worker' \in [pc : WorkerPcs, job : Outgoing \cup {Queue!NoMessage}]
    BY <1>0, <1>11 DEF Queue!Flood, Queue!Goes
  <2> QED BY <1>0, <1>11, <2>2, <2>3, <2>4 DEF Queue!Flood
<1>12. CASE Queue!Requeue
  <2>1. Queue!Job \in Outgoing
    BY <1>0, <1>12 DEF Queue!Requeue, HeldOnce
  <2>2. queue' \in Seq(Outgoing)
    BY <1>0, <1>12, <2>1, PrependedMessage DEF Queue!Requeue
  <2>3. state' \in [Outgoing -> {"new", "queued", "taken"} \cup Queue!Ended]
    BY <1>0, <1>12 DEF Queue!Requeue, Queue!Becomes
  <2>4. waits' \in [Outgoing -> BOOLEAN]
    BY <1>0, <1>12 DEF Queue!Requeue
  <2>5. worker' \in [pc : WorkerPcs, job : Outgoing \cup {Queue!NoMessage}]
    BY <1>0, <1>12 DEF Queue!Requeue, Queue!Goes
  <2> QED BY <1>0, <1>12, <2>2, <2>3, <2>4, <2>5 DEF Queue!Requeue
<1>13. CASE Queue!Defer
  <2>1. Queue!Job \in Outgoing
    BY <1>0, <1>13 DEF Queue!Defer, HeldOnce
  <2>2. queue' \in Seq(Outgoing)
    BY <1>0, <1>13, <2>1, AppendedMessage DEF Queue!Defer
  <2>3. state' \in [Outgoing -> {"new", "queued", "taken"} \cup Queue!Ended]
    BY <1>0, <1>13 DEF Queue!Defer, Queue!Becomes
  <2>4. waits' \in [Outgoing -> BOOLEAN]
    BY <1>0, <1>13 DEF Queue!Defer
  <2>5. worker' \in [pc : WorkerPcs, job : Outgoing \cup {Queue!NoMessage}]
    BY <1>0, <1>13 DEF Queue!Defer, Queue!Goes
  <2> QED BY <1>0, <1>13, <2>2, <2>3, <2>4, <2>5 DEF Queue!Defer
<1>14. CASE Queue!WorkerFails
  <2>1. state' \in [Outgoing -> {"new", "queued", "taken"} \cup Queue!Ended]
    BY <1>0, <1>14 DEF Queue!WorkerFails, Queue!Becomes
  <2>2. faults' \in Nat
    BY <1>0, <1>14 DEF Queue!WorkerFails, Queue!Fault
  <2> QED BY <1>0, <1>14, <2>1, <2>2 DEF Queue!WorkerFails
<1>15. CASE Queue!Outage \/ Queue!Recover
  <2>1. up' = TRUE \/ up' = FALSE
    BY <1>15, Zenon DEF Queue!Outage, Queue!Recover
  <2>2. faults' \in Nat
    BY <1>0, <1>15 DEF Queue!Outage, Queue!Recover, Queue!Fault
  <2> QED BY <1>0, <1>15, <2>1, <2>2 DEF Queue!Outage, Queue!Recover
<1>16. CASE Queue!Restart
  BY <1>0, <1>16 DEF Queue!Restart, Queue!Fault
<1>17. CASE UNCHANGED Queue!vars
  BY <1>0, <1>17 DEF Queue!vars
<1> QED
  BY <1>1, <1>2, <1>3, <1>4, <1>6, <1>7, <1>8, <1>9, <1>10, <1>11, <1>12, <1>13, <1>14, <1>15,
     <1>16,
     <1>17 DEF Queue!Next, Queue!WorkerStep

\* What was pushed stays so, in its order, and a flood is never forgotten.
Onward ==
    /\ \A m, n : Queue!Before(pushed, m, n) => Queue!Before(pushed', m, n)
    /\ \A m : Within(pushed, m) => Within(pushed', m)
    /\ \A m \in Outgoing : floods'[m] = 0 => floods[m] = 0

LEMMA QueueOnward ==
    ASSUME QueueTyped, [Queue!Next]_(Queue!vars)
    PROVE  Onward
<1>1. CASE \E m \in Outgoing : Queue!Push(m)
  <2>1. PICK m \in Outgoing : Queue!Push(m)
    BY <1>1
  <2>2. pushed' = Append(pushed, m) /\ floods' = floods /\ pushed \in Seq(Outgoing)
    BY <2>1 DEF Queue!Push, QueueTyped
  <2>3. \A a, b : Queue!Before(pushed, a, b) => Queue!Before(pushed', a, b)
    BY <2>2, BeforeAppended
  <2>4. \A k \in DOMAIN pushed : k \in DOMAIN pushed' /\ pushed'[k] = pushed[k]
    BY <2>2, AppendedMessage
  <2>5. \A a : Within(pushed, a) => Within(pushed', a)
    BY <2>4 DEF Within
  <2> QED BY <2>2, <2>3, <2>5 DEF Onward
<1>2. CASE ~ \E m \in Outgoing : Queue!Push(m)
  <2>1. pushed' = pushed
    BY <1>2 DEF Queue!Next, Queue!WorkerStep, Queue!PushFails, Queue!SendDirectly, Queue!Due,
       Queue!Trim, Queue!TrimFails, Queue!Take, Queue!Send, Queue!Flood,
                Queue!Requeue, Queue!Defer, Queue!WorkerTrims, Queue!WorkerFails, Queue!Outage,
                Queue!Recover, Queue!Restart, Queue!vars
  <2>2. floods' = floods \/ Queue!Flood
    BY <1>2 DEF Queue!Next, Queue!WorkerStep, Queue!PushFails, Queue!SendDirectly, Queue!Due,
       Queue!Trim, Queue!TrimFails, Queue!Take, Queue!Send,
                Queue!Requeue, Queue!Defer, Queue!WorkerTrims, Queue!WorkerFails, Queue!Outage,
                Queue!Recover, Queue!Restart, Queue!vars
  <2>3. \A m \in Outgoing : floods'[m] = 0 => floods[m] = 0
    BY <2>2 DEF Queue!Flood, QueueTyped
  <2> QED BY <2>1, <2>3 DEF Onward, Within, Queue!Before
<1> QED BY <1>1, <1>2

-----------------------------------------------------------------------------
(* The steps.                                                              *)

\* What a step keeps that changes neither the lists nor what was cut.
LEMMA QueueFrame ==
    ASSUME QueueInv, QueueTyped', Onward,
           UNCHANGED <<queue, sent, cut>>,
           \/ worker' = worker \/ worker'.pc \in {"idle", "trim"}
           \/ worker'.pc = "requeue" /\ worker.pc = "send" /\ worker'.job = Queue!Job,
           \A m \in Outgoing : state'[m] = "cut" => state[m] = "cut"
    PROVE  AllPushed' /\ ListOrder' /\ TakenOrder' /\ SentOrder' /\ Queue!InOrder' /\ Queue!CutsTheOldest'
<1> USE DEF QueueInv, QueueParts
<1>1. /\ \A i \in DOMAIN queue : queue[i] \in Outgoing
      /\ \A i \in DOMAIN sent : sent[i] \in Outgoing
      /\ worker'.pc = "send" => worker' = worker /\ Queue!Job \in Outgoing
  BY DEF QueueTyped, HeldOnce, Queue!Job
<1>2. AllPushed'
  BY DEF AllPushed, Onward, Queue!Job
<1>3. ListOrder' /\ SentOrder'
  BY <1>1 DEF ListOrder, SentOrder, Onward
<1>4. TakenOrder'
  BY <1>1 DEF TakenOrder, Onward, Queue!Job
<1>5. Queue!InOrder'
  <2>1. ASSUME NEW m \in Queue!Calm', NEW n \in Queue!Calm', Queue!Before(sent', m, n) PROVE Queue!Before(pushed', m, n)
    <3>1. m \in Queue!Calm /\ n \in Queue!Calm /\ Queue!Before(sent, m, n)
      BY <2>1 DEF Queue!Calm, Onward
    <3> QED BY <3>1 DEF Queue!QueueKeepsOrder, Queue!InOrder, Onward
  <2> QED BY <2>1 DEF Queue!InOrder
<1>6. Queue!CutsTheOldest'
  <2>1. ASSUME NEW m \in Queue!Calm', state'[m] = "cut", NEW n \in cut'[m] \cap Queue!Calm'
        PROVE  Queue!Before(pushed', m, n)
    <3>1. m \in Queue!Calm /\ n \in Queue!Calm /\ state[m] = "cut" /\ n \in cut[m]
      BY <2>1 DEF Queue!Calm, Onward
    <3> QED BY <3>1 DEF Queue!QueueKeepsOrder, Queue!CutsTheOldest, Onward
  <2> QED BY <2>1 DEF Queue!CutsTheOldest
<1> QED BY <1>2, <1>3, <1>4, <1>5, <1>6

\* The other parts of the invariant after a step that leaves the lists alone.
LEMMA QueueFrameParts ==
    ASSUME QueueInv, QueueTyped', Onward,
           UNCHANGED <<queue, sent, cut>>,
           \/ worker' = worker \/ worker'.pc \in {"idle", "trim"}
           \/ worker'.pc = "requeue" /\ worker.pc = "send" /\ worker'.job = Queue!Job,
           \A m \in Outgoing : state'[m] = "cut" => state[m] = "cut",
           HeldOnce', PutBack', Queue!KeptUnlessFull'
    PROVE  (QueueParts /\ Queue!QueueKeepsOrder)'
  BY QueueFrame DEF QueueParts, Queue!QueueKeepsOrder

\* A message that fails, is sent without Redis or becomes due, and a cut that fails.
LEMMA QueueOutside ==
    ASSUME QueueAssumptions, QueueInv, QueueTyped', Onward,
           \/ \E m \in Outgoing : Queue!PushFails(m) \/ Queue!SendDirectly(m) \/ Queue!Due(m)
           \/ Queue!TrimFails \/ Queue!Outage \/ Queue!Recover
    PROVE  (QueueParts /\ Queue!QueueKeepsOrder)'
<1> USE DEF QueueInv, QueueParts
<1>0. /\ faults \in Nat /\ state \in [Outgoing -> {"new", "queued", "taken"} \cup Queue!Ended]
      /\ waits \in [Outgoing -> BOOLEAN]
      /\ \A i \in DOMAIN queue : queue[i] \in Outgoing
  BY DEF QueueTyped
<1>1. /\ UNCHANGED <<queue, sent, cut, worker, floods>>
      /\ \A m \in Outgoing : waits'[m] => waits[m]
  BY <1>0 DEF Queue!PushFails, Queue!SendDirectly, Queue!Due, Queue!TrimFails, Queue!Outage,
     Queue!Recover
<1>2. \A m \in Outgoing :
        \/ state'[m] = state[m]
        \/ state[m] = "new" /\ state'[m] = "refused" /\ faults' > 0
        \/ state[m] = "new" /\ state'[m] \in {"direct", "lost"} /\ ~up /\ faults' = faults
  BY <1>0 DEF Queue!PushFails, Queue!SendDirectly, Queue!Due, Queue!TrimFails, Queue!Outage,
     Queue!Recover, Queue!Becomes, Queue!Fault
<1>3. faults' >= faults /\ (~up' => ~up \/ faults' > 0) /\ faults' \in Nat
  BY <1>0 DEF Queue!PushFails, Queue!SendDirectly, Queue!Due, Queue!TrimFails, Queue!Outage,
     Queue!Recover, Queue!Fault
<1>4. HeldOnce'
  BY <1>0, <1>1, <1>2 DEF HeldOnce, Queue!Job
<1>5. PutBack'
  BY <1>0, <1>1, <1>3 DEF PutBack, Queue!Job
<1>6. Queue!KeptUnlessFull'
  BY <1>0, <1>1, <1>2, <1>3 DEF Queue!KeptUnlessFull, Queue!QueueKeepsOrder, PutBack
<1> QED BY <1>1, <1>2, <1>4, <1>5, <1>6, QueueFrameParts

\* A restart, and what fails while the worker holds a message.
LEMMA QueueLoses ==
    ASSUME QueueAssumptions, QueueInv, QueueTyped', Onward, Queue!WorkerFails \/ Queue!Restart
    PROVE  (QueueParts /\ Queue!QueueKeepsOrder)'
<1> USE DEF QueueInv, QueueParts
<1>0. /\ faults \in Nat /\ state \in [Outgoing -> {"new", "queued", "taken"} \cup Queue!Ended]
      /\ \A i \in DOMAIN queue : queue[i] \in Outgoing
  BY DEF QueueTyped
<1>1. UNCHANGED <<queue, sent, cut, floods, waits, up>> /\ worker' = Queue!IdleWorker
  BY DEF Queue!WorkerFails, Queue!Restart
<1>2. faults' >= faults /\ faults' > 0
  BY <1>0 DEF Queue!WorkerFails, Queue!Restart, Queue!Fault, PutBack
<1>3. \A m \in Outgoing :
        state'[m] = state[m] \/ (state[m] = "taken" /\ state'[m] = "lost")
  <2>1. CASE Queue!Restart
    BY <1>0, <2>1 DEF Queue!Restart
  <2>2. CASE Queue!WorkerFails /\ worker.pc = "trim"
    BY <1>0, <2>2 DEF Queue!WorkerFails
  <2>3. CASE Queue!WorkerFails /\ worker.pc # "trim"
    <3>1. Queue!Job \in Outgoing /\ state[Queue!Job] = "taken"
      BY <2>3 DEF Queue!WorkerFails, HeldOnce, QueueTyped, WorkerPcs
    <3> QED BY <1>0, <2>3, <3>1 DEF Queue!WorkerFails, Queue!Becomes
  <2> QED BY <2>1, <2>2, <2>3
<1>4. HeldOnce'
  BY <1>0, <1>1, <1>3 DEF HeldOnce, Queue!IdleWorker
<1>5. PutBack'
  BY <1>0, <1>1, <1>2 DEF PutBack, Queue!IdleWorker
<1>6. Queue!KeptUnlessFull'
  BY <1>0, <1>1, <1>2, <1>3 DEF Queue!KeptUnlessFull, Queue!QueueKeepsOrder
<1>7. worker'.pc = "idle"
  BY <1>1 DEF Queue!IdleWorker
<1> QED BY <1>1, <1>3, <1>4, <1>5, <1>6, <1>7, QueueFrameParts

\* A flood.
LEMMA QueueFloods ==
    ASSUME QueueAssumptions, QueueInv, QueueTyped', Onward, Queue!Flood
    PROVE  (QueueParts /\ Queue!QueueKeepsOrder)'
<1> USE DEF QueueInv, QueueParts
<1>0. /\ state \in [Outgoing -> {"new", "queued", "taken"} \cup Queue!Ended]
      /\ floods \in [Outgoing -> Nat]
      /\ worker \in [pc : WorkerPcs, job : Outgoing \cup {Queue!NoMessage}]
      /\ \A i \in DOMAIN queue : queue[i] \in Outgoing
      /\ Queue!Job \in Outgoing /\ state[Queue!Job] = "taken" /\ worker.pc = "send"
  BY DEF QueueTyped, HeldOnce, Queue!Flood
<1>1. UNCHANGED <<queue, sent, cut, waits, up, faults>>
  BY DEF Queue!Flood
<1>2. /\ floods'[Queue!Job] > 0
      /\ \A m \in Outgoing : m # Queue!Job => floods'[m] = floods[m]
  BY <1>0 DEF Queue!Flood
<1>3. \/ worker' = Queue!IdleWorker /\ \A m \in Outgoing :
            state'[m] = state[m] \/ (m = Queue!Job /\ state'[m] = "exhausted")
      \/ worker'.pc = "requeue" /\ worker'.job = Queue!Job /\ state' = state
  <2>1. CASE floods[Queue!Job] + 1 >= 3
    BY <1>0, <2>1 DEF Queue!Flood, Queue!Becomes
  <2>2. CASE ~(floods[Queue!Job] + 1 >= 3)
    BY <1>0, <2>2 DEF Queue!Flood, Queue!Goes, Queue!Job
  <2> QED BY <2>1, <2>2
<1>4. HeldOnce'
  <2>1. \A i \in DOMAIN queue : queue[i] # Queue!Job
    BY <1>0 DEF HeldOnce
  <2> QED BY <1>0, <1>1, <1>3, <2>1 DEF HeldOnce, Queue!IdleWorker, Queue!Job
<1>5. PutBack'
  BY <1>0, <1>1, <1>2, <1>3 DEF PutBack, Queue!IdleWorker, Queue!Job
<1>6. Queue!KeptUnlessFull'
  BY <1>0, <1>1, <1>3 DEF Queue!KeptUnlessFull, Queue!QueueKeepsOrder
<1>7. \A m \in Outgoing : state'[m] = "cut" => state[m] = "cut"
  BY <1>0, <1>3
<1>8. worker'.pc = "idle" \/ (worker'.pc = "requeue" /\ worker'.job = Queue!Job)
  BY <1>3 DEF Queue!IdleWorker
<1> QED BY <1>0, <1>1, <1>4, <1>5, <1>6, <1>7, <1>8, QueueFrameParts

\* A new message at the left end of the list.
LEMMA QueuePushes ==
    ASSUME QueueAssumptions, QueueInv, QueueTyped', Onward, NEW x \in Outgoing, Queue!Push(x)
    PROVE  (QueueParts /\ Queue!QueueKeepsOrder)'
<1> USE DEF QueueInv, QueueParts
<1>0. /\ queue \in Seq(Outgoing) /\ pushed \in Seq(Outgoing) /\ sent \in Seq(Outgoing)
      /\ state \in [Outgoing -> {"new", "queued", "taken"} \cup Queue!Ended]
      /\ \A i \in DOMAIN queue : queue[i] \in Outgoing
      /\ \A i \in DOMAIN sent : sent[i] \in Outgoing
      /\ DOMAIN queue = 1..Len(queue) /\ Len(queue) \in Nat
  BY DEF QueueTyped
<1>1. /\ queue' = <<x>> \o queue /\ pushed' = Append(pushed, x) /\ state[x] = "new"
      /\ state' = [state EXCEPT ![x] = "queued"]
      /\ UNCHANGED <<up, floods, waits, worker, sent, cut, faults>>
  BY DEF Queue!Push, Queue!Becomes
<1>2. /\ DOMAIN queue' = 1..Len(queue) + 1
      /\ queue'[1] = x
      /\ \A i \in DOMAIN queue' : i # 1 => i - 1 \in DOMAIN queue /\ queue'[i] = queue[i - 1]
  BY <1>0, <1>1, PrependedMessage
<1>3. \A m : Within(pushed, m) => Queue!Before(pushed', m, x)
  BY <1>0, <1>1, BeforeAppended DEF Within
<1>4. Within(pushed', x)
  <2>1. Len(pushed) + 1 \in DOMAIN pushed' /\ pushed'[Len(pushed) + 1] = x
    BY <1>0, <1>1
  <2> QED BY <2>1 DEF Within
<1>5. \A i \in DOMAIN queue : queue[i] # x
  BY <1>1 DEF HeldOnce
<1>6. HeldOnce'
  <2>1. \A i, j \in DOMAIN queue' : queue'[i] = queue'[j] => i = j
    <3>1. ASSUME NEW i \in DOMAIN queue', NEW j \in DOMAIN queue', queue'[i] = queue'[j]
          PROVE  i = j
      <4>1. CASE i = 1 \/ j = 1
        BY <1>2, <1>5, <3>1, <4>1
      <4>2. CASE i # 1 /\ j # 1
        <5>1. i - 1 = j - 1
          BY <1>2, <3>1, <4>2 DEF HeldOnce
        <5> QED BY <5>1, <1>0, <1>2
      <4> QED BY <4>1, <4>2
    <3> QED BY <3>1
  <2>2. \A i \in DOMAIN queue' : state'[queue'[i]] = "queued"
    BY <1>0, <1>1, <1>2 DEF HeldOnce
  <2>3. worker'.pc \in {"send", "requeue", "defer"} => Queue!Job' \in Outgoing /\ state'[Queue!Job'] = "taken"
    BY <1>0, <1>1 DEF HeldOnce, Queue!Job
  <2> QED BY <2>1, <2>2, <2>3 DEF HeldOnce
<1>7. PutBack'
  BY <1>1 DEF PutBack, Queue!Job
<1>8. AllPushed'
  <2>1. \A i \in DOMAIN queue' : Within(pushed', queue'[i])
    BY <1>2, <1>4 DEF AllPushed, Onward
  <2>2. /\ \A i \in DOMAIN sent' : Within(pushed', sent'[i])
        /\ worker'.pc \in {"send", "requeue", "defer"} => Within(pushed', Queue!Job)
    BY <1>1 DEF AllPushed, Onward, Queue!Job
  <2> QED BY <1>1, <2>1, <2>2 DEF AllPushed, Queue!Job
<1>9. ListOrder'
  <2>1. ASSUME NEW i \in DOMAIN queue', NEW j \in DOMAIN queue', i < j,
               floods'[queue'[i]] = 0, floods'[queue'[j]] = 0
        PROVE  Queue!Before(pushed', queue'[j], queue'[i])
    <3>1. j # 1 /\ j - 1 \in DOMAIN queue /\ queue'[j] = queue[j - 1]
      BY <1>0, <1>2, <2>1
    <3>2. CASE i = 1
      BY <1>2, <1>3, <3>1, <3>2 DEF AllPushed
    <3>3. CASE i # 1
      <4>1. i - 1 \in DOMAIN queue /\ queue'[i] = queue[i - 1] /\ i - 1 < j - 1
        BY <1>0, <1>2, <2>1, <3>3
      <4>2. floods[queue[i - 1]] = 0 /\ floods[queue[j - 1]] = 0
        BY <1>1, <2>1, <3>1, <4>1
      <4> QED BY <3>1, <4>1, <4>2 DEF ListOrder, Onward
    <3> QED BY <3>2, <3>3
  <2> QED BY <2>1 DEF ListOrder
<1>10. TakenOrder'
  <2>1. ASSUME worker.pc = "send", floods[Queue!Job] = 0
        PROVE  /\ \A i \in DOMAIN queue' : floods'[queue'[i]] = 0 => Queue!Before(pushed', Queue!Job, queue'[i])
               /\ \A i \in DOMAIN sent : floods'[sent[i]] = 0 => Queue!Before(pushed', sent[i], Queue!Job)
    <3>1. ASSUME NEW i \in DOMAIN queue', floods'[queue'[i]] = 0 PROVE Queue!Before(pushed', Queue!Job, queue'[i])
      <4>1. CASE i = 1
        BY <1>2, <1>3, <2>1, <4>1 DEF AllPushed
      <4>2. CASE i # 1
        BY <1>1, <1>2, <2>1, <3>1, <4>2 DEF TakenOrder, Onward
      <4> QED BY <4>1, <4>2
    <3> QED BY <3>1, <2>1, <1>1 DEF TakenOrder, Onward
  <2> QED BY <2>1, <1>1 DEF TakenOrder, Queue!Job
<1>11. SentOrder'
  <2>1. ASSUME NEW i \in DOMAIN sent, NEW j \in DOMAIN queue', floods[sent[i]] = 0,
               floods'[queue'[j]] = 0
        PROVE  Queue!Before(pushed', sent[i], queue'[j])
    <3>1. CASE j = 1
      BY <1>2, <1>3, <3>1 DEF AllPushed
    <3>2. CASE j # 1
      BY <1>1, <1>2, <2>1, <3>2 DEF SentOrder, Onward
    <3> QED BY <3>1, <3>2
  <2> QED BY <2>1, <1>1 DEF SentOrder
<1>12. Queue!QueueKeepsOrder'
  <2>1. Queue!InOrder'
    BY <1>1 DEF Queue!QueueKeepsOrder, Queue!InOrder, Onward, Queue!Calm
  <2>2. Queue!CutsTheOldest'
    BY <1>0, <1>1 DEF Queue!QueueKeepsOrder, Queue!CutsTheOldest, Onward, Queue!Calm
  <2>3. Queue!KeptUnlessFull'
    BY <1>0, <1>1 DEF Queue!QueueKeepsOrder, Queue!KeptUnlessFull
  <2> QED BY <2>1, <2>2, <2>3 DEF Queue!QueueKeepsOrder
<1> QED BY <1>6, <1>7, <1>8, <1>9, <1>10, <1>11, <1>12

\* A message that met a flood is put back at the left end, or one taken too early at the right.
LEMMA QueuePutsBack ==
    ASSUME QueueAssumptions, QueueInv, QueueTyped', Onward, Queue!Requeue \/ Queue!Defer
    PROVE  (QueueParts /\ Queue!QueueKeepsOrder)'
<1> USE DEF QueueInv, QueueParts
<1> DEFINE x == Queue!Job
<1>0. /\ queue \in Seq(Outgoing) /\ sent \in Seq(Outgoing)
      /\ state \in [Outgoing -> {"new", "queued", "taken"} \cup Queue!Ended]
      /\ waits \in [Outgoing -> BOOLEAN] /\ floods \in [Outgoing -> Nat]
      /\ worker \in [pc : WorkerPcs, job : Outgoing \cup {Queue!NoMessage}]
      /\ \A i \in DOMAIN queue : queue[i] \in Outgoing
      /\ \A i \in DOMAIN sent : sent[i] \in Outgoing
      /\ DOMAIN queue = 1..Len(queue) /\ Len(queue) \in Nat
  BY DEF QueueTyped
<1>1. /\ worker.pc \in {"send", "requeue", "defer"}
      /\ x \in Outgoing /\ state[x] = "taken" /\ floods[x] > 0 /\ Within(pushed, x)
  BY DEF Queue!Requeue, Queue!Defer, HeldOnce, PutBack, AllPushed
<1>2. /\ state' = [state EXCEPT ![x] = "queued"]
      /\ worker'.pc = "trim"
      /\ UNCHANGED <<up, floods, pushed, sent, cut, faults>>
      /\ \A m \in Outgoing : waits'[m] => waits[m] \/ m = x
  BY <1>0, <1>1 DEF Queue!Requeue, Queue!Defer, Queue!Becomes, Queue!Goes
<1>3. /\ \A i \in DOMAIN queue' :
            queue'[i] = x \/ \E k \in DOMAIN queue : queue'[i] = queue[k]
      /\ \A i, j \in DOMAIN queue' :
            \/ queue'[i] = x /\ queue'[j] = x /\ i = j
            \/ queue'[i] = x /\ queue'[j] # x
            \/ queue'[i] # x /\ queue'[j] = x
            \/ \E k, l \in DOMAIN queue :
                  /\ queue'[i] = queue[k] /\ queue'[j] = queue[l]
                  /\ i < j <=> k < l
                  /\ i = j <=> k = l
  <2>1. \A i \in DOMAIN queue : queue[i] # x
    BY <1>1 DEF HeldOnce
  <2>2. CASE Queue!Requeue
    <3>1. /\ DOMAIN queue' = 1..Len(queue) + 1
          /\ queue'[1] = x
          /\ \A i \in DOMAIN queue' : i # 1 => i - 1 \in DOMAIN queue /\ queue'[i] = queue[i - 1]
      BY <1>0, <1>1, <2>2, PrependedMessage DEF Queue!Requeue
    <3>2. \A i \in DOMAIN queue' : i \in Int
      BY <1>0, <3>1
    <3>3. \A i \in DOMAIN queue' : i # 1 => queue'[i] # x
      BY <2>1, <3>1
    <3>4. ASSUME NEW i \in DOMAIN queue', NEW j \in DOMAIN queue', i # 1, j # 1
          PROVE  \E k, l \in DOMAIN queue :
                    /\ queue'[i] = queue[k] /\ queue'[j] = queue[l]
                    /\ i < j <=> k < l
                    /\ i = j <=> k = l
      <4>1. i - 1 \in DOMAIN queue /\ j - 1 \in DOMAIN queue
        BY <3>1, <3>4
      <4>2. (i < j <=> i - 1 < j - 1) /\ (i = j <=> i - 1 = j - 1)
        BY <3>2
      <4> QED BY <3>1, <3>4, <4>1, <4>2
    <3> QED BY <3>1, <3>3, <3>4
  <2>3. CASE Queue!Defer
    <3>1. /\ DOMAIN queue' = 1..Len(queue) + 1
          /\ queue'[Len(queue) + 1] = x
          /\ \A i \in DOMAIN queue' :
                i # Len(queue) + 1 => i \in DOMAIN queue /\ queue'[i] = queue[i]
      BY <1>0, <1>1, <2>3, AppendedMessage DEF Queue!Defer
    <3>2. \A i \in DOMAIN queue' : i # Len(queue) + 1 => queue'[i] # x
      BY <2>1, <3>1
    <3> QED BY <3>1, <3>2
  <2> QED BY <2>2, <2>3
<1> HIDE DEF x
<1>4. HeldOnce'
  <2>1. \A i, j \in DOMAIN queue' : queue'[i] = queue'[j] => i = j
    <3>1. ASSUME NEW i \in DOMAIN queue', NEW j \in DOMAIN queue', queue'[i] = queue'[j]
          PROVE  i = j
      <4>1. CASE queue'[i] = x
        BY <1>3, <3>1, <4>1, <1>1 DEF HeldOnce
      <4>2. CASE queue'[i] # x
        BY <1>3, <3>1, <4>2 DEF HeldOnce
      <4> QED BY <4>1, <4>2
    <3> QED BY <3>1
  <2>2. \A i \in DOMAIN queue' : state'[queue'[i]] = "queued"
    BY <1>0, <1>1, <1>2, <1>3 DEF HeldOnce
  <2> QED BY <1>2, <2>1, <2>2 DEF HeldOnce
<1>5. PutBack'
  BY <1>1, <1>2 DEF PutBack
<1>6. AllPushed'
  BY <1>1, <1>2, <1>3 DEF AllPushed
<1>7. ListOrder'
  <2>1. ASSUME NEW i \in DOMAIN queue', NEW j \in DOMAIN queue', i < j,
               floods[queue'[i]] = 0, floods[queue'[j]] = 0
        PROVE  Queue!Before(pushed, queue'[j], queue'[i])
    <3>1. queue'[i] # x /\ queue'[j] # x
      BY <1>1, <2>1
    <3>2. PICK k \in DOMAIN queue, l \in DOMAIN queue :
             queue'[i] = queue[k] /\ queue'[j] = queue[l] /\ (i < j <=> k < l)
      BY <1>3, <3>1
    <3> QED BY <2>1, <3>2 DEF ListOrder
  <2> QED BY <1>2, <2>1 DEF ListOrder
<1>8. TakenOrder'
  BY <1>2 DEF TakenOrder
<1>9. SentOrder'
  BY <1>1, <1>2, <1>3 DEF SentOrder
<1>10. Queue!QueueKeepsOrder'
  <2>1. Queue!InOrder'
    BY <1>2 DEF Queue!QueueKeepsOrder, Queue!InOrder, Queue!Calm
  <2>2. Queue!CutsTheOldest' /\ Queue!KeptUnlessFull'
    BY <1>0, <1>1, <1>2 DEF Queue!QueueKeepsOrder, Queue!CutsTheOldest, Queue!KeptUnlessFull,
       Queue!Calm
  <2> QED BY <2>1, <2>2 DEF Queue!QueueKeepsOrder
<1> QED BY <1>4, <1>5, <1>6, <1>7, <1>8, <1>9, <1>10

\* The worker takes the right end, the oldest of those that met no flood.
LEMMA QueueTakes ==
    ASSUME QueueAssumptions, QueueInv, QueueTyped', Onward, Queue!Take
    PROVE  (QueueParts /\ Queue!QueueKeepsOrder)'
<1> USE DEF QueueInv, QueueParts
<1> DEFINE n == Len(queue)
           x == queue[n]
<1>0. /\ queue \in Seq(Outgoing)
      /\ state \in [Outgoing -> {"new", "queued", "taken"} \cup Queue!Ended]
      /\ waits \in [Outgoing -> BOOLEAN] /\ floods \in [Outgoing -> Nat]
      /\ \A i \in DOMAIN queue : queue[i] \in Outgoing
      /\ DOMAIN queue = 1..n /\ n \in Nat /\ n > 0
  BY DEF QueueTyped, Queue!Take
<1>1. n \in DOMAIN queue /\ x \in Outgoing /\ x = Queue!Last(queue)
  BY <1>0 DEF Queue!Last
<1>2. /\ queue' = SubSeq(queue, 1, n - 1)
      /\ worker' = [pc |-> IF waits[x] THEN "defer" ELSE "send", job |-> x]
      /\ state' = [state EXCEPT ![x] = "taken"]
      /\ UNCHANGED <<up, floods, waits, pushed, sent, cut, faults>>
  BY <1>1 DEF Queue!Take, Queue!Becomes, Queue!Front
<1>3. /\ DOMAIN queue' = 1..n - 1
      /\ \A i \in DOMAIN queue' : i \in DOMAIN queue /\ i < n /\ queue'[i] = queue[i]
  BY <1>0, <1>2, LeftPart
<1>4. worker'.job = x /\ (worker'.pc = "send" \/ (worker'.pc = "defer" /\ waits[x]))
  BY <1>2
<1> HIDE DEF n, x
<1>5. \A i \in DOMAIN queue' : queue'[i] # x /\ queue'[i] \in Outgoing
  <2>1. \A i \in DOMAIN queue : i # n => queue[i] # x
    BY <1>1 DEF HeldOnce, x
  <2>2. \A i \in DOMAIN queue' : i # n
    BY <1>0, <1>3
  <2> QED BY <1>0, <1>3, <2>1, <2>2
<1>6. HeldOnce'
  <2>1. \A i, j \in DOMAIN queue' : queue'[i] = queue'[j] => i = j
    BY <1>3 DEF HeldOnce
  <2>2. \A i \in DOMAIN queue' : state'[queue'[i]] = "queued"
    BY <1>0, <1>1, <1>2, <1>3, <1>5 DEF HeldOnce
  <2>3. Queue!Job' \in Outgoing /\ state'[Queue!Job'] = "taken"
    BY <1>0, <1>1, <1>2, <1>4 DEF Queue!Job
  <2> QED BY <2>1, <2>2, <2>3 DEF HeldOnce
<1>7. PutBack'
  BY <1>1, <1>2, <1>4 DEF PutBack, Queue!Job
<1>8. AllPushed'
  BY <1>1, <1>2, <1>3, <1>4 DEF AllPushed, Queue!Job, x
<1>9. ListOrder' /\ SentOrder'
  <2>1. ListOrder'
    BY <1>2, <1>3 DEF ListOrder
  <2>2. ASSUME NEW i \in DOMAIN sent, NEW j \in DOMAIN queue',
               floods[sent[i]] = 0, floods[queue'[j]] = 0
        PROVE  Queue!Before(pushed, sent[i], queue'[j])
    BY <1>3, <2>2 DEF SentOrder
  <2> QED BY <1>2, <2>1, <2>2 DEF SentOrder
<1>10. TakenOrder'
  <2>1. \A i \in DOMAIN queue' :
            floods[queue'[i]] = 0 /\ floods[x] = 0 => Queue!Before(pushed, x, queue'[i])
    BY <1>1, <1>3 DEF ListOrder, x
  <2>2. \A i \in DOMAIN sent : floods[sent[i]] = 0 /\ floods[x] = 0 => Queue!Before(pushed, sent[i], x)
    BY <1>1 DEF SentOrder, x
  <2> QED BY <1>2, <1>4, <2>1, <2>2 DEF TakenOrder, Queue!Job
<1>11. Queue!QueueKeepsOrder'
  <2>1. Queue!InOrder'
    BY <1>2 DEF Queue!QueueKeepsOrder, Queue!InOrder, Queue!Calm
  <2>2. Queue!CutsTheOldest' /\ Queue!KeptUnlessFull'
    BY <1>0, <1>1, <1>2 DEF Queue!QueueKeepsOrder, Queue!CutsTheOldest, Queue!KeptUnlessFull,
       Queue!Calm
  <2> QED BY <2>1, <2>2 DEF Queue!QueueKeepsOrder
<1> QED BY <1>6, <1>7, <1>8, <1>9, <1>10, <1>11

\* The worker sends what it took.
LEMMA QueueSends ==
    ASSUME QueueAssumptions, QueueInv, QueueTyped', Onward, Queue!Send
    PROVE  (QueueParts /\ Queue!QueueKeepsOrder)'
<1> USE DEF QueueInv, QueueParts
<1>0. /\ sent \in Seq(Outgoing)
      /\ state \in [Outgoing -> {"new", "queued", "taken"} \cup Queue!Ended]
      /\ \A i \in DOMAIN queue : queue[i] \in Outgoing
      /\ DOMAIN sent = 1..Len(sent) /\ Len(sent) \in Nat
      /\ Queue!Job \in Outgoing /\ state[Queue!Job] = "taken" /\ Within(pushed, Queue!Job) /\ worker.pc = "send"
  BY DEF QueueTyped, HeldOnce, AllPushed, Queue!Send
<1>1. /\ state' = [state EXCEPT ![Queue!Job] = "sent"] /\ sent' = Append(sent, Queue!Job)
      /\ worker'.pc = "idle"
      /\ UNCHANGED <<up, queue, floods, waits, pushed, cut, faults>>
  BY DEF Queue!Send, Queue!Becomes, Queue!IdleWorker
<1>2. \A i \in DOMAIN sent' : sent'[i] = Queue!Job \/ (i \in DOMAIN sent /\ sent'[i] = sent[i])
  BY <1>0, <1>1, AppendedMessage
<1>3. \A i \in DOMAIN queue : queue[i] # Queue!Job
  BY <1>0 DEF HeldOnce
<1>4. HeldOnce'
  BY <1>0, <1>1, <1>3 DEF HeldOnce
<1>5. PutBack'
  BY <1>1 DEF PutBack
<1>6. AllPushed'
  BY <1>0, <1>1, <1>2 DEF AllPushed
<1>7. ListOrder' /\ TakenOrder'
  BY <1>1 DEF ListOrder, TakenOrder
<1>8. SentOrder'
  <2>1. ASSUME NEW i \in DOMAIN sent', NEW j \in DOMAIN queue,
               floods[sent'[i]] = 0, floods[queue[j]] = 0
        PROVE  Queue!Before(pushed, sent'[i], queue[j])
    <3>1. CASE sent'[i] = Queue!Job
      BY <1>0, <2>1, <3>1 DEF TakenOrder
    <3>2. CASE sent'[i] # Queue!Job
      BY <1>2, <2>1, <3>2 DEF SentOrder
    <3> QED BY <3>1, <3>2
  <2> QED BY <1>1, <2>1 DEF SentOrder
<1>9. Queue!QueueKeepsOrder'
  <2>1. ASSUME NEW m \in Queue!Calm, NEW k \in Queue!Calm, Queue!Before(Append(sent, Queue!Job), m, k)
        PROVE  Queue!Before(pushed, m, k)
    <3>1. CASE Queue!Before(sent, m, k)
      BY <2>1, <3>1 DEF Queue!QueueKeepsOrder, Queue!InOrder
    <3>2. CASE k = Queue!Job /\ Within(sent, m)
      BY <1>0, <2>1, <3>2 DEF TakenOrder, Within, Queue!Calm
    <3> QED BY <1>0, <2>1, <3>1, <3>2, BeforeInAppended
  <2>2. Queue!InOrder'
    BY <1>1, <2>1 DEF Queue!InOrder, Queue!Calm
  <2>3. Queue!CutsTheOldest' /\ Queue!KeptUnlessFull'
    BY <1>0, <1>1 DEF Queue!QueueKeepsOrder, Queue!CutsTheOldest, Queue!KeptUnlessFull, Queue!Calm
  <2> QED BY <2>2, <2>3 DEF Queue!QueueKeepsOrder
<1> QED BY <1>4, <1>5, <1>6, <1>7, <1>8, <1>9

\* The cut takes the right end.
LEMMA QueueCuts ==
    ASSUME QueueAssumptions, QueueInv, QueueTyped', Onward, Len(queue) > MAX_LEN, Queue!Cut,
           UNCHANGED <<up, floods, waits, pushed, sent, faults>>,
           worker' = worker \/ worker'.pc = "idle"
    PROVE  (QueueParts /\ Queue!QueueKeepsOrder)'
<1> USE DEF QueueInv, QueueParts
<1> DEFINE off == Queue!ToSet(SubSeq(queue, MAX_LEN + 1, Len(queue)))
<1>0. /\ queue \in Seq(Outgoing) /\ MAX_LEN \in Nat
      /\ state \in [Outgoing -> {"new", "queued", "taken"} \cup Queue!Ended]
      /\ \A i \in DOMAIN queue : queue[i] \in Outgoing
      /\ DOMAIN queue = 1..Len(queue) /\ Len(queue) \in Nat
      /\ cut \in [Outgoing -> SUBSET Outgoing]
  BY DEF QueueTyped, QueueAssumptions
<1>1. /\ queue' = SubSeq(queue, 1, MAX_LEN)
      /\ state' = [m \in Outgoing |-> IF m \in off THEN "cut" ELSE state[m]]
      /\ cut' = [m \in Outgoing |-> IF m \in off THEN Queue!ToSet(queue) \ off ELSE cut[m]]
  BY DEF Queue!Cut
<1>2. /\ \A m : m \in off <=> \E j \in DOMAIN queue : j > MAX_LEN /\ queue[j] = m
      /\ \A m : m \in Queue!ToSet(queue) \ off <=> \E i \in 1..MAX_LEN : queue[i] = m
      /\ Queue!Cardinality(Queue!ToSet(queue) \ off) = MAX_LEN
  BY <1>0, KeptByCut DEF HeldOnce
<1> HIDE DEF off
<1>3. \A i \in DOMAIN queue' :
        i \in DOMAIN queue /\ i \in 1..MAX_LEN /\ queue'[i] = queue[i] /\ queue'[i] \notin off
  <2>1. DOMAIN queue' = 1..MAX_LEN /\ \A i \in 1..MAX_LEN : i \in DOMAIN queue /\ queue'[i] = queue[i]
    BY <1>0, <1>1, LeftPart
  <2> QED BY <1>2, <2>1
<1>4. \A m \in off : m \in Outgoing /\ state[m] = "queued"
  BY <1>0, <1>2 DEF HeldOnce
<1>5. worker'.pc \in {"send", "requeue", "defer"} => worker' = worker /\ Queue!Job \notin off
  BY <1>4 DEF HeldOnce
<1>6. HeldOnce'
  <2>1. \A i, j \in DOMAIN queue' : queue'[i] = queue'[j] => i = j
    BY <1>3 DEF HeldOnce
  <2>2. \A i \in DOMAIN queue' : state'[queue'[i]] = "queued"
    BY <1>0, <1>1, <1>3 DEF HeldOnce
  <2>3. worker'.pc \in {"send", "requeue", "defer"} => Queue!Job' \in Outgoing /\ state'[Queue!Job'] = "taken"
    BY <1>0, <1>1, <1>5 DEF HeldOnce, Queue!Job
  <2> QED BY <2>1, <2>2, <2>3 DEF HeldOnce
<1>7. PutBack'
  BY <1>5 DEF PutBack, Queue!Job
<1>8. AllPushed'
  BY <1>3, <1>5 DEF AllPushed, Queue!Job
<1>9. ListOrder' /\ SentOrder' /\ TakenOrder'
  BY <1>3, <1>5 DEF ListOrder, SentOrder, TakenOrder, Queue!Job
<1>10. Queue!InOrder'
  BY DEF Queue!QueueKeepsOrder, Queue!InOrder, Queue!Calm
<1>11. Queue!CutsTheOldest'
  <2>1. ASSUME NEW m \in Queue!Calm, state'[m] = "cut", NEW k \in cut'[m] \cap Queue!Calm
        PROVE  Queue!Before(pushed, m, k)
    <3>1. m \in Outgoing /\ k \in Outgoing /\ floods[m] = 0 /\ floods[k] = 0
      BY <2>1 DEF Queue!Calm
    <3>2. CASE m \in off
      <4>1. PICK j \in DOMAIN queue : j > MAX_LEN /\ queue[j] = m
        BY <1>2, <3>2
      <4>2. PICK i \in 1..MAX_LEN : queue[i] = k
        BY <1>1, <1>2, <2>1, <3>1, <3>2
      <4>3. i \in DOMAIN queue /\ i < j
        BY <1>0, <4>1
      <4> QED BY <3>1, <4>1, <4>2, <4>3 DEF ListOrder
    <3>3. CASE m \notin off
      BY <1>1, <2>1, <3>1, <3>3 DEF Queue!QueueKeepsOrder, Queue!CutsTheOldest
    <3> QED BY <3>2, <3>3
  <2> QED BY <2>1 DEF Queue!CutsTheOldest, Queue!Calm
<1>12. Queue!KeptUnlessFull'
  <2>1. ASSUME NEW m \in Outgoing
        PROVE  /\ state'[m] \in {"lost", "refused"} => faults > 0
               /\ state'[m] = "cut" => Queue!Cardinality(cut'[m]) = MAX_LEN
    <3>1. CASE m \in off
      BY <1>1, <1>2, <3>1
    <3>2. CASE m \notin off
      BY <1>1, <3>2 DEF Queue!QueueKeepsOrder, Queue!KeptUnlessFull
    <3> QED BY <3>1, <3>2
  <2> QED BY <2>1 DEF Queue!KeptUnlessFull
<1> QED BY <1>6, <1>7, <1>8, <1>9, <1>10, <1>11, <1>12 DEF Queue!QueueKeepsOrder

\* A cut with nothing to cut off, or one that takes the right end.
LEMMA QueueTrims ==
    ASSUME QueueAssumptions, QueueInv, QueueTyped', Onward, Queue!Trim \/ Queue!WorkerTrims
    PROVE  (QueueParts /\ Queue!QueueKeepsOrder)'
<1>1. /\ UNCHANGED <<up, floods, waits, pushed, sent, faults>>
      /\ worker' = worker \/ worker'.pc = "idle"
      /\ Queue!Trims
  BY DEF Queue!Trim, Queue!WorkerTrims, Queue!IdleWorker
<1>2. CASE Len(queue) > MAX_LEN /\ Queue!Cut
  BY <1>1, <1>2, QueueCuts
<1>3. CASE UNCHANGED <<queue, state, cut>>
  <2>1. HeldOnce' /\ PutBack' /\ Queue!KeptUnlessFull'
    BY <1>1, <1>3 DEF QueueInv, QueueParts, HeldOnce, PutBack, Queue!KeptUnlessFull,
       Queue!QueueKeepsOrder, Queue!Job
  <2> QED BY <1>1, <1>3, <2>1, QueueFrameParts
<1> QED BY <1>1, <1>2, <1>3 DEF Queue!Trims

\* In every execution the worker sends the messages that met no flood in the order in which
\* they were queued, the cut takes the oldest of them and only from a list that is full, and
\* nothing is lost without a fault or a third flood.
THEOREM QueueKeepsOrderAlways ==
    ASSUME QueueAssumptions
    PROVE  Queue!Spec => []Queue!QueueKeepsOrder
<1>1. Queue!Init => QueueInv
  BY QueueInitially
<1>2. QueueInv /\ [Queue!Next]_(Queue!vars) => QueueInv'
  <2> SUFFICES ASSUME QueueInv, [Queue!Next]_(Queue!vars) PROVE QueueInv'
    OBVIOUS
  <2>1. QueueTyped' /\ Onward
    BY QueueTypedKept, QueueOnward DEF QueueInv
  <2>2. (QueueParts /\ Queue!QueueKeepsOrder)'
    <3>1. CASE \E m \in Outgoing : Queue!Push(m)
      BY <2>1, <3>1, QueuePushes
    <3>2. CASE (\E m \in Outgoing : Queue!PushFails(m) \/ Queue!SendDirectly(m) \/ Queue!Due(m))
               \/ Queue!TrimFails \/ Queue!Outage \/ Queue!Recover
      BY <2>1, <3>2, QueueOutside
    <3>3. CASE Queue!Trim \/ Queue!WorkerTrims
      BY <2>1, <3>3, QueueTrims
    <3>4. CASE Queue!Take
      BY <2>1, <3>4, QueueTakes
    <3>5. CASE Queue!Send
      BY <2>1, <3>5, QueueSends
    <3>6. CASE Queue!Flood
      BY <2>1, <3>6, QueueFloods
    <3>7. CASE Queue!Requeue \/ Queue!Defer
      BY <2>1, <3>7, QueuePutsBack
    <3>8. CASE Queue!WorkerFails \/ Queue!Restart
      BY <2>1, <3>8, QueueLoses
    <3>9. CASE UNCHANGED Queue!vars
      BY <3>9 DEF Queue!vars, QueueInv, QueueParts, HeldOnce, PutBack, AllPushed, ListOrder,
         TakenOrder,
                  SentOrder, Queue!QueueKeepsOrder, Queue!InOrder, Queue!CutsTheOldest,
                  Queue!KeptUnlessFull, Queue!Calm, Queue!Job
    <3> QED BY <3>1, <3>2, <3>3, <3>4, <3>5, <3>6, <3>7, <3>8, <3>9 DEF Queue!Next, Queue!WorkerStep
  <2> QED BY <2>1, <2>2 DEF QueueInv
<1>3. QueueInv => Queue!QueueKeepsOrder
  BY DEF QueueInv
<1> QED BY <1>1, <1>2, <1>3, PTL DEF Queue!Spec

-----------------------------------------------------------------------------
(***************************************************************************)
(* Broadcast, for any broadcasts, users, size of a batch, lock, workers    *)
(* and commands.  For a broadcast that nothing disturbed there is one      *)
(* worker at most, and those who were sent it are those up to its cursor   *)
(* or, while a batch is under way, up to where this one stands.            *)
(***************************************************************************)
CONSTANTS Jobs, USERS, BATCH, Dialects, Admins, Ops, MAX_WORKERS, MAX_ORDERS
VARIABLES dialect, lock, held, task, status, runtime, cursor, cmd, got, blind, stranded, orders

\* The worker, the faults and what is disturbed have the names of SendQueue and Conversations.
Mail == INSTANCE Broadcast

\* Rows have positive ids, and there is room for one worker at least.
BroadcastAssumptions ==
    Jobs \subseteq Nat \ {0} /\ USERS \in Nat /\ BATCH \in Nat /\ MAX_WORKERS \in Nat \ {0}

Statuses ==
    {"new", "pending_confirm", "queued", "running", "paused", "done", "failed", "canceled", "gone"}
TaskPcs == {"none", "lock", "top", "send", "store", "next"}
CommandPcs ==
    Ops \cup {"idle", "begin", "queue", "replace", "start", "pausing", "telling", "cancelling"}

\* The types of the tasks and of the rows; a task and a command under way have a row.
TaskType == [pc : TaskPcs, job : Jobs \cup {0}, at : 0..USERS, upto : 0..USERS]
TasksTyped ==
    /\ worker \in [Mail!Workers -> TaskType]
    /\ \A w \in Mail!Workers : worker[w].pc = "none" <=> worker[w].job = 0
    /\ \A w \in Mail!Workers : worker[w].at <= worker[w].upto
    /\ task \in Mail!Workers \cup {0}
CommandsTyped ==
    /\ cmd \in [Admins -> [pc : CommandPcs, job : Jobs \cup {0}]]
    /\ \A a \in Admins : cmd[a].pc # "idle" => cmd[a].job \in Jobs
RowsTyped ==
    /\ status \in [Jobs -> Statuses]
    /\ cursor \in [Jobs -> 0..USERS]
    /\ got \in [Jobs -> [1..USERS -> 0..2]]
BroadcastTyped == TasksTyped /\ CommandsTyped /\ RowsTyped

\* Whom a batch has passed was sent the broadcast.
BatchSent ==
    \A w \in Mail!Workers : Mail!InBatch(w) => \A u \in 1..USERS : u <= worker[w].at => got[Mail!Job(w)][u] > 0

\* A broadcast nothing disturbed has one worker at most, and was sent once to those its batch,
\* or between two batches its cursor, has passed and to nobody else.
OneWorker(j) == \A v, w \in Mail!Workers : Mail!Job(v) = j /\ Mail!Job(w) = j => v = w
BatchBounds(j) ==
    \A w \in Mail!Workers : Mail!InBatch(w) /\ Mail!Job(w) = j =>
        \A u \in 1..USERS : u > worker[w].at => got[j][u] = 0
CursorBounds(j) ==
    status[j] # "gone" /\ (\A w \in Mail!Workers : Mail!InBatch(w) => Mail!Job(w) # j) =>
        \A u \in 1..USERS : u > cursor[j] => got[j][u] = 0
SentOnce(j) ==
    /\ OneWorker(j) /\ BatchBounds(j) /\ CursorBounds(j)
    /\ \A u \in 1..USERS : got[j][u] <= 1

BroadcastParts ==
    /\ BatchSent
    /\ \A j \in Jobs : j \in disturbed \/ SentOnce(j)
    /\ Mail!BroadcastReachesAll
BroadcastInv == BroadcastTyped /\ BroadcastParts

-----------------------------------------------------------------------------
(* The broadcast that runs, the next one, and the end of a batch.          *)

LEMMA LeastIsIn ==
    ASSUME NEW S, S \subseteq Nat, S # {}
    PROVE  Mail!Min(S) \in S /\ \A y \in S : Mail!Min(S) <= y
<1> DEFINE R == OpToRel(<, Nat)
<1>1. IsWellFoundedOn(R, Nat)
  BY NatLessThanWellFounded
<1>2. \A x, y \in Nat : y < x => <<y, x>> \in R
  BY DEF OpToRel
<1> HIDE DEF R
<1>3. PICK x \in S : \A y \in S : ~ (<<y, x>> \in R)
  BY <1>1, WFMin
<1>4. ASSUME NEW y \in S PROVE x <= y
  <2>1. x \in Nat /\ y \in Nat
    OBVIOUS
  <2>2. ~ (y < x)
    BY <1>2, <1>3, <2>1
  <2> QED BY <2>1, <2>2
<1>5. \E z \in S : \A y \in S : z <= y
  BY <1>4
<1> QED BY <1>5 DEF Mail!Min

LEMMA LeastOfTwo ==
    ASSUME NEW m \in Nat, NEW n \in Nat
    PROVE  Mail!Min({m, n}) = IF m <= n THEN m ELSE n
<1>1. Mail!Min({m, n}) \in {m, n} /\ Mail!Min({m, n}) <= m /\ Mail!Min({m, n}) <= n
  BY LeastIsIn
<1> QED BY <1>1

\* get_active_job answers a broadcast that runs, or 0.
LEMMA ActiveRuns ==
    ASSUME BroadcastAssumptions
    PROVE  Mail!Active = 0 \/ (Mail!Active \in Jobs /\ status[Mail!Active] = "running")
<1>1. CASE Mail!Cardinality(Mail!Running) = 1
  <2>1. Mail!Cardinality({}) = 0
    BY FS_EmptySet DEF Cardinality, Mail!Cardinality
  <2>2. Mail!Running # {}
    BY <1>1, <2>1
  <2>3. Mail!Active \in Mail!Running
    BY <1>1, <2>2 DEF Mail!Active
  <2> QED BY <2>3 DEF Mail!Running
<1>2. CASE Mail!Cardinality(Mail!Running) # 1
  BY <1>2 DEF Mail!Active
<1> QED BY <1>1, <1>2

\* The end of a batch lies between the cursor and the last target.
LEMMA BatchEnds ==
    ASSUME BroadcastAssumptions, BroadcastTyped, NEW w \in Mail!Workers, Mail!Job(w) \in Jobs
    PROVE  Mail!BatchEnd(w) \in 0..USERS /\ cursor[Mail!Job(w)] <= Mail!BatchEnd(w)
<1>1. cursor[Mail!Job(w)] \in 0..USERS
  BY DEF BroadcastTyped, TasksTyped, TaskType, RowsTyped
<1>2. cursor[Mail!Job(w)] + BATCH \in Nat /\ USERS \in Nat /\ cursor[Mail!Job(w)] + BATCH >= cursor[Mail!Job(w)]
  BY <1>1 DEF BroadcastAssumptions
<1>3. Mail!BatchEnd(w) = IF cursor[Mail!Job(w)] + BATCH <= USERS THEN cursor[Mail!Job(w)] + BATCH ELSE USERS
  BY <1>2, LeastOfTwo DEF Mail!BatchEnd
<1> QED BY <1>1, <1>2, <1>3

-----------------------------------------------------------------------------
(* What the tasks of a broadcast may do.                                   *)

\* A task cut off in a batch, and a second one for a broadcast, disturb it.
TasksQuiet ==
    /\ disturbed \subseteq disturbed'
    /\ \A v \in Mail!Workers :
        /\ Mail!InBatch(v)' => worker'[v] = worker[v]
        /\ Mail!InBatch(v) => worker'[v] = worker[v] \/ Mail!Job(v) \in disturbed'
    /\ \A v, u \in Mail!Workers :
        v # u /\ worker'[v].job = worker'[u].job /\ worker'[v].job # 0 =>
            \/ worker'[v].job \in disturbed'
            \/ worker[v].job = worker'[v].job /\ worker[u].job = worker'[v].job

\* What is gone stays so, and what is done has its cursor at the end or saw no targets.
StatusQuiet ==
    \A j \in Jobs :
        /\ status[j] = "gone" => status'[j] = "gone"
        /\ status'[j] = "done" => status[j] = "done" \/ j \in blind' \/ cursor[j] = USERS

\* A step that sends nothing and moves no cursor.
MailQuiet ==
    got' = got /\ cursor' = cursor /\ blind \subseteq blind' /\ TasksQuiet /\ StatusQuiet

LEMMA QuietKeeps ==
    ASSUME BroadcastAssumptions, BroadcastInv, BroadcastTyped', MailQuiet
    PROVE  BroadcastParts'
<1> USE DEF BroadcastInv, BroadcastParts, TasksQuiet, StatusQuiet
<1>0. /\ \A j \in Jobs : cursor[j] \in 0..USERS /\ \A u \in 1..USERS : got[j][u] \in 0..2
      /\ \A w \in Mail!Workers : worker[w].at \in 0..USERS
      /\ USERS \in Nat /\ 0 \notin Jobs
  BY DEF BroadcastTyped, TasksTyped, TaskType, RowsTyped, BroadcastAssumptions
<1>1. BatchSent'
  BY DEF BatchSent, MailQuiet, Mail!Job, Mail!InBatch
<1>2. ASSUME NEW j \in Jobs, j \notin disturbed'
      PROVE  SentOnce(j)'
  <2>1. j \notin disturbed /\ SentOnce(j)
    BY <1>2 DEF MailQuiet
  <2>2. OneWorker(j)'
    BY <1>0, <1>2, <2>1 DEF SentOnce, OneWorker, MailQuiet, Mail!Job
  <2>3. BatchBounds(j)'
    BY <1>2, <2>1 DEF SentOnce, BatchBounds, MailQuiet, Mail!Job, Mail!InBatch
  <2>4. CursorBounds(j)'
    <3> SUFFICES ASSUME status'[j] # "gone", \A w \in Mail!Workers : Mail!InBatch(w)' => Mail!Job(w)' # j,
                        NEW u \in 1..USERS, u > cursor[j]
                 PROVE  got[j][u] = 0
      BY DEF CursorBounds, MailQuiet
    <3>1. \A w \in Mail!Workers : Mail!InBatch(w) => Mail!Job(w) # j
      BY <1>2 DEF MailQuiet, Mail!Job, Mail!InBatch
    <3>2. status[j] # "gone"
      BY DEF MailQuiet
    <3> QED BY <2>1, <3>1, <3>2 DEF SentOnce, CursorBounds
  <2> QED BY <2>1, <2>2, <2>3, <2>4 DEF SentOnce, MailQuiet
<1>3. Mail!NobodySkipped'
  <2>1. ASSUME NEW j \in Jobs
        PROVE  /\ \A u \in 1..cursor[j] : got[j][u] > 0
               /\ status'[j] = "done" /\ j \notin blind' => \A u \in 1..USERS : got[j][u] > 0
    BY <1>0, <2>1 DEF Mail!BroadcastReachesAll, Mail!NobodySkipped, MailQuiet
  <2> QED BY <2>1 DEF Mail!NobodySkipped, MailQuiet
<1>4. Mail!TwiceOnlyIfDisturbed'
  BY DEF Mail!BroadcastReachesAll, Mail!TwiceOnlyIfDisturbed, MailQuiet
<1> QED BY <1>1, <1>2, <1>3, <1>4 DEF Mail!BroadcastReachesAll

-----------------------------------------------------------------------------
(* Tasks and commands change one at a time.                                *)

\* The task w ends, or goes on or begins outside a batch.
LEMMA OneTaskChanges ==
    ASSUME BroadcastAssumptions, TasksTyped, NEW w \in Mail!Workers, NEW r \in TaskType,
           worker' = [worker EXCEPT ![w] = r],
           r.pc = "none" <=> r.job = 0, r.at <= r.upto, r.pc \notin {"send", "store"},
           disturbed \subseteq disturbed',
           Mail!InBatch(w) => Mail!Job(w) \in disturbed',
           \/ r.job = 0 \/ r.job = Mail!Job(w) \/ r.job \in disturbed'
           \/ \A u \in Mail!Workers : Mail!Job(u) # r.job,
           task' \in Mail!Workers \cup {0}
    PROVE  TasksQuiet /\ TasksTyped'
<1>1. /\ worker' \in [Mail!Workers -> TaskType]
      /\ worker'[w] = r /\ \A v \in Mail!Workers : v # w => worker'[v] = worker[v]
  BY DEF TasksTyped
<1>2. TasksTyped'
  BY <1>1 DEF TasksTyped
<1>3. \A v \in Mail!Workers :
        /\ Mail!InBatch(v)' => worker'[v] = worker[v]
        /\ Mail!InBatch(v) => worker'[v] = worker[v] \/ Mail!Job(v) \in disturbed'
  BY <1>1 DEF Mail!InBatch
<1>4. ASSUME NEW v \in Mail!Workers, NEW u \in Mail!Workers,
             v # u, worker'[v].job = worker'[u].job, worker'[v].job # 0
      PROVE  \/ worker'[v].job \in disturbed'
             \/ worker[v].job = worker'[v].job /\ worker[u].job = worker'[v].job
  BY <1>1, <1>4 DEF Mail!Job
<1> QED BY <1>2, <1>3, <1>4 DEF TasksQuiet

\* No task changes.
LEMMA NoTaskChanges ==
    ASSUME TasksTyped, UNCHANGED <<worker, task>>, disturbed' = disturbed
    PROVE  TasksQuiet /\ TasksTyped'
  BY DEF TasksTyped, TasksQuiet, Mail!InBatch

\* A task that begins.
Fresh(pc, j) == [Mail!NoWorker EXCEPT !.pc = pc, !.job = j]

LEMMA EmptyTask ==
    ASSUME BroadcastAssumptions
    PROVE  /\ Mail!NoWorker \in TaskType /\ Mail!NoWorker.pc = "none" /\ Mail!NoWorker.job = 0
           /\ Mail!NoWorker.at <= Mail!NoWorker.upto
           /\ \A pc \in TaskPcs, j \in Jobs :
                /\ Fresh(pc, j) \in TaskType /\ Fresh(pc, j).pc = pc /\ Fresh(pc, j).job = j
                /\ Fresh(pc, j).at <= Fresh(pc, j).upto
<1>1. 0 \in 0..USERS
  BY DEF BroadcastAssumptions
<1>2. Mail!NoWorker \in TaskType
  BY <1>1 DEF Mail!NoWorker, TaskType, TaskPcs
<1>3. ASSUME NEW pc \in TaskPcs, NEW j \in Jobs
      PROVE  /\ Fresh(pc, j) \in TaskType /\ Fresh(pc, j).pc = pc /\ Fresh(pc, j).job = j
             /\ Fresh(pc, j).at <= Fresh(pc, j).upto
  <2>1. Fresh(pc, j) \in TaskType
    BY <1>2 DEF TaskType, Fresh
  <2>2. Fresh(pc, j).pc = pc /\ Fresh(pc, j).job = j
    BY <1>2 DEF TaskType, Fresh
  <2>3. Fresh(pc, j).at = 0 /\ Fresh(pc, j).upto = 0
    BY <1>2 DEF TaskType, Mail!NoWorker, Fresh
  <2> QED BY <2>1, <2>2, <2>3
<1>4. Mail!NoWorker.pc = "none" /\ Mail!NoWorker.job = 0 /\ Mail!NoWorker.at = 0 /\ Mail!NoWorker.upto = 0
  BY DEF Mail!NoWorker
<1> QED BY <1>2, <1>3, <1>4

\* The task goes on at pc.
LEMMA TaskGoesOn ==
    ASSUME BroadcastAssumptions, TasksTyped, NEW w \in Mail!Workers, Mail!Alive(w),
           NEW pc \in TaskPcs \ {"none", "send", "store"},
           worker' = [worker EXCEPT ![w].pc = pc], task' = task,
           disturbed \subseteq disturbed', Mail!InBatch(w) => Mail!Job(w) \in disturbed'
    PROVE  TasksQuiet /\ TasksTyped'
<1> DEFINE r == [worker[w] EXCEPT !.pc = pc]
<1>1. worker[w] \in TaskType
  BY DEF TasksTyped
<1>2. /\ r \in TaskType /\ r.pc = pc /\ r.job = worker[w].job
      /\ r.at = worker[w].at /\ r.upto = worker[w].upto
  BY <1>1 DEF TaskType
<1>3. worker' = [worker EXCEPT ![w] = r]
  OBVIOUS
<1>4. worker[w].job # 0 /\ r.job = Mail!Job(w) /\ r.at <= r.upto
  BY <1>2 DEF TasksTyped, Mail!Alive, Mail!Job
<1>5. task' \in Mail!Workers \cup {0}
  BY DEF TasksTyped
<1> HIDE DEF r
<1> QED BY <1>2, <1>3, <1>4, <1>5, OneTaskChanges

\* The task ends.
LEMMA TaskEnds ==
    ASSUME BroadcastAssumptions, TasksTyped, NEW w \in Mail!Workers, Mail!Ends(w),
           disturbed \subseteq disturbed', Mail!InBatch(w) => Mail!Job(w) \in disturbed'
    PROVE  TasksQuiet /\ TasksTyped'
  BY EmptyTask, OneTaskChanges DEF Mail!Ends

LEMMA TaskCancelled ==
    ASSUME BroadcastAssumptions, TasksTyped, Mail!CancelTask
    PROVE  TasksQuiet /\ TasksTyped'
<1>1. CASE task = 0
  BY <1>1 DEF Mail!CancelTask, TasksTyped, TasksQuiet, Mail!InBatch
<1>2. CASE task # 0
  <2>1. task \in Mail!Workers /\ worker' = [worker EXCEPT ![task] = Mail!NoWorker] /\ task' = 0
    BY <1>2 DEF Mail!CancelTask, TasksTyped
  <2>2. disturbed \subseteq disturbed' /\ (Mail!InBatch(task) => Mail!Job(task) \in disturbed')
    BY <1>2 DEF Mail!CancelTask, Mail!Job
  <2> QED BY <2>1, <2>2, EmptyTask, OneTaskChanges
<1> QED BY <1>1, <1>2

LEMMA TaskSpawned ==
    ASSUME BroadcastAssumptions, TasksTyped, NEW j \in Jobs, Mail!Spawn(j)
    PROVE  TasksQuiet /\ TasksTyped'
<1>1. PICK w \in Mail!Workers :
        /\ ~Mail!Alive(w)
        /\ worker' = [worker EXCEPT ![w] = [Mail!NoWorker EXCEPT !.pc = "top", !.job = j]]
        /\ task' = w
        /\ disturbed' = disturbed \cup IF \E v \in Mail!Workers : worker[v].job = j THEN {j} ELSE {}
  BY Zenon DEF Mail!Spawn
<1> DEFINE r == Fresh("top", j)
<1>2. "top" \in TaskPcs
  BY DEF TaskPcs
<1>3. r \in TaskType /\ r.pc = "top" /\ r.job = j /\ r.at <= r.upto
  BY <1>2, EmptyTask
<1>4. worker' = [worker EXCEPT ![w] = r]
  BY <1>1 DEF Fresh
<1>5. ~Mail!InBatch(w) /\ j # 0
  BY <1>1 DEF Mail!Alive, Mail!InBatch, BroadcastAssumptions
<1>6. disturbed \subseteq disturbed' /\ (j \in disturbed' \/ \A u \in Mail!Workers : Mail!Job(u) # j)
  BY <1>1 DEF Mail!Job
<1> HIDE DEF r
<1> QED BY <1>1, <1>3, <1>4, <1>5, <1>6, OneTaskChanges

\* A command goes on, ends or is not touched.
LEMMA CommandStays ==
    ASSUME CommandsTyped, NEW a \in Admins, cmd[a].pc # "idle",
           cmd' = cmd \/ Mail!Returns(a) \/ \E pc \in CommandPcs : Mail!Goes(a, pc)
    PROVE  CommandsTyped'
<1>0. cmd[a] \in [pc : CommandPcs, job : Jobs \cup {0}] /\ cmd[a].job \in Jobs
  BY DEF CommandsTyped
<1>1. CASE cmd' = cmd
  BY <1>1 DEF CommandsTyped
<1>2. CASE Mail!Returns(a)
  <2>1. Mail!NoCommand \in [pc : CommandPcs, job : Jobs \cup {0}] /\ Mail!NoCommand.pc = "idle"
    BY DEF Mail!NoCommand, CommandPcs
  <2> QED BY <1>2, <2>1 DEF Mail!Returns, CommandsTyped
<1>3. CASE \E pc \in CommandPcs : Mail!Goes(a, pc)
  <2>1. PICK pc \in CommandPcs : Mail!Goes(a, pc)
    BY <1>3
  <2> DEFINE c == [cmd[a] EXCEPT !.pc = pc]
  <2>2. c \in [pc : CommandPcs, job : Jobs \cup {0}] /\ c.job = cmd[a].job
    BY <1>0
  <2>3. cmd' = [cmd EXCEPT ![a] = c]
    BY <2>1 DEF Mail!Goes
  <2> HIDE DEF c
  <2> QED BY <1>0, <2>2, <2>3 DEF CommandsTyped
<1> QED BY <1>1, <1>2, <1>3

\* One row's status changes.
LEMMA OneStatusChanges ==
    ASSUME RowsTyped, NEW j \in Jobs, NEW s \in Statuses,
           status' = [status EXCEPT ![j] = s], UNCHANGED <<cursor, got>>,
           status[j] = "gone" => s = "gone",
           s = "done" => status[j] = "done" \/ j \in blind' \/ cursor[j] = USERS
    PROVE  StatusQuiet /\ RowsTyped'
  BY DEF RowsTyped, StatusQuiet

LEMMA NoStatusChanges ==
    ASSUME RowsTyped, UNCHANGED <<status, cursor, got>>
    PROVE  StatusQuiet /\ RowsTyped'
  BY DEF RowsTyped, StatusQuiet

\* A broadcast is given up: a row that is gone stays so.
LEMMA RowGivenUp ==
    ASSUME RowsTyped, NEW j \in Jobs, status' \in {status, Mail!GivenUp(j)}, UNCHANGED <<cursor, got>>
    PROVE  StatusQuiet /\ RowsTyped'
<1> DEFINE s == IF status[j] = "gone" THEN "gone" ELSE "failed"
<1>1. CASE status' = status
  BY <1>1, NoStatusChanges
<1>2. CASE status' = Mail!GivenUp(j)
  <2>1. status' = [status EXCEPT ![j] = s]
    BY <1>2 DEF Mail!GivenUp
  <2>2. s \in Statuses /\ s # "done" /\ (status[j] = "gone" => s = "gone")
    BY DEF Statuses
  <2> HIDE DEF s
  <2> QED BY <2>1, <2>2, OneStatusChanges
<1> QED BY <1>1, <1>2

-----------------------------------------------------------------------------
(* The steps of a worker that send nothing and move no cursor.             *)

LEMMA WorkerTypes ==
    ASSUME BroadcastAssumptions, BroadcastTyped, NEW w \in Mail!Workers, Mail!Alive(w)
    PROVE  /\ Mail!Job(w) \in Jobs /\ status[Mail!Job(w)] \in Statuses
           /\ worker[w] \in TaskType /\ cursor[Mail!Job(w)] \in 0..USERS
           /\ worker[w].at <= worker[w].upto
  BY DEF BroadcastTyped, TasksTyped, TaskType, RowsTyped, Mail!Alive, Mail!Job

LEMMA WorkerStarts ==
    ASSUME BroadcastAssumptions, BroadcastTyped, NEW w \in Mail!Workers, Mail!WorkerLocks(w)
    PROVE  MailQuiet /\ BroadcastTyped'
<1> USE DEF BroadcastTyped
<1>0. Mail!Alive(w) /\ ~Mail!InBatch(w) /\ Mail!Job(w) \in Jobs /\ status[Mail!Job(w)] \in Statuses
  BY WorkerTypes DEF Mail!WorkerLocks, Mail!Alive, Mail!InBatch
<1>1. UNCHANGED <<cursor, cmd, got, disturbed, blind>>
  BY DEF Mail!WorkerLocks
<1>2. CASE worker' = [worker EXCEPT ![w].pc = "top"] /\ UNCHANGED <<task, status>>
  <2>1. "top" \in TaskPcs \ {"none", "send", "store"}
    BY DEF TaskPcs
  <2>2. TasksQuiet /\ TasksTyped'
    BY <1>0, <1>1, <1>2, <2>1, TaskGoesOn
  <2> QED BY <1>1, <1>2, <2>2, NoStatusChanges DEF MailQuiet, CommandsTyped
<1>3. CASE Mail!Ends(w) /\ status' \in {status, Mail!GivenUp(Mail!Job(w))}
  <2>1. StatusQuiet /\ RowsTyped'
    BY <1>0, <1>1, <1>3, RowGivenUp
  <2>2. TasksQuiet /\ TasksTyped'
    BY <1>0, <1>1, <1>3, TaskEnds
  <2> QED BY <1>1, <2>1, <2>2 DEF MailQuiet, CommandsTyped
<1>4. \/ worker' = [worker EXCEPT ![w].pc = "top"] /\ UNCHANGED <<task, status>>
      \/ Mail!Ends(w) /\ status' \in {status, Mail!GivenUp(Mail!Job(w))}
  BY DEF Mail!WorkerLocks
<1> QED BY <1>2, <1>3, <1>4

LEMMA WorkerStops ==
    ASSUME BroadcastAssumptions, BroadcastTyped, NEW w \in Mail!Workers,
           Mail!Stops(w) \/ Mail!LosesRow(w) \/ Mail!SeesPause(w) \/ Mail!NoneNext(w)
    PROVE  MailQuiet /\ BroadcastTyped'
<1> USE DEF BroadcastTyped
<1>1. UNCHANGED <<status, cursor, cmd, got, disturbed, blind>>
  BY DEF Mail!Stops, Mail!LosesRow, Mail!SeesPause, Mail!NoneNext
<1>2. StatusQuiet /\ RowsTyped' /\ CommandsTyped'
  BY <1>1, NoStatusChanges DEF CommandsTyped
<1>3. CASE Mail!Stops(w) \/ Mail!LosesRow(w) \/ Mail!NoneNext(w)
  <2>1. Mail!Ends(w) /\ ~Mail!InBatch(w)
    BY <1>3 DEF Mail!Stops, Mail!LosesRow, Mail!NoneNext, Mail!InBatch
  <2> QED BY <1>1, <1>2, <2>1, TaskEnds DEF MailQuiet
<1>4. CASE Mail!SeesPause(w)
  BY <1>1, <1>2, <1>4, NoTaskChanges DEF MailQuiet, Mail!SeesPause
<1> QED BY <1>3, <1>4

LEMMA WorkerStoreFails ==
    ASSUME BroadcastAssumptions, BroadcastTyped, NEW w \in Mail!Workers, Mail!StoreFails(w)
    PROVE  MailQuiet /\ BroadcastTyped'
<1> USE DEF BroadcastTyped
<1>1. /\ UNCHANGED <<status, cursor, cmd, got, blind, task>>
      /\ worker' = [worker EXCEPT ![w].pc = "top"]
      /\ disturbed' = disturbed \cup {Mail!Job(w)}
      /\ Mail!Alive(w)
  BY DEF Mail!StoreFails, Mail!Alive
<1>2. StatusQuiet /\ RowsTyped' /\ CommandsTyped'
  BY <1>1, NoStatusChanges DEF CommandsTyped
<1>3. "top" \in TaskPcs \ {"none", "send", "store"}
  BY DEF TaskPcs
<1>4. TasksQuiet /\ TasksTyped'
  BY <1>1, <1>3, TaskGoesOn
<1> QED BY <1>1, <1>2, <1>4 DEF MailQuiet

LEMMA WorkerGivesUp ==
    ASSUME BroadcastAssumptions, BroadcastTyped, NEW w \in Mail!Workers, Mail!WorkerFails(w)
    PROVE  MailQuiet /\ BroadcastTyped'
<1> USE DEF BroadcastTyped
<1>0. Mail!Alive(w) /\ Mail!Job(w) \in Jobs
  BY WorkerTypes DEF Mail!WorkerFails, Mail!Locked, Mail!Alive
<1>1. /\ UNCHANGED <<cursor, cmd, got, blind>> /\ Mail!Ends(w)
      /\ status' \in {status, Mail!GivenUp(Mail!Job(w))}
      /\ disturbed' = disturbed \cup IF Mail!InBatch(w) THEN {Mail!Job(w)} ELSE {}
  BY DEF Mail!WorkerFails
<1>2. StatusQuiet /\ RowsTyped'
  BY <1>0, <1>1, RowGivenUp
<1>3. TasksQuiet /\ TasksTyped'
  BY <1>1, TaskEnds
<1> QED BY <1>1, <1>2, <1>3 DEF MailQuiet, CommandsTyped

LEMMA WorkerFinishes ==
    ASSUME BroadcastAssumptions, BroadcastTyped, NEW w \in Mail!Workers, Mail!Finish(w)
    PROVE  MailQuiet /\ BroadcastTyped'
<1> USE DEF BroadcastTyped
<1>0. Mail!Alive(w) /\ ~Mail!InBatch(w) /\ Mail!Job(w) \in Jobs /\ status[Mail!Job(w)] = "running"
  BY WorkerTypes DEF Mail!Finish, Mail!Runs, Mail!Alive, Mail!InBatch
<1>1. /\ UNCHANGED <<cursor, cmd, got, disturbed, task>>
      /\ worker' = [worker EXCEPT ![w].pc = "next"]
      /\ status' \in {status, [status EXCEPT ![Mail!Job(w)] = "done"]}
      /\ blind \subseteq blind' /\ (Mail!Job(w) \in blind' \/ cursor[Mail!Job(w)] = USERS)
  BY DEF Mail!Finish
<1>2. "done" \in Statuses /\ "next" \in TaskPcs \ {"none", "send", "store"}
  BY DEF Statuses, TaskPcs
<1>3. StatusQuiet /\ RowsTyped'
  BY <1>0, <1>1, <1>2, OneStatusChanges, NoStatusChanges
<1>4. TasksQuiet /\ TasksTyped'
  BY <1>0, <1>1, <1>2, TaskGoesOn
<1> QED BY <1>1, <1>3, <1>4 DEF MailQuiet, CommandsTyped

LEMMA WorkerHandsOver ==
    ASSUME BroadcastAssumptions, BroadcastTyped, NEW w \in Mail!Workers, Mail!HandOver(w)
    PROVE  MailQuiet /\ BroadcastTyped'
<1> USE DEF BroadcastTyped
<1> DEFINE j == Mail!Min(Mail!NextQueued)
           r == Fresh("top", j)
<1>0. ~Mail!InBatch(w) /\ UNCHANGED <<cursor, cmd, got, blind>> /\ Mail!NextQueued # {}
  BY DEF Mail!HandOver, Mail!InBatch
<1>1. j \in Jobs /\ status[j] = "queued"
  <2>1. Mail!NextQueued \subseteq Nat
    BY DEF Mail!NextQueued, BroadcastAssumptions
  <2>2. j \in Mail!NextQueued
    BY <1>0, <2>1, LeastIsIn
  <2> QED BY <2>2 DEF Mail!NextQueued
<1>2. \E active \in {0, Mail!Active} :
        LET others(written) ==
              [i \in Jobs |-> IF i = active /\ i # j /\ written THEN "failed" ELSE status[i]]
        IN  \/ /\ status' = [others(TRUE) EXCEPT ![j] = "running"]
               /\ worker' = [[worker EXCEPT ![w] = Mail!NoWorker] EXCEPT ![w] = r]
               /\ task' = w
               /\ disturbed' = disturbed \cup IF \E v \in Mail!Workers : worker[v].job = j THEN {j} ELSE {}
            \/ /\ \E written \in BOOLEAN : status' = others(written)
               /\ Mail!Ends(w) /\ disturbed' = disturbed
  BY DEF Mail!HandOver, Fresh
<1>3. PICK active \in {0, Mail!Active} :
        \/ /\ status' = [[i \in Jobs |-> IF i = active /\ i # j THEN "failed" ELSE status[i]]
                            EXCEPT ![j] = "running"]
           /\ worker' = [[worker EXCEPT ![w] = Mail!NoWorker] EXCEPT ![w] = r]
           /\ task' = w
           /\ disturbed' = disturbed \cup IF \E v \in Mail!Workers : worker[v].job = j THEN {j} ELSE {}
        \/ /\ \E written \in BOOLEAN :
                 status' = [i \in Jobs |-> IF i = active /\ i # j /\ written THEN "failed" ELSE status[i]]
           /\ Mail!Ends(w) /\ disturbed' = disturbed
  BY <1>2
<1>4. active = 0 \/ (active \in Jobs /\ status[active] = "running")
  BY ActiveRuns
<1>5. r \in TaskType /\ r.pc = "top" /\ r.job = j /\ r.at <= r.upto
  BY <1>1, EmptyTask DEF TaskPcs
<1> HIDE DEF j, r
<1>6. StatusQuiet /\ RowsTyped'
  <2>1. status \in [Jobs -> Statuses]
    BY DEF RowsTyped
  <2>2. ASSUME NEW f \in {[i \in Jobs |-> IF i = active /\ i # j THEN "failed" ELSE status[i]], status}
        PROVE  /\ f \in [Jobs -> Statuses]
               /\ \A i \in Jobs : f[i] = status[i] \/ (status[i] = "running" /\ f[i] = "failed")
    <3>1. CASE f = status
      BY <2>1, <3>1
    <3>2. CASE f = [i \in Jobs |-> IF i = active /\ i # j THEN "failed" ELSE status[i]]
      <4>1. \A i \in Jobs : f[i] = (IF i = active /\ i # j THEN "failed" ELSE status[i])
        BY <3>2
      <4>2. \A i \in Jobs : f[i] = status[i] \/ (status[i] = "running" /\ f[i] = "failed")
        BY <1>4, <4>1 DEF BroadcastAssumptions
      <4>3. \A i \in Jobs : f[i] \in Statuses
        BY <2>1, <4>2 DEF Statuses
      <4> QED BY <3>2, <4>2, <4>3
    <3> QED BY <2>2, <3>1, <3>2
  <2>3. /\ status' \in [Jobs -> Statuses]
        /\ \A i \in Jobs :
             \/ status'[i] = status[i]
             \/ status[i] # "gone" /\ status'[i] \in {"running", "failed"}
    <3>1. PICK f \in {[i \in Jobs |-> IF i = active /\ i # j THEN "failed" ELSE status[i]], status} :
             status' = f \/ status' = [f EXCEPT ![j] = "running"]
      BY <1>3, <2>1
    <3>2. CASE status' = f
      BY <2>2, <3>2
    <3>3. CASE status' = [f EXCEPT ![j] = "running"]
      BY <1>1, <2>2, <3>3 DEF Statuses
    <3> QED BY <3>1, <3>2, <3>3
  <2> QED BY <1>0, <2>3 DEF StatusQuiet, RowsTyped
<1>7. TasksQuiet /\ TasksTyped'
  <2>1. CASE /\ worker' = [[worker EXCEPT ![w] = Mail!NoWorker] EXCEPT ![w] = r]
             /\ task' = w
             /\ disturbed' = disturbed \cup IF \E v \in Mail!Workers : worker[v].job = j THEN {j} ELSE {}
    <3>1. worker' = [worker EXCEPT ![w] = r]
      BY <2>1 DEF TasksTyped
    <3>2. disturbed \subseteq disturbed' /\ (j \in disturbed' \/ \A u \in Mail!Workers : Mail!Job(u) # j) /\ j # 0
      BY <1>1, <2>1 DEF Mail!Job, BroadcastAssumptions
    <3> QED BY <1>0, <1>5, <2>1, <3>1, <3>2, OneTaskChanges
  <2>2. CASE Mail!Ends(w) /\ disturbed' = disturbed
    BY <1>0, <2>2, TaskEnds
  <2> QED BY <1>3, <2>1, <2>2
<1> QED BY <1>0, <1>6, <1>7 DEF MailQuiet, CommandsTyped

-----------------------------------------------------------------------------
(* The commands and what happens to the process.                           *)

\* What the commands that touch no task do.
LEMMA CommandsOnRows ==
    ASSUME BroadcastAssumptions, BroadcastTyped, NEW a \in Admins,
           \/ Mail!Confirm(a) \/ Mail!Queue(a) \/ Mail!PauseReads(a) \/ Mail!PauseWrites(a) \/ Mail!PauseTells(a)
           \/ Mail!Resend(a) \/ Mail!Delete(a) \/ Mail!CancelDrops(a) \/ Mail!NotFound(a)
    PROVE  MailQuiet /\ BroadcastTyped'
<1> USE DEF BroadcastTyped, Mail!Keep, Mail!Tasks
<1>0. /\ cmd[a].pc # "idle" /\ Mail!Row(a) \in Jobs /\ status[Mail!Row(a)] \in Statuses
      /\ UNCHANGED <<cursor, got, blind, worker, task, disturbed>>
  <2>1. cmd[a].pc # "idle"
    BY DEF Mail!Confirm, Mail!Queue, Mail!PauseReads, Mail!PauseWrites, Mail!PauseTells,
       Mail!Resend, Mail!Delete, Mail!CancelDrops, Mail!NotFound
  <2>2. Mail!Row(a) \in Jobs
    BY <2>1 DEF CommandsTyped, Mail!Row
  <2>3. status[Mail!Row(a)] \in Statuses
    BY <2>2 DEF RowsTyped
  <2>4. UNCHANGED <<cursor, got, blind, worker, task, disturbed>>
    BY DEF Mail!Confirm, Mail!Queue, Mail!PauseReads, Mail!PauseWrites, Mail!PauseTells,
       Mail!Resend, Mail!Delete, Mail!CancelDrops, Mail!NotFound
  <2> QED BY <2>1, <2>2, <2>3, <2>4
<1>1. TasksQuiet /\ TasksTyped'
  BY <1>0, NoTaskChanges
<1>2. Mail!Returns(a) \/ \E pc \in CommandPcs : Mail!Goes(a, pc)
  <2>1. CASE Mail!Confirm(a) \/ Mail!Queue(a)
    BY <2>1 DEF Mail!Confirm, Mail!Queue, CommandPcs
  <2>2. CASE Mail!PauseReads(a) \/ Mail!PauseWrites(a) \/ Mail!PauseTells(a)
    BY <2>2 DEF Mail!PauseReads, Mail!PauseWrites, Mail!PauseTells, CommandPcs
  <2>3. CASE Mail!Resend(a) \/ Mail!Delete(a) \/ Mail!CancelDrops(a) \/ Mail!NotFound(a)
    BY <2>3 DEF Mail!Resend, Mail!Delete, Mail!CancelDrops, Mail!NotFound
  <2> QED BY <2>1, <2>2, <2>3
<1>3. CommandsTyped'
  BY <1>0, <1>2, CommandStays
<1>4. \/ status' = status
      \/ \E s \in Statuses \ {"done"} :
            status' = [status EXCEPT ![Mail!Row(a)] = s] /\ (status[Mail!Row(a)] = "gone" => s = "gone")
  <2>1. CASE Mail!Confirm(a) \/ Mail!PauseReads(a) \/ Mail!PauseTells(a) \/ Mail!NotFound(a)
    BY <2>1 DEF Mail!Confirm, Mail!PauseReads, Mail!PauseTells, Mail!NotFound
  <2>2. CASE Mail!PauseWrites(a)
    <3>1. \/ status' = status
          \/ status[Mail!Row(a)] # "gone" /\ status' = [status EXCEPT ![Mail!Row(a)] = "paused"]
      BY <2>2 DEF Mail!PauseWrites
    <3> QED BY <3>1 DEF Statuses
  <2>3. CASE Mail!Delete(a)
    <3>1. status' = status \/ status' = [status EXCEPT ![Mail!Row(a)] = "gone"]
      BY <2>3 DEF Mail!Delete
    <3> QED BY <3>1 DEF Statuses
  <2>4. CASE Mail!CancelDrops(a)
    <3>1. \/ status' = status
          \/ status' = [status EXCEPT ![Mail!Row(a)] = "gone"]
          \/ status[Mail!Row(a)] # "gone" /\ status' = [status EXCEPT ![Mail!Row(a)] = "canceled"]
      BY <2>4 DEF Mail!CancelDrops
    <3> QED BY <3>1 DEF Statuses
  <2>5. CASE Mail!Queue(a)
    <3>1. \/ status' = status
          \/ status[Mail!Row(a)] # "gone" /\ status' = [status EXCEPT ![Mail!Row(a)] = "queued"]
      BY <2>5 DEF Mail!Queue
    <3> QED BY <3>1 DEF Statuses
  <2>6. CASE Mail!Resend(a)
    <3>1. \/ status' = status
          \/ status[Mail!Row(a)] # "gone" /\ status' = [status EXCEPT ![Mail!Row(a)] = "pending_confirm"]
      BY <2>6 DEF Mail!Resend
    <3> QED BY <3>1 DEF Statuses
  <2> QED BY <2>1, <2>2, <2>3, <2>4, <2>5, <2>6
<1>5. StatusQuiet /\ RowsTyped'
  <2>1. CASE status' = status
    BY <1>0, <2>1, NoStatusChanges
  <2>2. CASE status' # status
    <3>1. PICK s \in Statuses \ {"done"} :
             status' = [status EXCEPT ![Mail!Row(a)] = s] /\ (status[Mail!Row(a)] = "gone" => s = "gone")
      BY <1>4, <2>2
    <3> QED BY <1>0, <3>1, OneStatusChanges
  <2> QED BY <2>1, <2>2
<1> QED BY <1>0, <1>1, <1>3, <1>5 DEF MailQuiet

\* Those that cancel the task, and the one that starts a new one.
LEMMA CommandsOnTasks ==
    ASSUME BroadcastAssumptions, BroadcastTyped, NEW a \in Admins,
           Mail!Begin(a) \/ Mail!Replace(a) \/ Mail!Start(a) \/ Mail!CancelStops(a)
    PROVE  MailQuiet /\ BroadcastTyped'
<1> USE DEF BroadcastTyped, Mail!Keep, Mail!Tasks
<1>0. /\ cmd[a].pc # "idle" /\ Mail!Row(a) \in Jobs /\ status[Mail!Row(a)] \in Statuses
      /\ UNCHANGED <<cursor, got, blind>>
  <2>1. cmd[a].pc # "idle"
    BY DEF Mail!Begin, Mail!Replace, Mail!Start, Mail!CancelStops
  <2>2. Mail!Row(a) \in Jobs
    BY <2>1 DEF CommandsTyped, Mail!Row
  <2> QED BY <2>1, <2>2 DEF RowsTyped, Mail!Begin, Mail!Replace, Mail!Start, Mail!CancelStops
<1>1. Mail!Returns(a) \/ \E pc \in CommandPcs : Mail!Goes(a, pc)
  BY DEF Mail!Begin, Mail!Replace, Mail!Start, Mail!CancelStops, CommandPcs
<1>2. CommandsTyped'
  BY <1>0, <1>1, CommandStays
<1>3. \/ Mail!CancelTask \/ Mail!Spawn(Mail!Row(a)) \/ UNCHANGED <<worker, task, disturbed>>
  BY DEF Mail!Begin, Mail!Replace, Mail!Start, Mail!CancelStops
<1>4. TasksQuiet /\ TasksTyped'
  BY <1>0, <1>3, TaskCancelled, TaskSpawned, NoTaskChanges
<1>5. \/ status' = status
      \/ Mail!Active \in Jobs /\ status[Mail!Active] = "running" /\ status' = [status EXCEPT ![Mail!Active] = "failed"]
      \/ status[Mail!Row(a)] # "gone" /\ status' = [status EXCEPT ![Mail!Row(a)] = "running"]
  BY ActiveRuns DEF Mail!Begin, Mail!Replace, Mail!Start, Mail!CancelStops
<1>6. "failed" \in Statuses /\ "running" \in Statuses
  BY DEF Statuses
<1>7. StatusQuiet /\ RowsTyped'
  <2>1. CASE status' = status
    BY <1>0, <2>1, NoStatusChanges
  <2>2. CASE Mail!Active \in Jobs /\ status[Mail!Active] = "running" /\ status' = [status EXCEPT ![Mail!Active] = "failed"]
    BY <1>0, <1>6, <2>2, OneStatusChanges
  <2>3. CASE status[Mail!Row(a)] # "gone" /\ status' = [status EXCEPT ![Mail!Row(a)] = "running"]
    BY <1>0, <1>6, <2>3, OneStatusChanges
  <2> QED BY <1>5, <2>1, <2>2, <2>3
<1> QED BY <1>0, <1>2, <1>4, <1>7 DEF MailQuiet

\* A row is created, and an admin gives a command.
LEMMA CommandsBegin ==
    ASSUME BroadcastAssumptions, BroadcastTyped, NEW j \in Jobs,
           Mail!Create(j) \/ \E a \in Admins, op \in Ops : Mail!Order(a, op, j)
    PROVE  MailQuiet /\ BroadcastTyped'
<1> USE DEF BroadcastTyped
<1>1. UNCHANGED <<cursor, got, blind, worker, task, disturbed>>
  BY DEF Mail!Create, Mail!Order, Mail!Keep, Mail!Tasks
<1>2. TasksQuiet /\ TasksTyped'
  BY <1>1, NoTaskChanges
<1>3. CASE Mail!Create(j)
  <2>1. status' = [status EXCEPT ![j] = "pending_confirm"] /\ status[j] = "new" /\ cmd' = cmd
    BY <1>3 DEF Mail!Create
  <2>2. "pending_confirm" \in Statuses
    BY DEF Statuses
  <2>3. StatusQuiet /\ RowsTyped'
    BY <1>1, <2>1, <2>2, OneStatusChanges
  <2> QED BY <1>1, <1>2, <2>1, <2>3 DEF MailQuiet, CommandsTyped
<1>4. CASE \E a \in Admins, op \in Ops : Mail!Order(a, op, j)
  <2>1. PICK a \in Admins, op \in Ops : Mail!Order(a, op, j)
    BY <1>4
  <2>2. status' = status /\ cmd' = [cmd EXCEPT ![a] = [pc |-> op, job |-> j]]
    BY <2>1 DEF Mail!Order
  <2>3. CommandsTyped'
    BY <2>2 DEF CommandsTyped, CommandPcs
  <2> QED BY <1>1, <1>2, <2>2, <2>3, NoStatusChanges DEF MailQuiet
<1> QED BY <1>3, <1>4

\* The process starts again with a worker for the broadcast that runs.
LEMMA ProcessRestarts ==
    ASSUME BroadcastAssumptions, BroadcastTyped, Mail!Restart \/ Mail!LockExpires
    PROVE  MailQuiet /\ BroadcastTyped'
<1> USE DEF BroadcastTyped
<1>1. UNCHANGED <<status, cursor, got, blind>>
  BY DEF Mail!Restart, Mail!LockExpires
<1>2. StatusQuiet /\ RowsTyped'
  BY <1>1, NoStatusChanges
<1>3. CASE Mail!LockExpires
  <2>1. UNCHANGED <<worker, task, disturbed, cmd>>
    BY <1>3 DEF Mail!LockExpires
  <2> QED BY <1>1, <1>2, <2>1, NoTaskChanges DEF MailQuiet, CommandsTyped
<1>4. CASE Mail!Restart
  <2>1. cmd' = [a \in Admins |-> Mail!NoCommand]
    BY <1>4 DEF Mail!Restart
  <2>2. CommandsTyped'
    BY <2>1 DEF CommandsTyped, Mail!NoCommand, CommandPcs
  <2>0. PICK active \in {0, Mail!Active} :
          /\ worker' = [w \in Mail!Workers |-> IF w = 1 /\ active # 0 THEN Fresh("lock", active)
                                                ELSE Mail!NoWorker]
          /\ task' = (IF active # 0 THEN 1 ELSE 0)
    BY <1>4 DEF Mail!Restart, Fresh
  <2> DEFINE r == Fresh("lock", active)
  <2>3. /\ worker' = [w \in Mail!Workers |-> IF w = 1 /\ active # 0 THEN r ELSE Mail!NoWorker]
        /\ task' = (IF active # 0 THEN 1 ELSE 0)
        /\ disturbed' = disturbed \cup {worker[w].job : w \in {v \in Mail!Workers : Mail!InBatch(v)}}
    BY <1>4, <2>0 DEF Mail!Restart
  <2>4. 1 \in Mail!Workers
    BY DEF Mail!Workers, BroadcastAssumptions
  <2>5. "lock" \in TaskPcs
    BY DEF TaskPcs
  <2>6. active # 0 => active \in Jobs /\ r \in TaskType /\ r.pc = "lock" /\ r.job = active /\ r.at <= r.upto
    BY <2>0, <2>5, ActiveRuns, EmptyTask
  <2>7. Mail!NoWorker \in TaskType /\ Mail!NoWorker.pc = "none" /\ Mail!NoWorker.job = 0 /\ Mail!NoWorker.at <= Mail!NoWorker.upto
    BY EmptyTask
  <2> HIDE DEF r
  <2>8. /\ worker' \in [Mail!Workers -> TaskType]
        /\ \A w \in Mail!Workers : w = 1 /\ active # 0 => worker'[w] = r
        /\ \A w \in Mail!Workers : ~(w = 1 /\ active # 0) => worker'[w] = Mail!NoWorker
    BY <2>3, <2>6, <2>7
  <2>9. TasksTyped'
    <3>1. task' \in Mail!Workers \cup {0}
      BY <2>3, <2>4
    <3>2. ASSUME NEW w \in Mail!Workers
          PROVE  (worker'[w].pc = "none" <=> worker'[w].job = 0) /\ worker'[w].at <= worker'[w].upto
      <4>1. CASE w = 1 /\ active # 0
        BY <2>6, <2>8, <4>1 DEF BroadcastAssumptions
      <4>2. CASE ~(w = 1 /\ active # 0)
        BY <2>7, <2>8, <4>2
      <4> QED BY <4>1, <4>2
    <3> QED BY <2>8, <3>1, <3>2 DEF TasksTyped
  <2>10. TasksQuiet
    <3>1. disturbed \subseteq disturbed' /\ \A v \in Mail!Workers : Mail!InBatch(v) => Mail!Job(v) \in disturbed'
      BY <2>3 DEF Mail!Job
    <3>2. \A v \in Mail!Workers : ~Mail!InBatch(v)'
      BY <2>6, <2>7, <2>8 DEF Mail!InBatch
    <3>3. \A v, u \in Mail!Workers : v # u => worker'[v].job = 0 \/ worker'[u].job = 0
      BY <2>7, <2>8
    <3> QED BY <3>1, <3>2, <3>3 DEF TasksQuiet
  <2> QED BY <1>1, <1>2, <2>2, <2>9, <2>10 DEF MailQuiet
<1> QED BY <1>3, <1>4

-----------------------------------------------------------------------------
(* A batch.                                                                *)

\* The broadcasts that the batch of w does not concern.
LEMMA OtherBroadcasts ==
    ASSUME BroadcastAssumptions, BroadcastInv, NEW w \in Mail!Workers, Mail!Alive(w),
           \A v \in Mail!Workers : v # w => worker'[v] = worker[v],
           worker'[w].job = Mail!Job(w), status' = status, disturbed' = disturbed,
           NEW j \in Jobs, j # Mail!Job(w), got'[j] = got[j], cursor'[j] = cursor[j],
           j \notin disturbed
    PROVE  SentOnce(j)'
<1> USE DEF BroadcastInv, BroadcastParts
<1>1. SentOnce(j)
  OBVIOUS
<1>2. \A v \in Mail!Workers : Mail!Job(v)' = j => v # w /\ worker'[v] = worker[v]
  BY DEF Mail!Job
<1>3. OneWorker(j)'
  BY <1>1, <1>2 DEF SentOnce, OneWorker, Mail!Job
<1>4. BatchBounds(j)'
  BY <1>1, <1>2 DEF SentOnce, BatchBounds, Mail!Job, Mail!InBatch
<1>5. CursorBounds(j)'
  BY <1>1, <1>2 DEF SentOnce, CursorBounds, Mail!Job, Mail!InBatch
<1> QED BY <1>1, <1>3, <1>4, <1>5 DEF SentOnce

\* The targets are read from the cursor on.
LEMMA BatchFetched ==
    ASSUME BroadcastAssumptions, BroadcastInv, NEW w \in Mail!Workers, Mail!Fetch(w)
    PROVE  BroadcastInv'
<1> USE DEF BroadcastInv, BroadcastParts, BroadcastTyped
<1> DEFINE j == Mail!Job(w)
           r == [worker[w] EXCEPT !.pc = "send", !.at = cursor[j], !.upto = Mail!BatchEnd(w)]
<1>0. /\ Mail!Alive(w) /\ ~Mail!InBatch(w) /\ j \in Jobs /\ status[j] = "running"
      /\ worker[w] \in TaskType /\ cursor[j] \in 0..USERS
  BY WorkerTypes DEF Mail!Fetch, Mail!Runs, Mail!Alive, Mail!InBatch
<1>1. /\ UNCHANGED <<status, cursor, cmd, got, disturbed, blind, task>>
      /\ worker' = [worker EXCEPT ![w] = r]
  BY DEF Mail!Fetch
<1>2. Mail!BatchEnd(w) \in 0..USERS /\ cursor[j] <= Mail!BatchEnd(w)
  BY <1>0, BatchEnds
<1>3. /\ r \in TaskType /\ r.pc = "send" /\ r.job = j /\ r.at = cursor[j]
      /\ r.upto = Mail!BatchEnd(w)
  <2>1. r \in TaskType
    BY <1>0, <1>2 DEF TaskType, TaskPcs
  <2>2. r.pc = "send" /\ r.job = j /\ r.at = cursor[j] /\ r.upto = Mail!BatchEnd(w)
    BY <1>0 DEF TaskType, Mail!Job
  <2> QED BY <2>1, <2>2
<1> HIDE DEF r
<1>4. /\ worker' \in [Mail!Workers -> TaskType] /\ worker'[w] = r
      /\ \A v \in Mail!Workers : v # w => worker'[v] = worker[v]
  BY <1>1, <1>3 DEF TasksTyped
<1>5. BroadcastTyped'
  <2>1. worker[w].pc # "none" /\ worker[w].job # 0
    BY <1>0 DEF TasksTyped, Mail!Alive
  <2>2. TasksTyped'
    BY <1>1, <1>2, <1>3, <1>4, <2>1 DEF TasksTyped, Mail!Job
  <2> QED BY <1>1, <2>2 DEF CommandsTyped, RowsTyped
<1>6. BatchSent'
  <2>1. \A u \in 1..USERS : u <= cursor[j] => got[j][u] > 0
    BY <1>0 DEF Mail!BroadcastReachesAll, Mail!NobodySkipped
  <2> QED BY <1>1, <1>3, <1>4, <2>1 DEF BatchSent, Mail!InBatch, Mail!Job
<1>7. ASSUME NEW k \in Jobs, k \notin disturbed'
      PROVE  SentOnce(k)'
  <2>1. CASE k = j
    <3>1. SentOnce(j) /\ \A v \in Mail!Workers : Mail!Job(v) = j => v = w
      BY <1>1, <1>7, <2>1 DEF SentOnce, OneWorker
    <3>2. \A v \in Mail!Workers : Mail!InBatch(v) => Mail!Job(v) # j
      BY <1>0, <3>1
    <3>3. \A u \in 1..USERS : u > cursor[j] => got[j][u] = 0
      BY <1>0, <3>1, <3>2 DEF SentOnce, CursorBounds
    <3>4. \A v \in Mail!Workers : Mail!Job(v)' = j => v = w
      BY <1>4, <3>1 DEF Mail!Job
    <3>5. OneWorker(j)'
      BY <1>3, <1>4, <3>4 DEF OneWorker, Mail!Job
    <3>6. BatchBounds(j)' /\ CursorBounds(j)'
      BY <1>1, <1>3, <1>4, <3>3, <3>4 DEF BatchBounds, CursorBounds, Mail!InBatch, Mail!Job
    <3> QED BY <1>1, <2>1, <3>1, <3>5, <3>6, <1>3, <1>4 DEF SentOnce, OneWorker, BatchBounds,
               CursorBounds, Mail!Job
  <2>2. CASE k # j
    BY <1>0, <1>1, <1>3, <1>4, <1>7, <2>2, OtherBroadcasts
  <2> QED BY <2>1, <2>2
<1>8. Mail!BroadcastReachesAll'
  BY <1>1 DEF Mail!BroadcastReachesAll, Mail!NobodySkipped, Mail!TwiceOnlyIfDisturbed
<1> QED BY <1>5, <1>6, <1>7, <1>8

\* One more user is sent the broadcast, or the batch ends.
LEMMA BatchGoesOn ==
    ASSUME BroadcastAssumptions, BroadcastInv, NEW w \in Mail!Workers, Mail!SendTo(w)
    PROVE  BroadcastInv'
<1> USE DEF BroadcastInv, BroadcastParts, BroadcastTyped
<1> DEFINE j == Mail!Job(w)
           n == worker[w].at + 1
<1>0. /\ Mail!Alive(w) /\ Mail!InBatch(w) /\ j \in Jobs /\ worker[w] \in TaskType
      /\ worker[w].at \in 0..USERS /\ worker[w].upto \in 0..USERS
      /\ worker[w].at <= worker[w].upto /\ USERS \in Nat
  BY WorkerTypes DEF Mail!SendTo, Mail!Alive, Mail!InBatch, TaskType, BroadcastAssumptions
<1>1. UNCHANGED <<status, cursor, cmd, disturbed, blind, task>>
  BY DEF Mail!SendTo
<1>2. CASE worker' = [worker EXCEPT ![w].pc = "store"] /\ UNCHANGED got
  <2>1. /\ worker'[w] \in TaskType /\ worker'[w].pc = "store" /\ worker'[w].job = j
        /\ worker'[w].at = worker[w].at /\ worker'[w].upto = worker[w].upto
        /\ worker' \in [Mail!Workers -> TaskType]
        /\ \A v \in Mail!Workers : v # w => worker'[v] = worker[v]
    <3> DEFINE r == [worker[w] EXCEPT !.pc = "store"]
    <3>1. r \in TaskType
      BY <1>0 DEF TaskType, TaskPcs
    <3>2. r.pc = "store" /\ r.job = j /\ r.at = worker[w].at /\ r.upto = worker[w].upto
      BY <1>0 DEF TaskType, Mail!Job
    <3>3. worker' = [worker EXCEPT ![w] = r]
      BY <1>2
    <3> HIDE DEF r
    <3> QED BY <3>1, <3>2, <3>3 DEF TasksTyped
  <2>2. \A v \in Mail!Workers :
          /\ worker'[v].job = worker[v].job /\ worker'[v].at = worker[v].at
          /\ Mail!InBatch(v)' <=> Mail!InBatch(v)
    BY <1>0, <2>1 DEF Mail!InBatch, Mail!Job
  <2>3. BroadcastTyped'
    <3>1. worker[w].job # 0
      BY <1>0 DEF TasksTyped, Mail!Alive
    <3>2. TasksTyped'
      BY <1>0, <1>1, <2>1, <3>1 DEF TasksTyped, Mail!Job
    <3> QED BY <1>1, <1>2, <3>2 DEF CommandsTyped, RowsTyped
  <2>4. BatchSent'
    BY <1>2, <2>2 DEF BatchSent, Mail!Job
  <2>5. ASSUME NEW k \in Jobs, k \notin disturbed' PROVE SentOnce(k)'
    <3>1. SentOnce(k)
      BY <1>1, <2>5
    <3>2. OneWorker(k)' /\ BatchBounds(k)'
      BY <1>2, <2>2, <3>1 DEF SentOnce, OneWorker, BatchBounds, Mail!Job
    <3>3. CursorBounds(k)'
      BY <1>1, <1>2, <2>2, <3>1 DEF SentOnce, CursorBounds, Mail!Job
    <3> QED BY <1>2, <3>1, <3>2, <3>3 DEF SentOnce
  <2>6. Mail!BroadcastReachesAll'
    BY <1>1, <1>2 DEF Mail!BroadcastReachesAll, Mail!NobodySkipped, Mail!TwiceOnlyIfDisturbed
  <2> QED BY <2>3, <2>4, <2>5, <2>6
<1>3. CASE /\ worker[w].at # worker[w].upto
           /\ worker' = [worker EXCEPT ![w].at = @ + 1]
           /\ got' = [got EXCEPT ![j][n] = Mail!Min({@ + 1, 2})]
  <2>1. n \in 1..USERS /\ n <= worker[w].upto
    BY <1>0, <1>3
  <2>2. /\ worker'[w] \in TaskType /\ worker'[w].pc = worker[w].pc /\ worker'[w].job = j
        /\ worker'[w].at = n /\ worker'[w].upto = worker[w].upto
        /\ worker' \in [Mail!Workers -> TaskType]
        /\ \A v \in Mail!Workers : v # w => worker'[v] = worker[v]
    <3> DEFINE r == [worker[w] EXCEPT !.at = @ + 1]
    <3>1. n \in 0..USERS
      BY <2>1
    <3>2. r \in TaskType
      BY <1>0, <3>1 DEF TaskType
    <3>3. r.pc = worker[w].pc /\ r.job = j /\ r.at = n /\ r.upto = worker[w].upto
      BY <1>0 DEF TaskType, Mail!Job
    <3>4. worker' = [worker EXCEPT ![w] = r]
      BY <1>3
    <3> HIDE DEF r
    <3> QED BY <3>2, <3>3, <3>4 DEF TasksTyped
  <2> DEFINE c == Mail!Min({got[j][n] + 1, 2})
  <2>3. got[j] \in [1..USERS -> 0..2] /\ got[j][n] \in 0..2
    BY <1>0, <2>1 DEF RowsTyped
  <2>4. c \in 1..2 /\ (got[j][n] = 0 => c = 1)
    <3>1. got[j][n] + 1 \in Nat /\ 2 \in Nat
      BY <2>3
    <3>2. c = IF got[j][n] + 1 <= 2 THEN got[j][n] + 1 ELSE 2
      BY <3>1, LeastOfTwo
    <3> HIDE DEF c
    <3> QED BY <2>3, <3>2
  <2>5. got' = [got EXCEPT ![j] = [got[j] EXCEPT ![n] = c]]
    BY <1>3
  <2> HIDE DEF c
  <2>6. /\ [got[j] EXCEPT ![n] = c] \in [1..USERS -> 0..2]
        /\ got'[j][n] = c /\ \A u \in 1..USERS : u # n => got'[j][u] = got[j][u]
        /\ \A k \in Jobs : k # j => got'[k] = got[k]
    BY <1>0, <2>1, <2>3, <2>4, <2>5 DEF RowsTyped
  <2>7. RowsTyped'
    BY <1>1, <2>5, <2>6 DEF RowsTyped
  <2>8. BroadcastTyped'
    <3>1. worker[w].job # 0 /\ worker[w].pc # "none"
      BY <1>0 DEF TasksTyped, Mail!Alive
    <3>2. TasksTyped'
      BY <1>0, <1>1, <2>1, <2>2, <3>1 DEF TasksTyped, Mail!Job
    <3> QED BY <1>1, <2>7, <3>2 DEF CommandsTyped
  <2>9. \A k \in Jobs, u \in 1..USERS : got[k][u] > 0 => got'[k][u] > 0
    BY <2>1, <2>4, <2>6
  <2>10. \A v \in Mail!Workers : Mail!InBatch(v)' <=> Mail!InBatch(v)
    BY <2>2 DEF Mail!InBatch
  <2>11. BatchSent'
    <3>1. ASSUME NEW v \in Mail!Workers, Mail!InBatch(v), NEW u \in 1..USERS, u <= worker'[v].at
          PROVE  got'[worker'[v].job][u] > 0
      <4>1. CASE v = w /\ u = n
        BY <2>2, <2>4, <2>6, <4>1
      <4>2. CASE v = w /\ u # n
        <5>1. u <= worker[w].at
          BY <1>0, <2>2, <3>1, <4>2
        <5> QED BY <1>0, <2>2, <2>9, <5>1, <4>2 DEF BatchSent
      <4>3. CASE v # w
        <5>1. Mail!Job(v) \in Jobs
          BY <3>1, WorkerTypes DEF Mail!InBatch, Mail!Alive
        <5> QED BY <2>2, <2>9, <3>1, <4>3, <5>1 DEF BatchSent, Mail!Job
      <4> QED BY <4>1, <4>2, <4>3
    <3> QED BY <2>10, <3>1 DEF BatchSent, Mail!Job
  <2>12. ASSUME NEW k \in Jobs, k \notin disturbed' PROVE SentOnce(k)'
    <3>1. CASE k = j
      <4>1. SentOnce(j) /\ \A v \in Mail!Workers : Mail!Job(v) = j => v = w
        BY <1>0, <1>1, <2>12, <3>1 DEF SentOnce, OneWorker
      <4>2. \A u \in 1..USERS : u > worker[w].at => got[j][u] = 0
        BY <1>0, <4>1 DEF SentOnce, BatchBounds
      <4>3. got'[j][n] = 1 /\ \A u \in 1..USERS : u > n => got'[j][u] = 0
        BY <1>0, <2>1, <2>4, <2>6, <4>2
      <4>4. \A v \in Mail!Workers : Mail!Job(v)' = j => v = w
        BY <2>2, <4>1 DEF Mail!Job
      <4>5. OneWorker(j)' /\ BatchBounds(j)' /\ CursorBounds(j)'
        <5>1. OneWorker(j)'
          BY <2>2, <4>1 DEF OneWorker, Mail!Job
        <5>2. BatchBounds(j)'
          BY <2>2, <4>3, <4>4 DEF BatchBounds, Mail!Job
        <5>3. CursorBounds(j)'
          BY <1>0, <2>2, <2>10 DEF CursorBounds, Mail!Job
        <5> QED BY <2>2, <5>1, <5>2, <5>3 DEF OneWorker, BatchBounds, CursorBounds, Mail!Job
      <4>6. \A u \in 1..USERS : got'[j][u] <= 1
        BY <2>6, <4>1, <4>3 DEF SentOnce
      <4>7. \A u \in 1..USERS : got'[k][u] <= 1
        BY <3>1, <4>6
      <4>8. OneWorker(k)' /\ BatchBounds(k)' /\ CursorBounds(k)'
        <5>1. OneWorker(k)'
          BY <2>2, <3>1, <4>1 DEF OneWorker, Mail!Job
        <5>2. BatchBounds(k)'
          BY <2>2, <3>1, <4>3, <4>4 DEF BatchBounds, Mail!Job
        <5>3. CursorBounds(k)'
          BY <1>0, <2>2, <2>10, <3>1 DEF CursorBounds, Mail!Job
        <5> QED BY <5>1, <5>2, <5>3
      <4> QED BY <4>7, <4>8 DEF SentOnce
    <3>2. CASE k # j
      BY <1>0, <1>1, <2>2, <2>6, <2>12, <3>2, OtherBroadcasts
    <3> QED BY <3>1, <3>2
  <2>13. Mail!BroadcastReachesAll'
    <3>1. Mail!NobodySkipped'
      <4>1. \A k \in Jobs : cursor[k] \in 0..USERS
        BY DEF RowsTyped
      <4> QED BY <1>0, <1>1, <2>9, <4>1 DEF Mail!BroadcastReachesAll, Mail!NobodySkipped
    <3>2. Mail!TwiceOnlyIfDisturbed'
      <4>1. ASSUME NEW k \in Jobs, NEW u \in 1..USERS, got'[k][u] > 1 PROVE k \in disturbed'
        <5>1. CASE k \notin disturbed'
          <6>1. got'[k][u] <= 1
            BY <2>12, <5>1 DEF SentOnce
          <6>2. got'[k][u] \in 0..2
            BY <2>7 DEF RowsTyped
          <6> QED BY <4>1, <6>1, <6>2
        <5> QED BY <5>1
      <4> QED BY <4>1 DEF Mail!TwiceOnlyIfDisturbed
    <3> QED BY <3>1, <3>2 DEF Mail!BroadcastReachesAll
  <2> QED BY <2>8, <2>11, <2>12, <2>13
<1> QED BY <1>2, <1>3 DEF Mail!SendTo

\* The cursor is moved behind the batch.
LEMMA BatchStored ==
    ASSUME BroadcastAssumptions, BroadcastInv, NEW w \in Mail!Workers, Mail!Store(w)
    PROVE  BroadcastInv'
<1> USE DEF BroadcastInv, BroadcastParts, BroadcastTyped
<1> DEFINE j == Mail!Job(w)
           c == IF status[j] = "gone" THEN cursor[j] ELSE worker[w].at
<1>0. /\ Mail!Alive(w) /\ Mail!InBatch(w) /\ j \in Jobs /\ worker[w] \in TaskType
      /\ worker[w].at \in 0..USERS /\ cursor[j] \in 0..USERS /\ USERS \in Nat
  BY WorkerTypes DEF Mail!Store, Mail!Alive, Mail!InBatch, TaskType, BroadcastAssumptions
<1>1. /\ UNCHANGED <<status, cmd, got, disturbed, blind, task>>
      /\ worker' = [worker EXCEPT ![w].pc = "top"]
      /\ cursor' = [cursor EXCEPT ![j] = c]
  BY DEF Mail!Store
<1>2. c \in 0..USERS /\ (status[j] # "gone" => c = worker[w].at)
      /\ (status[j] = "gone" => c = cursor[j])
  BY <1>0
<1> HIDE DEF c
<1>3. /\ worker'[w] \in TaskType /\ worker'[w].pc = "top" /\ worker'[w].job = j
      /\ worker'[w].at = worker[w].at /\ worker'[w].upto = worker[w].upto
      /\ worker' \in [Mail!Workers -> TaskType]
      /\ \A v \in Mail!Workers : v # w => worker'[v] = worker[v]
  <2> DEFINE r == [worker[w] EXCEPT !.pc = "top"]
  <2>1. r \in TaskType
    BY <1>0 DEF TaskType, TaskPcs
  <2>2. r.pc = "top" /\ r.job = j /\ r.at = worker[w].at /\ r.upto = worker[w].upto
    BY <1>0 DEF TaskType, Mail!Job
  <2>3. worker' = [worker EXCEPT ![w] = r]
    BY <1>1
  <2> HIDE DEF r
  <2> QED BY <2>1, <2>2, <2>3 DEF TasksTyped
<1>4. cursor'[j] = c /\ \A k \in Jobs : k # j => cursor'[k] = cursor[k]
  BY <1>0, <1>1 DEF RowsTyped
<1>5. BroadcastTyped'
  <2>1. worker[w].job # 0
    BY <1>0 DEF TasksTyped, Mail!Alive
  <2>2. TasksTyped'
    BY <1>0, <1>1, <1>3, <2>1 DEF TasksTyped, Mail!Job
  <2>3. RowsTyped'
    BY <1>0, <1>1, <1>2 DEF RowsTyped
  <2> QED BY <1>1, <2>2, <2>3 DEF CommandsTyped
<1>6. BatchSent'
  BY <1>1, <1>3 DEF BatchSent, Mail!InBatch, Mail!Job
<1>7. ASSUME NEW k \in Jobs, k \notin disturbed' PROVE SentOnce(k)'
  <2>1. CASE k = j
    <3>1. SentOnce(j) /\ \A v \in Mail!Workers : Mail!Job(v) = j => v = w
      BY <1>0, <1>1, <1>7, <2>1 DEF SentOnce, OneWorker
    <3>2. \A v \in Mail!Workers : Mail!Job(v)' = j => v = w
      BY <1>3, <3>1 DEF Mail!Job
    <3>3. ~Mail!InBatch(w)'
      BY <1>3 DEF Mail!InBatch
    <3>4. OneWorker(k)'
      BY <2>1, <3>2 DEF OneWorker
    <3>5. BatchBounds(k)'
      BY <2>1, <3>2, <3>3 DEF BatchBounds
    <3>6. CursorBounds(k)'
      <4>1. status[j] # "gone" => \A u \in 1..USERS : u > cursor'[j] => got[j][u] = 0
        BY <1>0, <1>2, <1>4, <3>1 DEF SentOnce, BatchBounds
      <4> QED BY <1>1, <2>1, <4>1 DEF CursorBounds
    <3> QED BY <1>1, <2>1, <3>1, <3>4, <3>5, <3>6 DEF SentOnce
  <2>2. CASE k # j
    BY <1>0, <1>1, <1>3, <1>4, <1>7, <2>2, OtherBroadcasts
  <2> QED BY <2>1, <2>2
<1>8. Mail!BroadcastReachesAll'
  <2>1. \A u \in 1..USERS : u <= worker[w].at => got[j][u] > 0
    BY <1>0 DEF BatchSent
  <2>2. \A u \in 1..c : got[j][u] > 0
    BY <1>0, <1>2, <2>1 DEF Mail!BroadcastReachesAll, Mail!NobodySkipped
  <2>3. Mail!NobodySkipped'
    BY <1>1, <1>4, <2>2 DEF Mail!BroadcastReachesAll, Mail!NobodySkipped
  <2>4. Mail!TwiceOnlyIfDisturbed'
    BY <1>1 DEF Mail!BroadcastReachesAll, Mail!TwiceOnlyIfDisturbed
  <2> QED BY <2>3, <2>4 DEF Mail!BroadcastReachesAll
<1> QED BY <1>5, <1>6, <1>7, <1>8

-----------------------------------------------------------------------------
LEMMA BroadcastInitially ==
    ASSUME BroadcastAssumptions
    PROVE  Mail!Init => BroadcastInv
<1> SUFFICES ASSUME Mail!Init PROVE BroadcastInv
  OBVIOUS
<1>1. BroadcastTyped
  <2>1. TasksTyped
    BY EmptyTask DEF Mail!Init, TasksTyped
  <2>2. CommandsTyped
    BY DEF Mail!Init, CommandsTyped, Mail!NoCommand, CommandPcs
  <2>3. RowsTyped
    BY DEF Mail!Init, RowsTyped, Statuses, BroadcastAssumptions
  <2> QED BY <2>1, <2>2, <2>3 DEF BroadcastTyped
<1>2. \A w \in Mail!Workers : ~Mail!InBatch(w) /\ Mail!Job(w) = 0
  BY DEF Mail!Init, Mail!InBatch, Mail!NoWorker, Mail!Job
<1>3. \A j \in Jobs : j # 0
  BY DEF BroadcastAssumptions
<1>4. \A j \in Jobs : SentOnce(j)
  BY <1>2, <1>3 DEF Mail!Init, SentOnce, OneWorker, BatchBounds, CursorBounds
<1>5. Mail!BroadcastReachesAll
  BY DEF Mail!Init, Mail!BroadcastReachesAll, Mail!NobodySkipped, Mail!TwiceOnlyIfDisturbed
<1> QED BY <1>1, <1>2, <1>4, <1>5 DEF BroadcastInv, BroadcastParts, BatchSent

LEMMA BroadcastStep ==
    ASSUME BroadcastAssumptions, BroadcastInv, [Mail!Next]_(Mail!vars)
    PROVE  BroadcastInv'
<1>0. BroadcastTyped
  BY DEF BroadcastInv
<1>1. ASSUME MailQuiet, BroadcastTyped' PROVE BroadcastInv'
  BY <1>1, QuietKeeps DEF BroadcastInv
<1>2. ASSUME NEW w \in Mail!Workers, Mail!WorkerStep(w) PROVE BroadcastInv'
  <2>1. CASE Mail!WorkerLocks(w)
    BY <1>0, <1>1, <2>1, WorkerStarts
  <2>2. CASE Mail!Stops(w) \/ Mail!LosesRow(w) \/ Mail!SeesPause(w) \/ Mail!NoneNext(w)
    BY <1>0, <1>1, <2>2, WorkerStops
  <2>3. CASE Mail!StoreFails(w)
    BY <1>0, <1>1, <2>3, WorkerStoreFails
  <2>4. CASE Mail!WorkerFails(w)
    BY <1>0, <1>1, <2>4, WorkerGivesUp
  <2>5. CASE Mail!Finish(w)
    BY <1>0, <1>1, <2>5, WorkerFinishes
  <2>6. CASE Mail!HandOver(w)
    BY <1>0, <1>1, <2>6, WorkerHandsOver
  <2>7. CASE Mail!Fetch(w)
    BY <2>7, BatchFetched
  <2>8. CASE Mail!SendTo(w)
    BY <2>8, BatchGoesOn
  <2>9. CASE Mail!Store(w)
    BY <2>9, BatchStored
  <2> QED BY <1>2, <2>1, <2>2, <2>3, <2>4, <2>5, <2>6, <2>7, <2>8, <2>9 DEF Mail!WorkerStep
<1>3. ASSUME NEW a \in Admins, Mail!CommandStep(a) PROVE BroadcastInv'
  <2>1. CASE \/ Mail!Confirm(a) \/ Mail!Queue(a) \/ Mail!PauseReads(a) \/ Mail!PauseWrites(a) \/ Mail!PauseTells(a)
             \/ Mail!Resend(a) \/ Mail!Delete(a) \/ Mail!CancelDrops(a) \/ Mail!NotFound(a)
    BY <1>0, <1>1, <2>1, CommandsOnRows
  <2>2. CASE Mail!Begin(a) \/ Mail!Replace(a) \/ Mail!Start(a) \/ Mail!CancelStops(a)
    BY <1>0, <1>1, <2>2, CommandsOnTasks
  <2> QED BY <1>3, <2>1, <2>2 DEF Mail!CommandStep
<1>4. ASSUME NEW j \in Jobs, Mail!Create(j) \/ \E a \in Admins, op \in Ops : Mail!Order(a, op, j)
      PROVE  BroadcastInv'
  BY <1>0, <1>1, <1>4, CommandsBegin
<1>5. CASE Mail!Restart \/ Mail!LockExpires
  BY <1>0, <1>1, <1>5, ProcessRestarts
<1>6. CASE UNCHANGED Mail!vars
  <2>1. UNCHANGED <<worker, task, status, cmd, cursor, got, disturbed, blind>>
    BY <1>6 DEF Mail!vars
  <2>2. TasksQuiet /\ TasksTyped' /\ StatusQuiet /\ RowsTyped'
    BY <1>0, <2>1, NoTaskChanges, NoStatusChanges DEF BroadcastTyped
  <2>3. CommandsTyped'
    BY <1>0, <2>1 DEF BroadcastTyped, CommandsTyped
  <2> QED BY <1>1, <2>1, <2>2, <2>3 DEF MailQuiet, BroadcastTyped
<1> QED BY <1>2, <1>3, <1>4, <1>5, <1>6 DEF Mail!Next

\* In every execution no user whom the cursor of a broadcast has passed was left out, a broadcast
\* that is done was sent to every target unless the targets could not be read, and nobody was
\* sent it twice unless a batch was cut off or two workers ran for it: for any number of
\* broadcasts, users, admins, commands and faults, with whatever lock.
THEOREM BroadcastReachesAllAlways ==
    ASSUME BroadcastAssumptions
    PROVE  Mail!Spec => []Mail!BroadcastReachesAll
<1>1. Mail!Init => BroadcastInv
  BY BroadcastInitially
<1>2. BroadcastInv /\ [Mail!Next]_(Mail!vars) => BroadcastInv'
  BY BroadcastStep
<1>3. BroadcastInv => Mail!BroadcastReachesAll
  BY DEF BroadcastInv, BroadcastParts
<1> QED BY <1>1, <1>2, <1>3, PTL DEF Mail!Spec
================================================================================
