---------------------------- MODULE BotCatalogue ----------------------------
(***************************************************************************)
(* The catalogue of a Telegram shop as its administrator keeps it from the *)
(* bot: the dialogues that publish a plan, add a product, edit one or add  *)
(* a price to one, the buttons that switch, copy, archive and delete, the  *)
(* web panel's writes to the same rows, and the customers who review a     *)
(* price and order it (telegram_runtime.py, telegram_commerce.py).  A      *)
(* dialogue lives in two dictionaries of the worker: where it stands, and  *)
(* what it has been told.  Rows are addressed by SQLite row numbers, which *)
(* are given again once the newest row is deleted.                         *)
(***************************************************************************)
EXTENDS Integers, FiniteSets, SequencesExt

CONSTANTS
    Inbounds,           \* inbounds a plan may use, as numbers
    MaxDialogues, MaxProducts, MaxPrices, MaxTurns  \* bounds

VARIABLES
    reseller,   \* the shop belongs to a reseller, not to the owner of the Hub
    credit,     \* a reseller's unlimited credit is above zero
    admin,      \* the chat is that of the configured administrator
    talk,       \* sessions: where the administrator's dialogue stands
    notes,      \* session_data: what it has been told: by which dialogue, and what
    begun,      \* dialogues begun so far
    products,   \* commerce_products
    prices,     \* commerce_prices
    issued,     \* products and prices that have had an id
    seen,       \* the price in the customer's review: its row, and which it was
    orders,     \* commerce_orders: which prices of which products were ordered
    archived,   \* products taken off sale for good and not switched on again
    turns       \* bound: changes of the administrator, of credit, by the web panel

catalogueVars == <<reseller, credit, admin, talk, notes, begun, products, prices, issued, seen,
                   orders, archived, turns>>
shelf == <<products, prices, issued, orders, archived, seen>>

Silent == "no dialogue"
Unseen == [row |-> 0, price |-> 0]
PlanAllowed == ~reseller \/ credit
Empty == [f \in {} |-> 0]

\* A shop with one plan for sale; n products have been added so far, t turns are over.
BotCatalogueInit(n, t) ==
    /\ reseller \in BOOLEAN /\ credit = TRUE /\ admin = TRUE
    /\ talk = Silent /\ notes = Empty /\ begun = 0
    /\ products = {[id |-> 1, row |-> 1, kind |-> "volume", active |-> TRUE, whole |-> TRUE,
                    edited |-> {}]}
    /\ prices = {[id |-> 1, row |-> 1, product |-> 1, volume |-> "some", active |-> TRUE,
                  whole |-> TRUE]}
    /\ issued = [product |-> n, price |-> 1]
    /\ seen = Unseen /\ orders = {} /\ archived = {} /\ turns = t

-----------------------------------------------------------------------------
\* The questions of the dialogues: what a text answers and which question comes next.

TextStep ==
    "simple_name"         :> <<"name", "simple_category_wait">> @@
    "simple_category"     :> <<"category", "simple_type_wait">> @@
    "simple_price"        :> <<"price", "simple_duration_wait">> @@
    "simple_duration"     :> <<"duration", "simple_volume_wait">> @@
    "simple_volume"       :> <<"volume", "simple_ip_wait">> @@
    "simple_ip"           :> <<"ip", "simple_inbounds">> @@
    "product_name"        :> <<"name", "product_category">> @@
    "product_category"    :> <<"category", "product_type_wait">> @@
    "product_description" :> <<"description", "product_limit">> @@
    "edit_name"           :> <<"name", "edit_category">> @@
    "edit_category"       :> <<"category", "edit_description">> @@
    "edit_description"    :> <<"description", "edit_limit">> @@
    "price_label"         :> <<"label", "price_amount">> @@
    "price_amount"        :> <<"price", "price_duration">> @@
    "price_duration"      :> <<"duration", "price_volume">> @@
    "price_volume"        :> <<"volume", "price_ip">> @@
    "price_ip"            :> <<"ip", "price_hwid">> @@
    "price_hwid"          :> <<"hwid", "price_activation_wait">>

\* The same for the questions answered with a button.
ButtonStep ==
    "simple_name"           :> <<"name", "simple_category_wait">> @@
    "simple_category_wait"  :> <<"category", "simple_type_wait">> @@
    "simple_type_wait"      :> <<"kind", "simple_price">> @@
    "simple_duration_wait"  :> <<"duration", "simple_volume_wait">> @@
    "simple_volume_wait"    :> <<"volume", "simple_ip_wait">> @@
    "simple_ip_wait"        :> <<"ip", "simple_inbounds">> @@
    "product_type_wait"     :> <<"kind", "product_description">> @@
    "price_activation_wait" :> <<"activation", "price_delivery_wait">> @@
    "price_delivery_wait"   :> <<"delivery", "price_inbounds">>

\* The buttons for an answer of one's own.
CustomStep ==
    "simple_category_wait" :> "simple_category" @@ "simple_duration_wait" :> "simple_duration" @@
    "simple_volume_wait" :> "simple_volume" @@ "simple_ip_wait" :> "simple_ip"

Answers(field) ==
    CASE field = "kind"     -> {"volume", "unlimited"}
      [] field = "ip"       -> {"some", "zero"}
      [] field = "delivery" -> {"link", "config"}
      [] OTHER              -> {"some"}

Told(f) == notes[f].val
Note(f, v) == f :> [by |-> begun, val |-> v]

\* An unlimited plan asks for no volume.
NextQuestion(s, next) ==
    CASE s \in {"simple_duration", "simple_duration_wait"} /\ Told("kind") = "unlimited"
                                                        -> "simple_ip_wait"
      [] s = "price_duration" /\ Told("kind") = "unlimited" -> "price_ip"
      [] OTHER -> next

\* What is noted with an answer: an unlimited plan's volume, a fresh choice of inbounds.
Noted(s, field, v) ==
    Note(field, v)
    @@ (IF field = "duration" /\ Told("kind") = "unlimited" THEN Note("volume", "zero")
        ELSE Empty)
    @@ (IF s \in {"simple_ip", "simple_ip_wait", "price_delivery_wait"} THEN Note("selected", {})
        ELSE Empty)
    @@ notes

\* A refused answer raises and leaves the dialogue where it is.
Accepted(s, field, v) ==
    /\ field = "kind" /\ v = "unlimited" => PlanAllowed
    /\ field = "ip" /\ v = "zero" => \/ ~reseller
                                     \/ IF s = "price_ip" THEN Told("volume") # "zero"
                                                          ELSE Told("kind") = "volume"

Answer(s, step) ==
    /\ admin /\ talk = s
    /\ \E v \in Answers(step[1]) :
          /\ Accepted(s, step[1], v)
          /\ notes' = Noted(s, step[1], v)
          /\ talk' = NextQuestion(s, step[2])
    /\ UNCHANGED <<reseller, credit, admin, begun, turns>> /\ UNCHANGED shelf

WriteAnswer == \E s \in DOMAIN TextStep : Answer(s, TextStep[s])
PressAnswer == \E s \in DOMAIN ButtonStep : Answer(s, ButtonStep[s])

PressCustom ==
    /\ admin /\ talk \in DOMAIN CustomStep
    /\ talk' = CustomStep[talk]
    /\ UNCHANGED <<reseller, credit, admin, notes, begun, turns>> /\ UNCHANGED shelf

ToggleInbound(i) ==
    /\ admin /\ talk \in {"simple_inbounds", "price_inbounds"}
    /\ notes' = Note("selected", SymDiff(Told("selected"), {i})) @@ notes
    /\ UNCHANGED <<reseller, credit, admin, talk, begun, turns>> /\ UNCHANGED shelf

\* The plan's inbounds are chosen: on to the preview.
PlanReview ==
    /\ admin /\ talk = "simple_inbounds" /\ Told("selected") # {}
    /\ notes' = Note("inbounds", Told("selected")) @@ notes
    /\ talk' = "simple_review"
    /\ UNCHANGED <<reseller, credit, admin, begun, turns>> /\ UNCHANGED shelf

Start(first, told) ==
    /\ begun < MaxDialogues
    /\ begun' = begun + 1
    /\ talk' = first
    /\ notes' = [f \in DOMAIN told |-> [by |-> begun + 1, val |-> told[f]]]

End == talk' = Silent /\ notes' = Empty

\* The menu's buttons are pressed at any time: a new dialogue takes the place of the old.
StartPlan ==
    /\ admin /\ Start("simple_name", Empty)
    /\ UNCHANGED <<reseller, credit, admin, turns>> /\ UNCHANGED shelf
StartProduct ==
    /\ admin /\ Start("product_name", Empty)
    /\ UNCHANGED <<reseller, credit, admin, turns>> /\ UNCHANGED shelf
StartEdit(p) ==
    /\ admin /\ Start("edit_name", [row |-> p.row, meant |-> p.id])
    /\ UNCHANGED <<reseller, credit, admin, turns>> /\ UNCHANGED shelf
StartPrice(p) ==
    /\ admin /\ Start("price_label", [row |-> p.row, product |-> p.id, kind |-> p.kind])
    /\ UNCHANGED <<reseller, credit, admin, turns>> /\ UNCHANGED shelf

\* /cancel and the cancel buttons.
Cancel ==
    /\ talk # Silent
    /\ End
    /\ UNCHANGED <<reseller, credit, admin, begun, turns>> /\ UNCHANGED shelf

\* The panel starts again: dialogues are in its memory only.
ForgetDialogues ==
    /\ turns < MaxTurns /\ turns' = turns + 1
    /\ End
    /\ UNCHANGED <<reseller, credit, admin, begun>> /\ UNCHANGED shelf

-----------------------------------------------------------------------------
\* What the dialogues write.  A row takes the number after the highest there is.

NextRow(rows) == 1 + Max({0} \cup {r.row : r \in rows})
\* All of it was told by one dialogue.
OfOneDialogue == \A f \in DOMAIN notes : notes[f].by = begun

NewProduct ==
    [id |-> issued.product + 1, row |-> NextRow(products), kind |-> Told("kind"), active |-> TRUE,
     whole |-> OfOneDialogue, edited |-> {}]

\* Whole: it has inbounds, the main one among them, and a reseller's unlimited plan has a
\* limit of addresses.
NewPrice(product, ids, primary) ==
    [id |-> issued.price + 1, row |-> NextRow(prices), product |-> product,
     volume |-> Told("volume"), active |-> TRUE,
     whole |-> /\ OfOneDialogue /\ primary \in ids
               /\ reseller /\ Told("volume") = "zero" => Told("ip") # "zero"]

\* create_simple_plan: the product and its price are one transaction.
PublishPlan ==
    /\ admin /\ talk = "simple_review"
    /\ Told("volume") = "zero" => PlanAllowed
    /\ issued.product < MaxProducts /\ issued.price < MaxPrices
    /\ products' = products \cup {NewProduct}
    /\ prices' = prices \cup
          {NewPrice(issued.product + 1, Told("inbounds"), Min(Told("inbounds")))}
    /\ issued' = [product |-> issued.product + 1, price |-> issued.price + 1]
    /\ End
    /\ UNCHANGED <<reseller, credit, admin, begun, seen, orders, archived, turns>>

SaveProduct ==
    /\ admin /\ talk = "product_limit"
    /\ Told("kind") = "unlimited" => PlanAllowed
    /\ issued.product < MaxProducts
    /\ products' = products \cup {NewProduct}
    /\ issued' = [issued EXCEPT !.product = @ + 1]
    /\ End
    /\ UNCHANGED <<reseller, credit, admin, begun, prices, seen, orders, archived, turns>>

\* The product is found again by its row number.
SaveEdit ==
    /\ admin /\ talk = "edit_limit"
    /\ \E p \in products :
          /\ p.row = Told("row")
          /\ products' = (products \ {p}) \cup {[p EXCEPT !.edited = @ \cup {Told("meant")}]}
    /\ End
    /\ UNCHANGED <<reseller, credit, admin, begun, prices, issued, seen, orders, archived, turns>>

\* Nobody looks whether the product is still there.
SavePrice(ids, primary) ==
    /\ Told("volume") = "zero" => PlanAllowed
    /\ issued.price < MaxPrices
    /\ prices' = prices \cup {NewPrice(Told("product"), ids, primary)}
    /\ issued' = [issued EXCEPT !.price = @ + 1]
    /\ End
    /\ UNCHANGED <<reseller, credit, admin, begun, products, seen, orders, archived, turns>>

\* A delivery that includes a configuration needs to know which inbound's.
PriceInboundsDone ==
    /\ admin /\ talk = "price_inbounds" /\ Told("selected") # {}
    /\ \/ Told("delivery") # "config" /\ SavePrice(Told("selected"), Min(Told("selected")))
       \/ /\ Told("delivery") = "config"
          /\ notes' = Note("inbounds", Told("selected")) @@ notes
          /\ talk' = "price_primary_wait"
          /\ UNCHANGED <<reseller, credit, admin, begun, turns>> /\ UNCHANGED shelf

ChoosePrimary(i) ==
    /\ admin /\ talk = "price_primary_wait"
    /\ i \in Told("inbounds")
    /\ SavePrice(Told("inbounds"), i)

-----------------------------------------------------------------------------
\* The buttons of a product and of a price, pressed at any time.

PricesOf(p) == {v \in prices : v.product = p.id}
Sold(p) == \E o \in orders : o.product = p.id

Toggle(p) ==
    /\ admin
    /\ ~p.active /\ (p.kind = "unlimited" \/ \E v \in PricesOf(p) : v.volume = "zero")
          => PlanAllowed
    /\ products' = (products \ {p}) \cup {[p EXCEPT !.active = ~@]}
    /\ archived' = archived \ {p.id}
    /\ UNCHANGED <<reseller, credit, admin, talk, notes, begun, prices, issued, seen, orders,
                   turns>>

\* The copy is off sale, its prices too.
Clone(p) ==
    LET rows == SetToSeq(PricesOf(p))
        copy(k) == [rows[k] EXCEPT !.id = issued.price + k, !.row = NextRow(prices) + k - 1,
                                   !.product = issued.product + 1, !.active = FALSE]
    IN  /\ admin
        /\ p.kind = "unlimited" \/ (\E v \in PricesOf(p) : v.volume = "zero") => PlanAllowed
        /\ issued.product < MaxProducts /\ issued.price + Len(rows) <= MaxPrices
        /\ products' = products \cup
              {[p EXCEPT !.id = issued.product + 1, !.row = NextRow(products),
                         !.active = FALSE, !.edited = {}]}
        /\ prices' = prices \cup {copy(k) : k \in DOMAIN rows}
        /\ issued' = [product |-> issued.product + 1, price |-> issued.price + Len(rows)]
        /\ UNCHANGED <<reseller, credit, admin, talk, notes, begun, seen, orders, archived,
                       turns>>

\* A product that was ever ordered is archived instead: its history stays.
DeleteProduct(p) ==
    /\ admin
    /\ IF Sold(p)
       THEN /\ products' = (products \ {p}) \cup {[p EXCEPT !.active = FALSE]}
            /\ prices' = (prices \ PricesOf(p))
                            \cup {[v EXCEPT !.active = FALSE] : v \in PricesOf(p)}
            /\ archived' = archived \cup {p.id}
       ELSE /\ products' = products \ {p} /\ prices' = prices \ PricesOf(p)
            /\ UNCHANGED archived
    /\ UNCHANGED <<reseller, credit, admin, talk, notes, begun, issued, seen, orders, turns>>

TogglePrice(v) ==
    /\ admin
    /\ ~v.active /\ v.volume = "zero" => PlanAllowed
    /\ prices' = (prices \ {v}) \cup {[v EXCEPT !.active = ~@]}
    /\ UNCHANGED <<reseller, credit, admin, talk, notes, begun, products, issued, seen, orders,
                   archived, turns>>

DeletePrice(v) ==
    /\ admin
    /\ prices' = (prices \ {v}) \cup (IF \E o \in orders : o.price = v.id
                                      THEN {[v EXCEPT !.active = FALSE]} ELSE {})
    /\ UNCHANGED <<reseller, credit, admin, talk, notes, begun, products, issued, seen, orders,
                   archived, turns>>

-----------------------------------------------------------------------------
\* The web panel, which writes a product or a price whatever the bot is at.

WebSaveProduct(p, kind, on) ==
    /\ turns < MaxTurns /\ turns' = turns + 1
    /\ kind = "unlimited" => PlanAllowed
    /\ products' = (products \ {p}) \cup {[p EXCEPT !.kind = kind, !.active = on]}
    /\ archived' = IF on THEN archived \ {p.id} ELSE archived
    /\ UNCHANGED <<reseller, credit, admin, talk, notes, begun, prices, issued, seen, orders>>

WebSavePrice(v, volume) ==
    /\ turns < MaxTurns /\ turns' = turns + 1
    /\ \E p \in products : p.id = v.product
    /\ volume = "zero" => PlanAllowed
    /\ prices' = (prices \ {v}) \cup {[v EXCEPT !.volume = volume, !.active = TRUE]}
    /\ UNCHANGED <<reseller, credit, admin, talk, notes, begun, products, issued, seen, orders,
                   archived>>

\* The settings name another administrator, or this one again.
AdminChanges ==
    /\ turns < MaxTurns /\ turns' = turns + 1
    /\ admin' = ~admin
    /\ UNCHANGED <<reseller, credit, talk, notes, begun>> /\ UNCHANGED shelf

CreditChanges ==
    /\ turns < MaxTurns /\ turns' = turns + 1
    /\ reseller /\ credit' = ~credit
    /\ UNCHANGED <<reseller, admin, talk, notes, begun>> /\ UNCHANGED shelf

-----------------------------------------------------------------------------
\* The customer.  The review shows a price; ordering looks the row number up again.

Review(v) ==
    /\ v.active
    /\ \E p \in products : p.id = v.product
    /\ seen' = [row |-> v.row, price |-> v.id]
    /\ UNCHANGED <<reseller, credit, admin, talk, notes, begun, products, prices, issued, orders,
                   archived, turns>>

\* Faulty variant: only the price is looked at.
PriceOnSale(v, p) == v.active

\* create_order.
OnSale(v, p) == v.active /\ p.active

Buy ==
    /\ \E v \in prices, p \in products :
          /\ v.row = seen.row /\ v.product = p.id
          /\ OnSale(v, p)
          /\ v.volume = "zero" => PlanAllowed
          /\ orders' = orders \cup {[price |-> v.id, product |-> p.id,
                                     swapped |-> \E w \in prices : w.id = seen.price /\ w # v,
                                     withdrawn |-> p.id \in archived]}
    /\ UNCHANGED <<reseller, credit, admin, talk, notes, begun, products, prices, issued, seen,
                   archived, turns>>

BotCatalogueNext ==
    \/ WriteAnswer \/ PressAnswer \/ PressCustom \/ PlanReview \/ PriceInboundsDone
    \/ StartPlan \/ StartProduct
    \/ \E p \in products : \/ StartEdit(p) \/ StartPrice(p) \/ Clone(p) \/ DeleteProduct(p)
                           \/ Toggle(p)
                           \/ \E kind \in {"volume", "unlimited"}, on \in BOOLEAN :
                                 WebSaveProduct(p, kind, on)
    \/ Cancel \/ ForgetDialogues \/ PublishPlan \/ SaveProduct \/ SaveEdit
    \/ \E i \in Inbounds : ToggleInbound(i) \/ ChoosePrimary(i)
    \/ \E v \in prices : \/ TogglePrice(v) \/ DeletePrice(v) \/ Review(v)
                         \/ \E volume \in {"some", "zero"} : WebSavePrice(v, volume)
    \/ AdminChanges \/ CreditChanges
    \/ Buy

BotCatalogueSpec == BotCatalogueInit(1, 0) /\ [][BotCatalogueNext]_catalogueVars

-----------------------------------------------------------------------------
BotCatalogueTypeOK ==
    /\ {reseller, credit, admin} \subseteq BOOLEAN
    /\ talk \in {Silent, "product_limit", "edit_limit", "simple_inbounds", "simple_review",
                 "price_inbounds", "price_primary_wait"}
                \cup DOMAIN TextStep \cup DOMAIN ButtonStep
    /\ begun \in 0..MaxDialogues /\ \A f \in DOMAIN notes : notes[f].by \in 1..begun
    /\ \A p \in products : p.id \in 1..issued.product /\ p.row \in 1..issued.product
    /\ \A v \in prices : v.id \in 1..issued.price /\ v.row \in 1..issued.price
    /\ archived \subseteq 1..issued.product /\ turns \in 0..MaxTurns

\* What is saved was told by one dialogue, and it can be delivered.
PlansAreWhole == \A r \in products \cup prices : r.whole

\* An edit changes the product it was begun for as long as there is one.
EditsHitTheirProduct ==
    \A p \in products, q \in products : q.id \in p.edited => p = q

\* A customer gets the price he reviewed while it exists, and nothing of a product that
\* was archived, although its prices' buttons and dialogues live on.
OrdersAreForWhatIsSold == \A o \in orders : ~o.swapped /\ ~o.withdrawn

\* What was ordered is never deleted.
OrdersKeepTheirPlan ==
    \A o \in orders : /\ \E v \in prices : v.id = o.price
                      /\ \E p \in products : p.id = o.product

CatalogueHolds ==
    PlansAreWhole /\ EditsHitTheirProduct /\ OrdersAreForWhatIsSold /\ OrdersKeepTheirPlan
=============================================================================
