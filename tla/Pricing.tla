-------------------------------- MODULE Pricing --------------------------------
(***************************************************************************)
(* What an order costs.  A checkout in one channel quotes the delivery     *)
(* method from the channel's settings, reads the price of one line after   *)
(* another while staff may be replacing prices, has each line taxed by its *)
(* class, and captures the sums.  Money is counted in the stored quantum   *)
(* (0.0001), so rounding is to a whole number; weights are in grams.       *)
(***************************************************************************)
EXTENDS Totals, Sequences, SequencesExt, FiniteSetsExt

CONSTANTS Goods,       \* variants sold in the channel
          Grams,       \* variant -> its weight
          TaxClassOf,  \* variant -> tax class of its product
          StartPrices, \* variant -> price at first, None when it has none
          NewPrices,   \* what staff may set a price to
          Currency,    \* currency of the channel
          MethodList,  \* SHIPPING_METHODS: the entries in the order they are listed
          ZoneList,    \* SHIPPING_ZONES: the entries in the order they are listed
          Aliases,     \* SHIPPING_PROVINCE_ALIASES: folded spelling -> province
          Fold,        \* spelling -> the spelling without its case (str.casefold)
          Places,      \* provinces and cities an address may name
          TaxClasses,  \* TAX_CLASSES: class -> percentage
          ChannelRate, \* TAX_RATES: percentage, None when the channel has none
          ItemLists,   \* lines a cart or a member of staff may ask for
          Pricings,    \* checkouts in flight together
          MaxMoney,    \* greatest stored amount (10^18 - 1)
          None

\* Prices are amounts that are stored or configured; the domain refuses an entry with any
\* other, and an order in a place without a province.  A table of weights names bounds in
\* grams and may leave out a bound.
IsEntry(method) ==
    /\ method.code # "" /\ method.pickup \in BOOLEAN
    /\ method.price \in Nat
    /\ \A zone \in DOMAIN method.zoneRates : method.zoneRates[zone] \in Nat
    /\ method.brackets # None => method.brackets \in Seq([upTo : Nat \cup {None}, price : Nat])

ASSUME PricingAssumption ==
    /\ MaxMoney \in Nat
    /\ None \notin Int /\ None \notin [rate : Nat, amount : Nat]
    /\ Grams \in [Goods -> Nat]
    /\ StartPrices \in [Goods -> 0..MaxMoney \cup {None}]
    /\ NewPrices \subseteq 0..MaxMoney \cup {None}
    /\ \A items \in ItemLists : items \in Seq([sku : Goods, quantity : Nat])
    /\ Places \subseteq [province : DOMAIN Fold \ {""}, city : DOMAIN Fold]
    /\ ZoneList \in Seq(ToSet(ZoneList)) /\ MethodList \in Seq(ToSet(MethodList))
    /\ \A method \in ToSet(MethodList) : IsEntry(method)

VARIABLES prices,    \* variant -> its price, or None
          checkouts  \* checkout -> what it has captured

priceVars == <<prices, checkouts>>

NoPlace == [province |-> "", city |-> ""]

NoCheckout == [phase |-> "idle"]

IsMoney(amount) == amount \in 0..MaxMoney

PricingInit ==
    /\ prices = StartPrices
    /\ checkouts = [r \in Pricings |-> NoCheckout]
-----------------------------------------------------------------------------
(* Where an order ships. *)

\* Mutant of Covers: spellings are compared as written.
CoversAsWritten(zone, place) ==
    /\ place.province \in zone.provinces
    /\ zone.cities = {} \/ place.city \in zone.cities

\* Destination.match_key.
MatchKey(place) == Fold[place.province]

Covers(zone, place) ==
    /\ MatchKey(place) \in {Fold[p] : p \in zone.provinces}
    /\ zone.cities = {} \/ Fold[place.city] \in {Fold[c] : c \in zone.cities}

\* The province under which the zones know the place.
Canonical(place) ==
    IF MatchKey(place) \in DOMAIN Aliases
    THEN [place EXCEPT !.province = Aliases[MatchKey(place)]]
    ELSE place

\* The first zone that covers the place.
ResolveZone(place) ==
    LET covering == {i \in DOMAIN ZoneList : Covers(ZoneList[i], place)}
    IN  IF covering = {} THEN None ELSE ZoneList[Min(covering)].code

ZoneFor(place) == IF place = NoPlace THEN None ELSE ResolveZone(Canonical(place))
-----------------------------------------------------------------------------
(* What delivery costs. *)

CoversWeight(bracket, grams) == bracket.upTo = None \/ grams <= bracket.upTo

\* Bounds increase up to one overflow bracket, which is the last.
WellFormedTable(table) ==
    /\ table # <<>>
    /\ \A i \in DOMAIN table : table[i].upTo = None <=> i = Len(table)
    /\ \A i \in 1..Len(table) - 1 : table[i].upTo > 0
    /\ \A i \in 1..Len(table) - 2 : table[i].upTo < table[i + 1].upTo

Weighed(method) == method.brackets # None

\* _to_method: an entry that the domain refuses is dropped.
WellFormed(method) ==
    /\ 0 <= method.minDays /\ method.minDays <= method.maxDays
    /\ Weighed(method) => method.zoneRates = <<>> /\ WellFormedTable(method.brackets)

Offered == {i \in DOMAIN MethodList : WellFormed(MethodList[i])}

ForZone(method, zone) ==
    IF zone \in DOMAIN method.zoneRates THEN method.zoneRates[zone] ELSE method.price

\* The price a method is listed at: the lightest bracket, or that of the zone.
ListedPrice(method, place) ==
    IF Weighed(method) THEN Head(method.brackets).price ELSE ForZone(method, ZoneFor(place))

\* ShippingMethodCollectionView: the methods a shopper chooses from, by their places in the
\* settings.
Chooser(place) ==
    [i \in Offered |-> [code  |-> MethodList[i].code,
                        price |-> ListedPrice(MethodList[i], place)]]

\* The first entry with the code.
GetMethod(code) ==
    LET named == {i \in Offered : MethodList[i].code = code}
    IN  IF named = {} THEN None ELSE MethodList[Min(named)]

\* ShippingMethod.quote: by weight, the first bracket that covers it.
Cost(method, place, grams) ==
    LET table == method.brackets IN
    IF Weighed(method)
    THEN table[Min({i \in DOMAIN table : CoversWeight(table[i], grams)})].price
    ELSE ListedPrice(method, place)

\* A method that is not offered, or is priced in another currency, quotes nothing.
Quote(code, place, grams) ==
    LET method == GetMethod(code) IN
    IF method = None \/ method.currency # Currency THEN None
    ELSE [code |-> code, cost |-> Cost(method, place, grams), pickup |-> method.pickup]
-----------------------------------------------------------------------------
(* What tax is due. *)

\* A rate is a percentage.
IsRate(rate) == rate \in 0..100

\* A class of its own rate, the standard class at the channel's, any other exempt; a rate
\* that is no percentage taxes nothing.
RateFor(class) ==
    LET rate == IF class \in DOMAIN TaxClasses THEN TaxClasses[class]
                ELSE IF class = "standard" THEN ChannelRate ELSE None
    IN  IF rate = None THEN None ELSE IF IsRate(rate) THEN rate ELSE None

\* calculate_tax: half up.
TaxDue(amount, rate) == (2 * amount * rate + 100) \div 200

\* What is taxed: every line in its class, and delivery that costs something.
Charges(lines, cost) ==
    [i \in DOMAIN lines |-> [amount |-> lines[i].total, class |-> TaxClassOf[lines[i].sku]]]
        \o (IF cost > 0 THEN <<[amount |-> cost, class |-> "standard"]>> ELSE <<>>)

Rated(charges) == {i \in DOMAIN charges : RateFor(charges[i].class) # None}

TaxOf(charge) == TaxDue(charge.amount, RateFor(charge.class))

\* The tax of each charge is rounded and then added up; the rate shown is the highest.
CapturedTax(charges) ==
    LET rated == Rated(charges) IN
    IF rated = {} THEN None
    ELSE [rate   |-> Max({RateFor(charges[i].class) : i \in rated}),
          amount |-> Total([i \in rated |-> TaxOf(charges[i])])]
-----------------------------------------------------------------------------
(* The checkout. *)

ShippingCost(shipping) == IF shipping = None THEN 0 ELSE shipping.cost

Subtotal(lines) == Total([i \in DOMAIN lines |-> lines[i].total])

OrderTotal(lines, shipping, tax) ==
    Subtotal(lines) + ShippingCost(shipping) + IF tax = None THEN 0 ELSE tax.amount

OrderWeight(items) == Total([i \in DOMAIN items |-> Grams[items[i].sku] * items[i].quantity])

\* A line that cannot be sold is left out of the total of the cart.
PriceCart(items, unitPrices) ==
    LET saleable == {i \in DOMAIN items : unitPrices[items[i].sku] # None}
    IN  Total([i \in saleable |-> unitPrices[items[i].sku] * items[i].quantity])

\* What the shopper sees: the cart at the prices of the moment.
CartView(items) == PriceCart(items, prices)

OneLineEach(lines) == \A i, j \in DOMAIN lines : lines[i].sku = lines[j].sku => i = j

\* seen is no part of the program: the prices in force since the checkout began.
Begin(r, items, shipping, place) ==
    /\ checkouts' = [checkouts EXCEPT ![r] =
           [phase |-> "capturing", items |-> items, shipping |-> shipping, place |-> place,
            lines |-> <<>>, cart |-> CartView(items), seen |-> [k \in Goods |-> {prices[k]}]]]
    /\ UNCHANGED prices

\* Delivery needs an address; a pickup may come with one, which only chooses the rate.
PlaceOrder(r, items, code, place) ==
    LET quote == Quote(code, place, OrderWeight(items)) IN
    /\ checkouts[r] = NoCheckout
    /\ items # <<>> /\ OneLineEach(items)
    /\ quote # None
    /\ quote.pickup \/ place # NoPlace
    /\ Begin(r, items, quote, place)

\* Staff name the place themselves; their order has no delivery charge.
CreateManualOrder(r, items, place) == checkouts[r] = NoCheckout /\ Begin(r, items, None, place)

\* _capture_and_deduct: the next line at the price it has now; without one it is refused.
CaptureLine(r) ==
    LET q    == checkouts[r]
        item == q.items[Len(q.lines) + 1]
        line == [sku   |-> item.sku, unit |-> prices[item.sku],
                 total |-> prices[item.sku] * item.quantity]
    IN
    /\ q.phase = "capturing" /\ Len(q.lines) < Len(q.items)
    /\ prices[item.sku] # None
    /\ IsMoney(line.total)
    /\ checkouts' = [checkouts EXCEPT ![r].lines = Append(@, line)]
    /\ UNCHANGED prices

\* The aggregate.  A pickup captures no address.
NewOrder(q) ==
    LET tax == CapturedTax(Charges(q.lines, ShippingCost(q.shipping))) IN
    [lines    |-> q.lines,
     shipping |-> q.shipping,
     tax      |-> tax,
     address  |-> IF q.shipping # None /\ q.shipping.pickup THEN NoPlace ELSE q.place,
     total    |-> OrderTotal(q.lines, q.shipping, tax)]

\* Its row: what was not captured is blank, zero or NULL.
OrderRow(order) ==
    [methodCode |-> IF order.shipping = None THEN "" ELSE order.shipping.code,
     cost       |-> ShippingCost(order.shipping),
     isPickup   |-> order.shipping # None /\ order.shipping.pickup,
     taxRate    |-> IF order.tax = None THEN None ELSE order.tax.rate,
     taxAmount  |-> IF order.tax = None THEN 0 ELSE order.tax.amount,
     province   |-> order.address.province,
     city       |-> order.address.city,
     lines      |-> order.lines,
     total      |-> order.total]

\* order_to_domain: the aggregate read back.
OrderToDomain(row) ==
    [lines    |-> row.lines,
     shipping |-> IF row.methodCode = "" THEN None
                  ELSE [code |-> row.methodCode, cost |-> row.cost, pickup |-> row.isPickup],
     tax      |-> IF row.taxRate = None THEN None
                  ELSE [rate |-> row.taxRate, amount |-> row.taxAmount],
     address  |-> IF row.province = "" THEN NoPlace
                  ELSE [province |-> row.province, city |-> row.city],
     total    |-> row.total]

\* The amounts an order, or its pre-invoice, shows.
OrderPayload(order) ==
    [subtotal |-> Subtotal(order.lines), shippingCost |-> ShippingCost(order.shipping),
     tax |-> IF order.tax = None THEN None ELSE order.tax.amount, total |-> order.total]

\* The aggregate refuses an empty order, two lines of one variant and amounts too large.
CommitOrder(r) ==
    LET q == checkouts[r] IN
    /\ q.phase = "capturing" /\ Len(q.lines) = Len(q.items)
    /\ q.lines # <<>> /\ OneLineEach(q.lines)
    /\ IsMoney(NewOrder(q).total)
    /\ checkouts' = [checkouts EXCEPT ![r] =
           [phase |-> "placed", row |-> OrderRow(NewOrder(q)), place |-> q.place,
            weight |-> OrderWeight(q.items), cart |-> q.cart, seen |-> q.seen]]
    /\ UNCHANGED prices

\* A refused line, short stock or a lost worker rolls everything back.
Refuse(r) ==
    /\ checkouts[r].phase = "capturing"
    /\ checkouts' = [checkouts EXCEPT ![r] = NoCheckout]
    /\ UNCHANGED prices

\* Staff replace the price of a variant; None takes it off sale.
SetVariantPrices(k, price) ==
    /\ prices' = [prices EXCEPT ![k] = price]
    /\ checkouts' = [r \in Pricings |->
           IF checkouts[r].phase = "capturing"
           THEN [checkouts[r] EXCEPT !.seen[k] = @ \cup {price}] ELSE checkouts[r]]

PricingNext ==
    \/ \E r \in Pricings :
           \/ \E items \in ItemLists :
                  \/ \E place \in Places : CreateManualOrder(r, items, place)
                  \/ \E m \in ToSet(MethodList), place \in Places \cup {NoPlace} :
                         PlaceOrder(r, items, m.code, place)
           \/ CaptureLine(r) \/ CommitOrder(r) \/ Refuse(r)
    \/ \E k \in Goods, price \in NewPrices : SetVariantPrices(k, price)

PricingSpec == PricingInit /\ [][PricingNext]_priceVars
-----------------------------------------------------------------------------
Quotes == [code : {m.code : m \in ToSet(MethodList)}, cost : Nat, pickup : BOOLEAN]

OrderLines == [sku : Goods, unit : 0..MaxMoney, total : 0..MaxMoney]

PricingTypeOK ==
    /\ prices \in [Goods -> 0..MaxMoney \cup {None}]
    /\ \A r \in Pricings : LET q == checkouts[r] IN
           \/ q = NoCheckout
           \/ /\ q.phase = "capturing"
              /\ q.shipping \in Quotes \cup {None} /\ q.lines \in Seq(OrderLines)
           \/ /\ q.phase = "placed"
              /\ q.row.lines \in Seq(OrderLines)
              /\ {q.row.cost, q.row.taxAmount, q.row.total} \subseteq 0..MaxMoney
              /\ q.row.taxRate \in 0..100 \cup {None}

Placed == {r \in Pricings : checkouts[r].phase = "placed"}

\* Each price was in force at some moment of the checkout, and an order whose prices did
\* not change under it charges for the goods what the cart showed.
CapturedAsPriced(q, order) ==
    LET Seen(i) == q.seen[order.lines[i].sku] IN
    /\ \A i \in DOMAIN order.lines : order.lines[i].unit \in Seen(i) \ {None}
    /\ (\A i \in DOMAIN order.lines : Seen(i) = {order.lines[i].unit})
           => OrderPayload(order).subtotal = q.cart

SameArea(p, q) ==
    \/ p = q
    \/ /\ NoPlace \notin {p, q}
       /\ MatchKey(Canonical(p)) = MatchKey(Canonical(q)) /\ Fold[p.city] = Fold[q.city]

\* The delivery charged is what the chooser lists for the method, however the shopper spelt
\* the place there; by weight it is the price of the tightest bracket that covers the order.
ChargedAsListed(q, shipping) ==
    LET method   == GetMethod(shipping.code)
        covering == {b \in ToSet(method.brackets) : CoversWeight(b, q.weight)}
        listed   == {i \in Offered : MethodList[i].code = shipping.code}
    IN
    IF Weighed(method)
    THEN \E b \in covering :
             /\ shipping.cost = b.price
             /\ \A c \in covering \ {b} : c.upTo = None \/ (b.upTo # None /\ b.upTo < c.upTo)
    ELSE \A place \in Places \cup {NoPlace} :
             SameArea(place, q.place) => Chooser(place)[Min(listed)].price = shipping.cost

\* The tax differs from the exact one by at most half a quantum for each charge, no charge
\* has a higher rate than the one shown, and there is none only when nothing is taxed.
TaxedWithinRounding(order) ==
    LET charges  == Charges(order.lines, ShippingCost(order.shipping))
        rated    == Rated(charges)
        exact    == Total([i \in rated |-> charges[i].amount * RateFor(charges[i].class)])
        rounding == 100 * Cardinality(rated)
    IN
    /\ order.tax = None <=> rated = {}
    /\ order.tax # None =>
           /\ 200 * order.tax.amount - 2 * exact \in -rounding..rounding
           /\ \A i \in rated : RateFor(charges[i].class) <= order.tax.rate

\* The amounts shown add up, and only a pickup is delivered nowhere.
ReadsBack(order) ==
    LET shown == OrderPayload(order) IN
    /\ shown.total = shown.subtotal + shown.shippingCost + IF shown.tax = None THEN 0 ELSE shown.tax
    /\ order.address = NoPlace <=> order.shipping # None /\ order.shipping.pickup

\* What a placed order charges, read back from its row, is what the shopper was shown,
\* although cart, chooser and checkout price it separately: its goods at prices in force
\* during the checkout, its delivery as listed, its tax within the rounding of its charges
\* (PlaceOrder: "the rate re-resolves from the address and the real cart").
OrderAsShown ==
    \A r \in Placed :
        LET q     == checkouts[r]
            order == OrderToDomain(q.row)
        IN
        /\ CapturedAsPriced(q, order)
        /\ order.shipping # None => ChargedAsListed(q, order.shipping)
        /\ TaxedWithinRounding(order)
        /\ ReadsBack(order)
=============================================================================
