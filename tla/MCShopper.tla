------------------------------- MODULE MCShopper -------------------------------
(***************************************************************************)
(* What a shopper keeps and pays, on one small instance: the address book, *)
(* the guest's carts and the cost of an order.  The three share no state,  *)
(* so a behaviour moves in one of them, and the states checked are the sum *)
(* of theirs.                                                              *)
(***************************************************************************)
EXTENDS AddressBook, GuestCart, Pricing

CONSTANTS b1, b2

AddressMove == GuestCartInit /\ PricingInit /\ AddressNext /\ UNCHANGED <<cartVars, priceVars>>

GuestCartMove ==
    AddressInit /\ PricingInit /\ GuestCartNext /\ UNCHANGED <<addressVars, priceVars>>

PricingMove == AddressInit /\ GuestCartInit /\ PricingNext /\ UNCHANGED <<addressVars, cartVars>>

ShopperInit == AddressInit /\ GuestCartInit /\ PricingInit

ShopperNext == AddressMove \/ GuestCartMove \/ PricingMove

ShopperSpec ==
    ShopperInit /\ [][ShopperNext]_<<addressVars, cartVars, priceVars>> /\ GuestCartFairness
-----------------------------------------------------------------------------
\* Two variants, one taxed at a reduced rate and one exempt; delivery is taxed at the
\* channel's rate.
GoodsGrams == (b1 :> 500 @@ b2 :> 300)

GoodsTaxClass == (b1 :> "reduced" @@ b2 :> "exempt")

FirstPrices == (b1 :> 50 @@ b2 :> 70)

RateTable == ("reduced" :> 5 @@ "wrong" :> 120)

Item(k, n) == [sku |-> k, quantity |-> n]

Requested == {<<>>, <<Item(b1, 1)>>, <<Item(b2, 1), Item(b1, 1)>>, <<Item(b1, 1), Item(b1, 1)>>,
              <<Item(b2, 3)>>}

\* One city of a province has a zone of its own, listed first; the province is also known by
\* a latin name.
Zones == <<[code |-> "city", provinces |-> {"TEH"}, cities |-> {"Rey"}],
           [code |-> "province", provinces |-> {"TEH"}, cities |-> {}]>>

ProvinceAliases == ("tehran" :> "TEH")

FoldedSpelling == ("Tehran" :> "tehran" @@ "tehran" :> "tehran" @@ "TEH" :> "teh" @@ "teh" :> "teh"
                      @@ "Qom" :> "qom" @@ "Rey" :> "rey" @@ "rey" :> "rey" @@ "" :> "")

Spelt(p, c) == [province |-> p, city |-> c]

Destinations == {Spelt("Tehran", "Rey"), Spelt("teh", "rey"), Spelt("tehran", ""), Spelt("TEH", ""),
                 Spelt("Qom", "Rey")}

Method(code, price) == [code |-> code, currency |-> "IRR", price |-> price, zoneRates |-> <<>>,
                        brackets |-> None, pickup |-> FALSE, minDays |-> 1, maxDays |-> 2]

Upto(grams, price) == [upTo |-> grams, price |-> price]

\* A zoned method listed twice, a weighed one whose first entry is malformed, two that are
\* malformed otherwise, one in another currency and a pickup.
Methods ==
    <<[Method("standard", 50) EXCEPT !.zoneRates = ("city" :> 20 @@ "province" :> 30)],
      [Method("heavy", 0) EXCEPT !.brackets = <<Upto(800, 30), Upto(500, 20), Upto(None, 70)>>],
      [Method("heavy", 0) EXCEPT !.brackets = <<Upto(500, 30), Upto(800, 45), Upto(None, 70)>>],
      [Method("mixed", 0) EXCEPT !.brackets = <<Upto(None, 70)>>, !.zoneRates = ("city" :> 20)],
      [Method("late", 10) EXCEPT !.minDays = 3],
      [Method("abroad", 10) EXCEPT !.currency = "USD"],
      [Method("pickup", 10) EXCEPT !.pickup = TRUE, !.zoneRates = ("city" :> 0)],
      Method("standard", 90)>>
-----------------------------------------------------------------------------
\* The states of the three models have their types.
ShopperTypeOK == AddressTypeOK /\ GuestCartTypeOK /\ PricingTypeOK
=============================================================================
