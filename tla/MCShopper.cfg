SPECIFICATION ShopperSpec
CONSTANTS
  Shoppers = {w1}
  AddressIds = {a1, a2, a3, a4}
  Details = {d1}
  Edits = {r1, r2}
  MaxAddresses = 2
  Guests = {g1, g2}
  Users = {u1}
  Channels = {c1, c2}
  Variants = {k1}
  Logins = {l1, l2}
  MaxQuantity = 2
  Wanted = {1}
  b1 = b1
  b2 = b2
  Goods = {b1, b2}
  Grams <- GoodsGrams
  TaxClassOf <- GoodsTaxClass
  StartPrices <- FirstPrices
  NewPrices = {70, none}
  Currency = "IRR"
  MethodList <- Methods
  ZoneList <- Zones
  Aliases <- ProvinceAliases
  Fold <- FoldedSpelling
  Places <- Destinations
  TaxClasses <- RateTable
  ChannelRate = 9
  ItemLists <- Requested
  Pricings = {r1}
  MaxMoney = 200
  None = none
INVARIANTS
  ShopperTypeOK
  AtMostOneDefault
  OvershootBounded
  OrderAsShown
PROPERTIES
  DefaultKept
  MergeSerial
  LoginsAnswered
CHECK_DEADLOCK FALSE
