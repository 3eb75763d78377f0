------------------------------ MODULE Storefront -------------------------------
(***************************************************************************)
(* What the public storefront reads out of the catalog: pages of published *)
(* products, filtered and in the order of their codes, each with a card    *)
(* that shows its price and whether it can be bought.  The pages are       *)
(* computed from the lists as they are committed at one moment.            *)
(*                                                                         *)
(* A product's code is a number.  Text search, the filter by product type  *)
(* and tax are left out.                                                   *)
(***************************************************************************)
EXTENDS CatalogLists

CONSTANTS VariantsOf,  \* product -> its variants
          Limits,      \* page sizes that shoppers ask for
          MaxLimit,    \* the largest page that is served
          Anything     \* the value of a criterion that a shopper leaves out

ASSUME StorefrontAssumption ==
    /\ IsFiniteSet(Products) /\ Products \subseteq Int
    /\ VariantsOf \in [Products -> SUBSET Variants]
    /\ Sums \subseteq Int /\ Anything \notin Int
    /\ MaxLimit \in Nat

Queries ==
    [category : Categories \cup {Anything}, collection : Collections \cup {Anything},
     channel : Outlets \cup {Anything}, min : Sums \cup {Anything}, max : Sums \cup {Anything}]

Links(kind, owner) == ToSet(lists[[kind |-> kind, owner |-> owner]])

\* The price rows of the variants of a product in a channel.
PriceRows(p, channel) ==
    {row \in UNION {Links("prices", v) : v \in VariantsOf[p]} : row.channel = channel}

\* Mutant of InPriceRange: some price of the product is within the range.
SomePriceInRange(p, q) ==
    \/ q.channel = Anything
    \/ \E row \in PriceRows(p, q.channel) :
           (q.min = Anything \/ row.amount >= q.min) /\ (q.max = Anything \/ row.amount <= q.max)

\* _apply_price_range: the lowest price in the channel is within the range.  Without a
\* channel, or without a bound, there is no range.
InPriceRange(p, q) ==
    \/ q.channel = Anything \/ (q.min = Anything /\ q.max = Anything)
    \/ \E row \in PriceRows(p, q.channel) :
           /\ \A other \in PriceRows(p, q.channel) : row.amount <= other.amount
           /\ (q.min = Anything \/ row.amount >= q.min) /\ (q.max = Anything \/ row.amount <= q.max)

\* _apply_filters: each criterion narrows the published products.
Filtered(published, q) ==
    {p \in published :
        /\ q.category = Anything \/ q.category \in Links("categories", p)
        /\ q.collection = Anything \/ p \in Links("products", q.collection)
        /\ InPriceRange(p, q)}

\* _validated_window.
IsWindow(limit, offset) == limit \in 1..MaxLimit /\ offset >= 0

\* The matches in the order of their codes: the one that n others come before.
Nth(matches, n) == CHOOSE p \in matches : Cardinality({x \in matches : x < p}) = n

\* DjangoProductQueryRepository.search: a window of the matches.
SearchPage(published, q, limit, offset) ==
    LET matches == Filtered(published, q) IN
    [i \in {n \in 1..limit : offset + n <= Cardinality(matches)} |-> Nth(matches, offset + i - 1)]

\* price_summaries, the "from" price: the least amount of the rows, if there are any.
FromPrice(p, channel) ==
    IF PriceRows(p, channel) = {} THEN Anything
    ELSE Min({row.amount : row \in PriceRows(p, channel)})

\* price_summaries, the availability: a variant that has a price in the channel can be had.
Available(p, channel, saleable) ==
    \E v \in VariantsOf[p] : v \in saleable /\ \E row \in Links("prices", v) : row.channel = channel

\* GetStorefrontProductVariants: the price of each variant of a published product.
VariantPrice(v, channel) ==
    IF \E row \in Links("prices", v) : row.channel = channel
    THEN (CHOOSE row \in Links("prices", v) : row.channel = channel).amount
    ELSE Anything

\* StorefrontProductListView: the cards of a page.
Cards(published, saleable, q, limit, offset) ==
    LET page == SearchPage(published, q, limit, offset) IN
    [i \in DOMAIN page |->
        [code |-> page[i], from |-> FromPrice(page[i], q.channel),
         available |-> Available(page[i], q.channel, saleable)]]
-----------------------------------------------------------------------------
\* The page of a product lists every variant, Anything for one that has no price.
ProductPage(p, channel) == [v \in VariantsOf[p] |-> VariantPrice(v, channel)]

\* The cheapest price on the page of a product, Anything when none of its variants has one.
LowestShown(p, channel) ==
    LET page  == ProductPage(p, channel)
        shown == {page[v] : v \in DOMAIN page} \ {Anything}
    IN
    IF shown = {} THEN Anything ELSE Min(shown)

\* A bound that was left out, or any bound without a channel, is no bound.
Within(price, q) ==
    LET bounded == q.channel # Anything IN
    /\ bounded /\ q.min # Anything => price # Anything /\ price >= q.min
    /\ bounded /\ q.max # Anything => price # Anything /\ price <= q.max

\* The published products that meet a query as a shopper understands it.
Expected(published, q) ==
    {p \in published :
        /\ q.category # Anything => q.category \in Links("categories", p)
        /\ q.collection # Anything => p \in Links("products", q.collection)
        /\ Within(LowestShown(p, q.channel), q)}

\* The pages of a search as a shopper leafs through them, from the first to an empty one.
Leafed(published, q, limit) ==
    [i \in 1..(Cardinality(Products) + 1) |-> Cards(published, Variants, q, limit, (i - 1) * limit)]

\* Cards come in the order of their codes, from page to page and on each page.
InOrder(pages) ==
    \A i, k \in DOMAIN pages : \A j \in DOMAIN pages[i], l \in DOMAIN pages[k] :
        i < k \/ (i = k /\ j < l) => pages[i][j].code < pages[k][l].code

QueriesAgree ==
    \A published \in SUBSET Products, q \in Queries :
        \A limit \in {n \in Limits : IsWindow(n, 0)} :
            LET pages == Leafed(published, q, limit) IN
            /\ UNION {{pages[i][j].code : j \in DOMAIN pages[i]} : i \in DOMAIN pages}
                   = Expected(published, q)
            /\ InOrder(pages)
            /\ \A i \in DOMAIN pages : \A j \in DOMAIN pages[i] :
                   /\ pages[i][j].from = LowestShown(pages[i][j].code, q.channel)
                   /\ pages[i][j].available <=> pages[i][j].from # Anything

\* The queries behind the storefront agree with one another: leafing through the pages of
\* a search shows every published product that meets it exactly once, whatever the size of
\* a page, its price filter means the price on the card ("so the result matches what the
\* shopper sees"), that price is the lowest on the product's own page, and what can be
\* bought has a price (DjangoProductQueryRepository, GetStorefrontProductVariants).
StorefrontSound ==
    (\E l \in Lists : lists[l] # <<>>) /\ (\A e \in Editors : edits[e] = NoEdit) => QueriesAgree
=============================================================================
