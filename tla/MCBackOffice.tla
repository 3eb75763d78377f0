------------------------------ MODULE MCBackOffice -----------------------------
(***************************************************************************)
(* Accounts, authority and the catalog on one small instance.  The four    *)
(* models share no state, so a behaviour moves in one of them, and the     *)
(* states checked are the sum of theirs.  The same two model values stand  *)
(* for the requests in flight in each.                                     *)
(***************************************************************************)
EXTENDS Identity, Access, Catalog, Storefront

CONSTANTS r1, r2, k1, k2, t1

Workers == {r1, r2}

WorkerSymmetry == Permutations(Workers)

IdentityMove == AccessInit /\ CatalogInit /\ ListsInit /\ IdentityNext
                  /\ UNCHANGED <<accessVars, catalogVars, listVars>>
AccessMove == IdentityInit /\ CatalogInit /\ ListsInit /\ AccessNext
                /\ UNCHANGED <<identityVars, catalogVars, listVars>>
CatalogMove == IdentityInit /\ AccessInit /\ ListsInit /\ CatalogNext
                 /\ UNCHANGED <<identityVars, accessVars, listVars>>
ListsMove == IdentityInit /\ AccessInit /\ CatalogInit /\ ListsNext
               /\ UNCHANGED <<identityVars, accessVars, catalogVars>>

BackOfficeInit == IdentityInit /\ AccessInit /\ CatalogInit /\ ListsInit

BackOfficeNext == IdentityMove \/ AccessMove \/ CatalogMove \/ ListsMove

BackOfficeSpec == BackOfficeInit /\ [][BackOfficeNext]_<<identityVars, accessVars, catalogVars, listVars>>
-----------------------------------------------------------------------------
\* Two attributes, one product type that uses them at its two levels or at one, and
\* spellings that differ before they are trimmed and folded.
CodeSpellings == [t \in Tables |->
    CASE t = "attribute" -> ("size" :> "size" @@ "origin" :> "origin")
      [] t = "type"      -> ("tea" :> "tea")
      [] t = "product"   -> ("p1" :> "p1" @@ "p2" :> "p2" @@ " p2" :> "p2" @@ "?" :> Malformed)
      [] t = "variant"   -> ("k1" :> "K1" @@ "K1" :> "K1")
      [] t = "category"  -> ("g1" :> "g1" @@ "g2" :> "g2")]

WordSpellings == ("" :> "" @@ " 01" :> "01" @@ "01" :> "01" @@ "1" :> "1"
                     @@ "TRUE" :> "TRUE" @@ "true" :> "true")

Decimals == ("" :> Malformed @@ "01" :> "1" @@ "1" :> "1" @@ "TRUE" :> Malformed @@ "true" :> Malformed)

LowerCase == ("" :> "" @@ "01" :> "01" @@ "1" :> "1" @@ "TRUE" :> "true" @@ "true" :> "true")

Definition(type, required, choices) == [type |-> type, required |-> required, choices |-> choices]

RequestedDefinitions ==
    "size" :> {Definition("number", TRUE, {})} @@
    "origin" :> {Definition("boolean", FALSE, {}), Definition("plain_text", FALSE, {}),
                 Definition("dropdown", FALSE, {"1"}), Definition("dropdown", FALSE, {})}

RequestedTemplates ==
    {[attributes |-> {"size"}, variantAttributes |-> {"origin"}],
     [attributes |-> {"size", "origin"}, variantAttributes |-> {}]}

Line(code, cells, categories) ==
    [code |-> code, type |-> "tea", published |-> TRUE, categories |-> categories, cells |-> cells]

\* Two of the sheets write the same two products in opposite orders.
UploadedSheets ==
    {<<Line("p1", "size" :> " 01" @@ "origin" :> "", {})>>,
     <<Line("p1", "size" :> " 01", {}), Line("p2", "size" :> "1" @@ "origin" :> "TRUE", {"g1"})>>,
     <<Line("p1", "size" :> " 01", {}), Line("p2", "size" :> "1", {})>>,
     <<Line(" p2", "size" :> "1", {}), Line("p1", "size" :> "1", {})>>}

OutletCurrency == t1 :> "IRR"

VariantsOfProduct == <<{k1, k2}, {}>>

OperandSpellings == " 1" :> "1" @@ "1" :> "1" @@ " " :> ""
-----------------------------------------------------------------------------
\* The states of the four models have their types; no code ever claims more wrong answers
\* than its budget (OtpVerifier.verify).
BackOfficeTypeOK == IdentityTypeOK /\ AccessTypeOK /\ CatalogTypeOK /\ ListsTypeOK
=============================================================================
