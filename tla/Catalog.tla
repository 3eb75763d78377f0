-------------------------------- MODULE Catalog --------------------------------
(***************************************************************************)
(* The catalog's definitions and products: staff create attributes,        *)
(* product types, products, variants and categories, and import sheets of  *)
(* products.  Every creation validates against unlocked reads and then     *)
(* inserts; the unique constraint decides a race.  An import inserts its   *)
(* rows one by one in one transaction.  Nothing is ever deleted.           *)
(*                                                                         *)
(* Names, labels, media and metadata are left out.  A spelling is what a   *)
(* request carries; a code or a word is what it is trimmed and folded to.  *)
(***************************************************************************)
EXTENDS Integers, Sequences, FiniteSets

CONSTANTS Staff,           \* people working at the catalog
          CatalogManagers, \* those of them who hold manage_catalog
          Code,            \* table -> spelling -> its code, or Malformed
          Word,            \* spelling of a value -> the value trimmed
          Decimal,         \* word -> str(Decimal(word)), or Malformed
          Lower,           \* word -> the word in lower case
          Definitions,     \* spelling -> attribute definitions in requests
          Templates,       \* product types that requests carry
          Sheets,          \* import sheets that requests carry
          MaxRows,         \* bound of the exploration: rows in all tables
          Blank, Malformed, Root

VARIABLES catalog,  \* table -> code -> row
          desks     \* member of staff -> the request in flight

catalogVars == <<catalog, desks>>

Tables == {"attribute", "type", "product", "variant", "category"}

Codes(table) == {Code[table][s] : s \in DOMAIN Code[table]} \ {Malformed}
Words == {Word[s] : s \in DOMAIN Word}

InputTypes == {"plain_text", "number", "boolean", "dropdown"}

\* The value of a choice is a slug, never blank (AttributeChoice).
AttributeRows == [type : InputTypes, required : BOOLEAN, choices : SUBSET (Words \ {Blank})]

\* One attribute is assigned to products or to variants, or not at all.
TypeRows == [attributes : SUBSET Codes("attribute"), variantAttributes : SUBSET Codes("attribute")]

\* Values of some attributes, as they are given and as they are stored.
GivenValues == UNION {[codes -> DOMAIN Word] : codes \in SUBSET Codes("attribute")}

\* A product starts as a draft; its categories are those it was imported with.
ProductRows == [type : Codes("type"), published : BOOLEAN, categories : SUBSET Codes("category"),
                values : GivenValues]

VariantRows == [product : Codes("product"), values : GivenValues]

\* The parent of a category is another category, or Root.
CategoryRows == Codes("category") \cup {Root}

RowsOf(table) ==
    CASE table = "attribute" -> AttributeRows
      [] table = "type"      -> TypeRows
      [] table = "product"   -> ProductRows
      [] table = "variant"   -> VariantRows
      [] table = "category"  -> CategoryRows

\* The lines of an import sheet.
SheetLines == [code : DOMAIN Code["product"], type : Codes("type"), published : BOOLEAN,
               categories : SUBSET Codes("category"), cells : GivenValues]

ASSUME CatalogAssumption ==
    /\ CatalogManagers \subseteq Staff
    /\ DOMAIN Code = Tables
    /\ MaxRows \in Nat
    /\ \A spelling \in DOMAIN Code["attribute"] : Definitions[spelling] \subseteq AttributeRows
    /\ Templates \subseteq TypeRows
    /\ \A sheet \in Sheets : sheet \in Seq(SheetLines)

\* A code is a spelling of itself: what is trimmed and folded stays as it is.
ASSUME CodeAssumption ==
    /\ \A t \in Tables : \A c \in Codes(t) : c \in DOMAIN Code[t] /\ Code[t][c] = c
    /\ Root \notin Codes("category")

\* The same of values: str.strip, str(Decimal(...)) and str.lower, applied to what they
\* return, return it; a number is never written blank.
ASSUME WordAssumption ==
    /\ \A s \in DOMAIN Word : Word[s] \in DOMAIN Word /\ Word[Word[s]] = Word[s]
    /\ \A w \in Words : Decimal[w] # Malformed =>
           Decimal[w] \in Words \ {Blank} /\ Decimal[Decimal[w]] = Decimal[w]
    /\ \A w \in Words : Lower[w] \in {"true", "false"} =>
           Lower[w] \in Words /\ Lower[Lower[w]] = Lower[w]
    /\ Blank \in Words /\ Blank \notin {"true", "false"}
    /\ Malformed \notin DOMAIN Word \cup {"true", "false"}

AtRest == [phase |-> "idle"]

CatalogTypeOK ==
    /\ DOMAIN catalog = Tables
    /\ \A t \in Tables : \A c \in DOMAIN catalog[t] : c \in Codes(t) /\ catalog[t][c] \in RowsOf(t)
    /\ \A s \in Staff : desks[s].phase \in {"idle", "checked", "importing"}

CatalogInit ==
    /\ catalog = [t \in Tables |-> <<>>]
    /\ desks = [s \in Staff |-> AtRest]
-----------------------------------------------------------------------------
(* Values. *)

NormalizeText(raw) == IF Word[raw] = Blank THEN Malformed ELSE Word[raw]

NormalizeNumber(raw) == Decimal[Word[raw]]

NormalizeBoolean(raw) ==
    IF Lower[Word[raw]] \in {"true", "false"} THEN Lower[Word[raw]] ELSE Malformed

NormalizeChoice(definition, raw) ==
    IF Word[raw] \in definition.choices THEN Word[raw] ELSE Malformed

NormalizeOne(definition, raw) ==
    CASE definition.type = "plain_text" -> NormalizeText(raw)
      [] definition.type = "number"     -> NormalizeNumber(raw)
      [] definition.type = "boolean"    -> NormalizeBoolean(raw)
      [] definition.type = "dropdown"   -> NormalizeChoice(definition, raw)

\* get_by_code of each assigned attribute.
DefinitionsOf(codes) == [a \in codes |-> catalog["attribute"][a]]

\* No value of an unassigned attribute, a value for each required one, and all of them
\* of their attribute's type.
Conform(definitions, values) ==
    /\ DOMAIN values \subseteq DOMAIN definitions
    /\ \A a \in DOMAIN definitions : definitions[a].required => a \in DOMAIN values
    /\ \A a \in DOMAIN values : NormalizeOne(definitions[a], values[a]) # Malformed

\* Mutant of Normalized: the values are stored as they were given.
AsGiven(definitions, values) == values

Normalized(definitions, values) ==
    [a \in DOMAIN values |-> NormalizeOne(definitions[a], values[a])]
-----------------------------------------------------------------------------
(* Creation: a check against unlocked reads, then an insert. *)

CatalogManagePermission(s) == s \in CatalogManagers

Taken(table, code) == code \in DOMAIN catalog[table]

\* A table with rows added to it.
WithRows(table, rows) ==
    [c \in DOMAIN rows \cup DOMAIN table |-> IF c \in DOMAIN rows THEN rows[c] ELSE table[c]]

Leave(s) == desks' = [desks EXCEPT ![s] = AtRest]

\* The request passed its checks and goes on to insert the row.
Checked(s, table, code, row) ==
    /\ desks[s] = AtRest
    /\ code # Malformed
    /\ ~Taken(table, code)
    /\ desks' = [desks EXCEPT ![s] =
                    [phase |-> "checked", table |-> table, code |-> code, row |-> row]]
    /\ UNCHANGED catalog

\* Attribute.__post_init__: choices are for choice types, which need some.
CoherentDefinition(definition) == (definition.type = "dropdown") <=> (definition.choices # {})

CreateAttribute(s, code, definition) ==
    /\ CoherentDefinition(definition)
    /\ Checked(s, "attribute", code, definition)

\* ProductType.__post_init__: an attribute is assigned once over both levels.
CoherentTemplate(template) == template.attributes \cap template.variantAttributes = {}

CreateProductType(s, code, template) ==
    /\ CoherentTemplate(template)
    /\ \A a \in template.attributes \cup template.variantAttributes : Taken("attribute", a)
    /\ Checked(s, "type", code, template)

\* The values a product of this type may carry: normalize_attribute_values accepts them.
ProductValues(type, values) ==
    /\ Taken("type", type)
    /\ Conform(DefinitionsOf(catalog["type"][type].attributes), values)

NewProduct(type, values, published, categories) ==
    [type |-> type, published |-> published, categories |-> categories,
     values |-> Normalized(DefinitionsOf(catalog["type"][type].attributes), values)]

CreateProduct(s, code, type, values) ==
    /\ ProductValues(type, values)
    /\ Checked(s, "product", code, NewProduct(type, values, FALSE, {}))

VariantAttributes(product) == catalog["type"][catalog["product"][product].type].variantAttributes

CreateVariant(s, sku, product, values) ==
    /\ Taken("product", product)
    /\ Conform(DefinitionsOf(VariantAttributes(product)), values)
    /\ Checked(s, "variant", sku,
               [product |-> product,
                values |-> Normalized(DefinitionsOf(VariantAttributes(product)), values)])

\* A parent exists and is another category.
ParentKnown(slug, parent) == parent # slug /\ (parent # Root => Taken("category", parent))

CreateCategory(s, slug, parent) ==
    /\ ParentKnown(slug, parent)
    /\ Checked(s, "category", slug, parent)

\* The insert, guarded by the unique constraint on the code.
Add(s, table) ==
    LET q == desks[s] IN
    /\ q.phase = "checked" /\ q.table = table
    /\ ~Taken(table, q.code)
    /\ catalog' = [catalog EXCEPT ![table] = WithRows(@, [c \in {q.code} |-> q.row])]
    /\ Leave(s)

\* Another insert of the code won the race after the check: the request is refused.
AlreadyExists(s) ==
    LET q == desks[s] IN
    /\ q.phase = "checked"
    /\ Taken(q.table, q.code)
    /\ Leave(s)
    /\ UNCHANGED catalog

\* The codes whose insert waits for the transaction of this import to end.
Pending(s) ==
    IF desks[s].phase # "importing" THEN {}
    ELSE {desks[s].items[i].code : i \in 1..desks[s].written}

Held(s, code) == \E o \in Staff \ {s} : code \in Pending(o)

AddAttribute(s)   == Add(s, "attribute")
AddProductType(s) == Add(s, "type")
AddProduct(s)     == Add(s, "product") /\ ~Held(s, desks[s].code)
AddVariant(s)     == Add(s, "variant")
AddCategory(s)    == Add(s, "category")

\* set_published: one column of one row.
SetProductPublished(code, published) ==
    /\ Taken("product", code)
    /\ catalog' = [catalog EXCEPT !["product"][code].published = published]
    /\ UNCHANGED desks
-----------------------------------------------------------------------------
(* Import and export. *)

\* Mutant of DecodedValues: a blank cell is a value.
EveryCell(cells) == cells

\* A blank cell of a sheet is no value.
DecodedValues(cells) == [a \in {b \in DOMAIN cells : Word[cells[b]] # Blank} |-> cells[a]]

DecodedRow(line) ==
    [code |-> line.code, type |-> line.type, published |-> line.published,
     categories |-> line.categories, values |-> DecodedValues(line.cells)]

\* One column for each attribute that some product has a value of.
Columns == UNION {DOMAIN catalog["product"][c].values : c \in DOMAIN catalog["product"]}

\* The line of a product in the exported sheet.
EncodedRow(code) ==
    LET row == catalog["product"][code] IN
    [code |-> code, type |-> row.type, published |-> row.published,
     categories |-> row.categories,
     cells |-> [a \in Columns |-> IF a \in DOMAIN row.values THEN row.values[a] ELSE Blank]]

\* The exported sheet.
ExportCatalogProducts == [code \in DOMAIN catalog["product"] |-> EncodedRow(code)]

\* The row of a sheet is one that could be created, in categories that exist.
ValidRow(row) ==
    LET code == Code["product"][row.code] IN
    /\ code # Malformed
    /\ ~Taken("product", code)
    /\ ProductValues(row.type, row.values)
    /\ \A c \in row.categories : Taken("category", c)

ImportItem(row) ==
    [code |-> Code["product"][row.code],
     row |-> NewProduct(row.type, row.values, row.published, row.categories)]

\* Every row is valid and no code occurs twice; otherwise nothing is written.
ValidSheet(sheet) ==
    /\ \A i \in DOMAIN sheet : ValidRow(sheet[i])
    /\ \A i, j \in DOMAIN sheet :
           Code["product"][sheet[i].code] = Code["product"][sheet[j].code] => i = j

ImportCatalogProducts(s, sheet) ==
    /\ desks[s] = AtRest
    /\ ValidSheet(sheet)
    /\ desks' = [desks EXCEPT ![s] = [phase |-> "importing", written |-> 0,
                                      items |-> [i \in DOMAIN sheet |-> ImportItem(sheet[i])]]]
    /\ UNCHANGED catalog

NextCode(s) == desks[s].items[desks[s].written + 1].code

RowsLeft(s) == desks[s].phase = "importing" /\ desks[s].written < Len(desks[s].items)

\* Mutant of ImportRow: every row is committed as it is written.
ImportRowAlone(s) ==
    /\ RowsLeft(s)
    /\ ~Held(s, NextCode(s))
    /\ ~Taken("product", NextCode(s))
    /\ desks' = [desks EXCEPT ![s].written = @ + 1]
    /\ catalog' = [catalog EXCEPT !["product"] =
           WithRows(@, [c \in {NextCode(s)} |-> desks[s].items[desks[s].written + 1].row])]

\* The next row is inserted; nobody else sees it before the commit.
ImportRow(s) ==
    /\ RowsLeft(s)
    /\ ~Held(s, NextCode(s))
    /\ ~Taken("product", NextCode(s))
    /\ desks' = [desks EXCEPT ![s].written = @ + 1]
    /\ UNCHANGED catalog

\* A row's code was taken after the validation: the whole import is rolled back.
ImportRaceLost(s) ==
    /\ RowsLeft(s)
    /\ Taken("product", NextCode(s))
    /\ Leave(s)
    /\ UNCHANGED catalog

\* Two imports wait for each other's rows: the database rolls one of them back.
ImportDeadlocked(s) ==
    /\ \E o \in Staff \ {s} :
           /\ RowsLeft(s) /\ NextCode(s) \in Pending(o)
           /\ RowsLeft(o) /\ NextCode(o) \in Pending(s)
    /\ Leave(s)
    /\ UNCHANGED catalog

CommitImport(s) ==
    LET items == desks[s].items IN
    /\ desks[s].phase = "importing"
    /\ ~RowsLeft(s)
    /\ catalog' = [catalog EXCEPT !["product"] =
           WithRows(@, [c \in Pending(s) |->
                           items[CHOOSE i \in DOMAIN items : items[i].code = c].row])]
    /\ Leave(s)

\* The worker of a request dies, or its connection does: what is not committed is undone.
CatalogCrash(s) ==
    /\ desks[s] # AtRest
    /\ Leave(s)
    /\ UNCHANGED catalog
-----------------------------------------------------------------------------
(* The rules of collections. *)

Operators == {"equals", "not_equals"}

\* A product without a value for the attribute is not equal to any value.
Matches(values, condition) ==
    LET equal == condition.attribute \in DOMAIN values
                     /\ values[condition.attribute] = condition.value
    IN  (condition.operator = "equals") <=> equal

\* match_products: every condition holds, and an empty rule selects nothing.
Selected(rule) ==
    {c \in DOMAIN catalog["product"] :
        rule # {} /\ \A condition \in rule : Matches(catalog["product"][c].values, condition)}
-----------------------------------------------------------------------------
(* The endpoints: what a request may carry. *)

RoomLeft ==
    Cardinality(DOMAIN catalog["attribute"]) + Cardinality(DOMAIN catalog["type"])
        + Cardinality(DOMAIN catalog["product"]) + Cardinality(DOMAIN catalog["variant"])
        + Cardinality(DOMAIN catalog["category"]) < MaxRows

AttributeListCreateView(s) ==
    \E spelling \in DOMAIN Code["attribute"] :
        \E definition \in Definitions[spelling] :
            CreateAttribute(s, Code["attribute"][spelling], definition)

ProductTypeListCreateView(s) ==
    \E spelling \in DOMAIN Code["type"], template \in Templates :
        CreateProductType(s, Code["type"][spelling], template)

ProductListCreateView(s) ==
    \E spelling \in DOMAIN Code["product"], type \in Codes("type"), values \in GivenValues :
        CreateProduct(s, Code["product"][spelling], type, values)

ProductPublicationView ==
    \E code \in Codes("product"), published \in BOOLEAN : SetProductPublished(code, published)

ProductVariantListCreateView(s) ==
    \E sku \in DOMAIN Code["variant"], product \in Codes("product"), values \in GivenValues :
        CreateVariant(s, Code["variant"][sku], product, values)

CategoryListCreateView(s) ==
    \E spelling \in DOMAIN Code["category"], parent \in CategoryRows :
        CreateCategory(s, Code["category"][spelling], parent)

ProductImportView(s) ==
    \E sheet \in Sheets :
        ImportCatalogProducts(s, [i \in DOMAIN sheet |-> DecodedRow(sheet[i])])

CatalogNext ==
    \/ \E s \in Staff :
           \/ /\ CatalogManagePermission(s) /\ RoomLeft
              /\ \/ AttributeListCreateView(s) \/ ProductTypeListCreateView(s)
                 \/ ProductListCreateView(s) \/ ProductVariantListCreateView(s)
                 \/ CategoryListCreateView(s) \/ ProductImportView(s)
           \/ AddAttribute(s) \/ AddProductType(s) \/ AddProduct(s) \/ AddVariant(s)
           \/ AddCategory(s) \/ AlreadyExists(s)
           \/ ImportRow(s) \/ ImportRaceLost(s) \/ ImportDeadlocked(s) \/ CommitImport(s)
           \/ CatalogCrash(s)
    \/ ProductPublicationView

CatalogSpec == CatalogInit /\ [][CatalogNext]_catalogVars
-----------------------------------------------------------------------------
\* Values of a row are what its product type asks for, in their normal form: a value that
\* is normalised again stays as it is.
InNormalForm(definitions, values) ==
    /\ Conform(definitions, values)
    /\ \A a \in DOMAIN values : NormalizeOne(definitions[a], values[a]) = values[a]

\* Whatever was created or imported meanwhile, what the catalog stores fits together: a
\* product's values conform to its type and are normalised, a variant's to the variant
\* level of its product's type (CreateProduct, CreateVariant, ImportCatalogProducts
\* against definitions they read without locks), and the categories form a forest.
CatalogSound ==
    /\ \A c \in DOMAIN catalog["product"] :
           LET row == catalog["product"][c] IN
           InNormalForm(DefinitionsOf(catalog["type"][row.type].attributes), row.values)
    /\ \A k \in DOMAIN catalog["variant"] :
           LET row == catalog["variant"][k]
               type == catalog["type"][catalog["product"][row.product].type]
           IN InNormalForm(DefinitionsOf(type.variantAttributes), row.values)
    /\ \A slugs \in SUBSET DOMAIN catalog["category"] :
           slugs # {} => \E c \in slugs : catalog["category"][c] \notin slugs

\* The exported sheet can be imported again: each of its lines would create the product
\* it was written from (encode_products, decode_products and the validation of an import).
ExportReimports ==
    \A c \in DOMAIN ExportCatalogProducts :
        LET row == DecodedRow(ExportCatalogProducts[c]) IN
        /\ Code["product"][row.code] = c
        /\ ProductValues(row.type, row.values)
        /\ \A g \in row.categories : Taken("category", g)
        /\ NewProduct(row.type, row.values, row.published, row.categories) = catalog["product"][c]

\* An EQUALS condition and its NOT_EQUALS counterpart split the products between them,
\* those without the attribute included, and the rule of both, or of neither, selects
\* nothing (match_products).
RulesPartition ==
    \A a \in DOMAIN catalog["attribute"], v \in Words :
        LET is  == [attribute |-> a, operator |-> "equals", value |-> v]
            not == [attribute |-> a, operator |-> "not_equals", value |-> v]
        IN  /\ Selected({is}) \cup Selected({not}) = DOMAIN catalog["product"]
            /\ Selected({is, not}) = {} /\ Selected({}) = {}

\* What is read out of the catalog is what went in (the two above).
CatalogReads == ExportReimports /\ RulesPartition

\* Rows are written once, whole: a step adds one row or all the rows of one import, and no
\* row that is there changes except by publishing it.  A rival for a code, a crash or a
\* deadlock never leaves part of an import (DjangoCatalogImportWriter.create_products).
ImportWhole ==
    [][\A t \in Tables :
          LET new == DOMAIN catalog'[t] \ DOMAIN catalog[t] IN
          /\ \A c \in DOMAIN catalog[t] :
                 /\ c \in DOMAIN catalog'[t]
                 /\ t = "product" => [catalog'[t][c] EXCEPT !.published = TRUE]
                                        = [catalog[t][c] EXCEPT !.published = TRUE]
                 /\ t # "product" => catalog'[t][c] = catalog[t][c]
          /\ new = {} \/ \E s \in Staff :
                 \/ desks[s].phase = "checked" /\ new = {desks[s].code}
                 \/ /\ desks[s].phase = "importing"
                    /\ new = {desks[s].items[i].code : i \in DOMAIN desks[s].items}]_catalogVars
=============================================================================
