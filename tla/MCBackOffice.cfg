SPECIFICATION BackOfficeSpec
CONSTANTS
  r1 = r1
  r2 = r2
  k1 = k1
  k2 = k2
  t1 = t1
  Phones = {phone}
  DialPrefixes = {"0", "+1"}
  Requests <- Workers
  MaxAttempts = 2
  MaxChallenges = 2
  MaxTokens = 2
  MaxPassword = 2
  NoUser = none
  People = {root, u1}
  Superusers = {root}
  Subjects = {u1}
  Roles = {"access_admin", "catalog_admin"}
  Shops = {c1}
  Currencies = {irr}
  Warehouses = {main, s1}
  DefaultSource = main
  Levels = {1}
  Acts <- Workers
  Staff <- Workers
  CatalogManagers <- Workers
  Code <- CodeSpellings
  Word <- WordSpellings
  Decimal <- Decimals
  Lower <- LowerCase
  Definitions <- RequestedDefinitions
  Templates <- RequestedTemplates
  Sheets <- UploadedSheets
  MaxRows = 5
  Blank = ""
  Malformed = "malformed"
  Root = "root"
  Editors <- Workers
  Products = {1, 2}
  Collections = {n1}
  Variants = {k1, k2}
  Categories = {g1}
  Attributes = {"size"}
  Outlets = {t1}
  Currency <- OutletCurrency
  Comparisons = {"equals", "greater"}
  Operand <- OperandSpellings
  Sums = {0, 1, 2}
  MaxEntries = 2
  VariantsOf <- VariantsOfProduct
  Limits = {0, 1, 2}
  MaxLimit = 2
  Anything = any
SYMMETRY WorkerSymmetry
INVARIANTS
  BackOfficeTypeOK
  MissesBounded
  OldSessionsBounded
  CatalogSound
  CatalogReads
  StorefrontSound
PROPERTIES
  CredentialsKept
  WritesAuthorized
  ImportWhole
  ListsWhole
CHECK_DEADLOCK FALSE
