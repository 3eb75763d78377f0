------------------------- MODULE BackOffice_proofs -------------------------
(***************************************************************************)
(* Proofs about what staff and accounts do: access control, accounts and   *)
(* sessions, the lists of the catalog and the catalog itself.  They share  *)
(* one shape: a request is checked in one step and writes in another, and  *)
(* the invariant says what still holds of a checked request by then.       *)
(*                                                                         *)
(* Authority only grows, so what an actor was found to hold is held when   *)
(* the write comes.  A reset revokes every session opened so far, and one  *)
(* that comes later under an earlier password takes the place of a login   *)
(* that was in flight.  A wrong answer takes from a code one of the outlooks of its *)
(* requests, which are ordered.  A replacement holds the row of its owner  *)
(* from its lock to its commit, and what the storefront computes from the  *)
(* lists is a matter of counting.                                          *)
(* Definitions of the catalog are never changed or deleted, so a row that  *)
(* conformed when it was checked conforms when it is inserted, and an      *)
(* import holds the codes that it has written until it commits.            *)
(***************************************************************************)
EXTENDS MCBackOffice, Totals_proofs, SequenceTheorems
-----------------------------------------------------------------------------
(* Authority. *)

\* The permission that a request in flight was found to have.
Permitted(q) ==
    /\ q.op \in {"assign_role", "grant_channel", "grant_source"} => AccessAdminPermission(q.actor)
    /\ q.op \in {"create_channel", "insert_channel"} => GlobalChannelManagePermission(q.actor)
    /\ q.op \in {"set_status", "update_channel"} =>
           CanManageChannel(q.actor, q.on) /\ q.on \in DOMAIN shops
    /\ q.op = "create_source" => GlobalStockSourceManagePermission(q.actor)
    /\ q.op = "set_stock" => CanManageStockSource(q.actor, q.on) /\ q.on \in DOMAIN warehouses
    /\ q.op = "set_variant_stock" => GlobalCatalogManagePermission(q.actor)

\* A role's group carries nothing that the registry does not give it.
CarriedFromRegistry == \A r \in Roles : carried[r] \subseteq RolePermissions[r]

AccessInv ==
    /\ AccessTypeOK
    /\ CarriedFromRegistry
    /\ \A a \in Acts : acts[a] # NoAct => Permitted(acts[a])

\* Nobody loses a role, a grant or a permission of a role, and no channel or source is lost.
AuthorityGrows ==
    /\ \A u \in People : memberships[u] \subseteq memberships'[u]
    /\ \A r \in Roles : carried[r] \subseteq carried'[r]
    /\ grants \subseteq grants'
    /\ DOMAIN shops \subseteq DOMAIN shops'
    /\ DOMAIN warehouses \subseteq DOMAIN warehouses'

\* The fields of a request in flight, by what it does.
LEMMA ActFields ==
    ASSUME AccessTypeOK, NEW a \in Acts, acts[a] # NoAct
    PROVE  /\ acts[a] \in PermittedActs
           /\ acts[a].actor \in People
           /\ acts[a].op \in {"assign_role", "grant_channel", "grant_source", "create_channel",
                              "insert_channel", "set_status", "update_channel",
                              "create_source", "set_stock", "set_variant_stock"}
           /\ acts[a].op = "assign_role" => acts[a].subject \in People /\ acts[a].on \in Roles
           /\ acts[a].op = "grant_channel" => acts[a].subject \in People /\ acts[a].on \in Shops
           /\ acts[a].op = "grant_source" => acts[a].subject \in People /\ acts[a].on \in Warehouses
           /\ acts[a].op \in {"create_channel", "insert_channel"} =>
                  acts[a].on \in Shops /\ acts[a].row \in ChannelRows
           /\ acts[a].op = "set_status" => acts[a].on \in Shops /\ acts[a].active \in BOOLEAN
           /\ acts[a].op = "update_channel" => acts[a].on \in Shops /\ acts[a].row \in ChannelRows
           /\ acts[a].op = "create_source" => acts[a].on \in Warehouses
           /\ acts[a].op = "set_stock" => acts[a].on \in Warehouses /\ acts[a].level \in Levels
           /\ acts[a].op = "set_variant_stock" => acts[a].level \in Levels
BY DEF AccessTypeOK, PermittedActs

LEMMA HeldStays ==
    ASSUME AccessTypeOK, AuthorityGrows, NEW u \in People, NEW p, HasGlobal(u, p)
    PROVE  HasGlobal(u, p)'
BY DEF HasGlobal, AuthorityGrows, AccessTypeOK

LEMMA PermittedStays ==
    ASSUME AccessTypeOK, AuthorityGrows, NEW q, q.actor \in People, Permitted(q)
    PROVE  Permitted(q)'
BY HeldStays DEF Permitted, AccessAdminPermission, GlobalChannelManagePermission,
       GlobalStockSourceManagePermission, GlobalCatalogManagePermission, CanManageChannel,
       CanManageStockSource, AuthorityGrows

\* A step after which authority has grown, the tables are well typed, and every request in
\* flight was in flight before, or is new and permitted, keeps the invariant.
LEMMA ActsStep ==
    ASSUME AccessInv, AuthorityGrows, AccessTypeOK', CarriedFromRegistry',
           \A b \in Acts : acts'[b] \in {acts[b], NoAct} \/ Permitted(acts[b])'
    PROVE  AccessInv'
<1> SUFFICES ASSUME NEW b \in Acts, acts'[b] # NoAct
             PROVE  Permitted(acts[b])'
  BY DEF AccessInv
<1>1. ASSUME NEW q, q = acts[b], q = acts'[b]
      PROVE  Permitted(acts[b])'
  <2>1. q.actor \in People /\ Permitted(q)
    BY <1>1, ActFields DEF AccessInv
  <2>2. Permitted(q)'
    BY <2>1, PermittedStays DEF AccessInv
  <2> QED
    BY <1>1, <2>2 DEF Permitted, AccessAdminPermission, GlobalChannelManagePermission,
       GlobalStockSourceManagePermission, GlobalCatalogManagePermission, CanManageChannel,
       CanManageStockSource, HasGlobal
<1> QED
  BY <1>1
-----------------------------------------------------------------------------
(* Every step. *)

\* What is shown of every step.
Kept == AccessInv' /\ AuthorizedStep

\* A step that writes none of the four tables asks for no authority.
LEMMA NothingWritten ==
    ASSUME UNCHANGED <<memberships, grants, shops, warehouses>>
    PROVE  AuthorizedStep
BY DEF AuthorizedStep

\* A request that is found to have its permission.
LEMMA PermitStep ==
    ASSUME AccessInv, NEW a \in Acts, NEW act \in PermittedActs, Permitted(act), Permit(a, act)
    PROVE  Kept
<1>1. /\ UNCHANGED <<groups, carried, memberships, grants, shops, warehouses>>
      /\ acts' = [acts EXCEPT ![a] = act]
      /\ acts \in [Acts -> PermittedActs \cup {NoAct}]
  BY DEF Permit, AccessInv, AccessTypeOK
<1>2. acts'[a] = act /\ \A b \in Acts \ {a} : acts'[b] = acts[b]
  BY <1>1
<1>3. AccessTypeOK' /\ CarriedFromRegistry' /\ AuthorityGrows
  <2>1. acts' \in [Acts -> PermittedActs \cup {NoAct}]
    BY <1>1
  <2> QED
    BY <1>1, <2>1 DEF AccessInv, AccessTypeOK, CarriedFromRegistry, AuthorityGrows
<1>4. Permitted(acts[a])'
  BY <1>1, <1>2 DEF Permitted, AccessAdminPermission, GlobalChannelManagePermission,
     GlobalStockSourceManagePermission, GlobalCatalogManagePermission, CanManageChannel,
     CanManageStockSource, HasGlobal
<1> QED
  BY <1>1, <1>2, <1>3, <1>4, ActsStep, NothingWritten DEF Kept

\* Each endpoint lets through what its permission class allows.
LEMMA ViewStep ==
    ASSUME AccessInv, NEW a \in Acts, NEW u \in People
    PROVE  /\ \A subject \in Subjects :
                  /\ \A r \in Roles : RoleAssignmentView(a, u, subject, r) => Kept
                  /\ \A c \in Shops : ChannelGrantView(a, u, subject, c) => Kept
                  /\ \A s \in Warehouses : StockSourceGrantView(a, u, subject, s) => Kept
           /\ \A c \in Shops, row \in ChannelRows : ChannelListCreateView(a, u, c, row) => Kept
           /\ \A c \in Shops, active \in BOOLEAN : ChannelDetailView(a, u, c, active) => Kept
           /\ \A s \in Warehouses : StockSourceListCreateView(a, u, s) => Kept
           /\ \A s \in Warehouses, level \in Levels : SourceStockView(a, u, s, level) => Kept
           /\ \A level \in Levels : VariantStockView(a, u, level) => Kept
<1> USE DEF Permitted
<1>1. ASSUME NEW subject \in Subjects, NEW r \in Roles, RoleAssignmentView(a, u, subject, r)
      PROVE  Kept
  <2> DEFINE act == [op |-> "assign_role", actor |-> u, subject |-> subject, on |-> r]
  <2>1. act \in PermittedActs
    BY AccessAssumption DEF PermittedActs
  <2>2. Permitted(act) /\ Permit(a, act)
    BY <1>1 DEF RoleAssignmentView
  <2> QED
    BY <2>1, <2>2, PermitStep
<1>2. ASSUME NEW subject \in Subjects, NEW c \in Shops, ChannelGrantView(a, u, subject, c)
      PROVE  Kept
  <2> DEFINE act == [op |-> "grant_channel", actor |-> u, subject |-> subject, on |-> c]
  <2>1. act \in PermittedActs
    BY AccessAssumption DEF PermittedActs
  <2>2. Permitted(act) /\ Permit(a, act)
    BY <1>2 DEF ChannelGrantView
  <2> QED
    BY <2>1, <2>2, PermitStep
<1>3. ASSUME NEW subject \in Subjects, NEW s \in Warehouses, StockSourceGrantView(a, u, subject, s)
      PROVE  Kept
  <2> DEFINE act == [op |-> "grant_source", actor |-> u, subject |-> subject, on |-> s]
  <2>1. act \in PermittedActs
    BY AccessAssumption DEF PermittedActs
  <2>2. Permitted(act) /\ Permit(a, act)
    BY <1>3 DEF StockSourceGrantView
  <2> QED
    BY <2>1, <2>2, PermitStep
<1>4. ASSUME NEW c \in Shops, NEW row \in ChannelRows, ChannelListCreateView(a, u, c, row)
      PROVE  Kept
  <2> DEFINE act == [op |-> "create_channel", actor |-> u, on |-> c, row |-> row]
  <2>1. act \in PermittedActs
    BY DEF PermittedActs
  <2>2. Permitted(act) /\ Permit(a, act)
    BY <1>4 DEF ChannelListCreateView
  <2> QED
    BY <2>1, <2>2, PermitStep
<1>5. ASSUME NEW c \in Shops, NEW active \in BOOLEAN, ChannelDetailView(a, u, c, active)
      PROVE  Kept
  <2> DEFINE act == [op |-> "set_status", actor |-> u, on |-> c, active |-> active]
  <2>1. act \in PermittedActs
    BY DEF PermittedActs
  <2>2. Permitted(act) /\ Permit(a, act)
    BY <1>5 DEF ChannelDetailView, ScopedChannelManagePermission
  <2> QED
    BY <2>1, <2>2, PermitStep
<1>6. ASSUME NEW s \in Warehouses, StockSourceListCreateView(a, u, s)
      PROVE  Kept
  <2> DEFINE act == [op |-> "create_source", actor |-> u, on |-> s]
  <2>1. act \in PermittedActs
    BY DEF PermittedActs
  <2>2. Permitted(act) /\ Permit(a, act)
    BY <1>6 DEF StockSourceListCreateView
  <2> QED
    BY <2>1, <2>2, PermitStep
<1>7. ASSUME NEW s \in Warehouses, NEW level \in Levels, SourceStockView(a, u, s, level)
      PROVE  Kept
  <2> DEFINE act == [op |-> "set_stock", actor |-> u, on |-> s, level |-> level]
  <2>1. act \in PermittedActs
    BY DEF PermittedActs
  <2>2. Permitted(act) /\ Permit(a, act)
    BY <1>7 DEF SourceStockView, ScopedStockSourceManagePermission
  <2> QED
    BY <2>1, <2>2, PermitStep
<1>8. ASSUME NEW level \in Levels, VariantStockView(a, u, level)
      PROVE  Kept
  <2> DEFINE act == [op |-> "set_variant_stock", actor |-> u, level |-> level]
  <2>1. act \in PermittedActs
    BY DEF PermittedActs
  <2>2. Permitted(act) /\ Permit(a, act)
    BY <1>8 DEF VariantStockView
  <2> QED
    BY <2>1, <2>2, PermitStep
<1> QED
  BY <1>1, <1>2, <1>3, <1>4, <1>5, <1>6, <1>7, <1>8

\* A request that ends, after writing what its actor may write.
LEMMA CloseStep ==
    ASSUME AccessInv, NEW a \in Acts, acts[a] # NoAct, Close(a), AuthorityGrows,
           AccessTypeOK', CarriedFromRegistry'
    PROVE  /\ AccessInv'
           /\ acts[a].actor \in People /\ By(acts[a].actor) /\ Permitted(acts[a])
<1>1. acts'[a] = NoAct /\ \A b \in Acts \ {a} : acts'[b] = acts[b]
  BY DEF Close, AccessInv, AccessTypeOK
<1>2. AccessInv'
  BY <1>1, ActsStep
<1>3. acts[a].actor \in People /\ Permitted(acts[a])
  BY ActFields DEF AccessInv
<1> QED
  BY <1>1, <1>2, <1>3 DEF By

LEMMA SyncStep ==
    ASSUME AccessInv, NEW r \in Roles, CreateGroup(r) \/ SyncPermissions(r)
    PROVE  Kept
<1>1. /\ UNCHANGED <<memberships, grants, shops, warehouses, acts>>
      /\ AuthorityGrows /\ AccessTypeOK' /\ CarriedFromRegistry'
  <2>1. CASE CreateGroup(r)
    BY <2>1 DEF CreateGroup, AuthorityGrows, AccessInv, AccessTypeOK, CarriedFromRegistry
  <2>2. CASE SyncPermissions(r)
    <3>1. RolePermissions[r] \subseteq Permissions /\ r \in DOMAIN RolePermissions
      BY AccessAssumption DEF Permissions
    <3>2. /\ carried' = [carried EXCEPT ![r] = RolePermissions[r]]
          /\ UNCHANGED <<groups, memberships, grants, shops, warehouses, acts>>
      BY <2>2 DEF SyncPermissions
    <3>3. /\ carried \in [Roles -> SUBSET Permissions]
          /\ \A x \in Roles : carried[x] \subseteq RolePermissions[x]
      BY DEF AccessInv, AccessTypeOK, CarriedFromRegistry
    <3>4. /\ carried' \in [Roles -> SUBSET Permissions]
          /\ \A x \in Roles : /\ carried[x] \subseteq carried'[x]
                              /\ carried'[x] \subseteq RolePermissions[x]
      BY <3>1, <3>2, <3>3
    <3> QED
      BY <3>2, <3>4 DEF AuthorityGrows, AccessInv, AccessTypeOK, CarriedFromRegistry
  <2> QED
    BY <2>1, <2>2
<1> QED
  BY <1>1, ActsStep, NothingWritten DEF Kept

LEMMA AssignRoleStep ==
    ASSUME AccessInv, NEW a \in Acts, AssignRole(a)
    PROVE  Kept
<1>1. acts[a] # NoAct /\ Close(a) /\ acts[a].op = "assign_role"
  BY DEF AssignRole, NoAct
<1>2. acts[a].subject \in People /\ acts[a].on \in Roles
  BY <1>1, ActFields DEF AccessInv
<1>3. /\ memberships' = [memberships EXCEPT ![acts[a].subject] = @ \cup {acts[a].on}]
      /\ UNCHANGED <<groups, carried, grants, shops, warehouses>>
  BY DEF AssignRole
<1>4. /\ memberships' \in [People -> SUBSET Roles]
      /\ \A u \in People : memberships[u] \subseteq memberships'[u]
  BY <1>2, <1>3 DEF AccessInv, AccessTypeOK
<1>5. AuthorityGrows /\ CarriedFromRegistry' /\ AccessTypeOK'
  BY <1>1, <1>3, <1>4 DEF AuthorityGrows, AccessInv, AccessTypeOK, CarriedFromRegistry, Close
<1>6. AccessInv' /\ acts[a].actor \in People /\ By(acts[a].actor) /\ Permitted(acts[a])
  BY <1>1, <1>5, CloseStep
<1>7. AuthorizedStep
  BY <1>1, <1>3, <1>6 DEF AuthorizedStep, Permitted
<1> QED
  BY <1>6, <1>7 DEF Kept

LEMMA GrantStep ==
    ASSUME AccessInv, NEW a \in Acts, GrantChannelManagement(a) \/ GrantStockSourceManagement(a)
    PROVE  Kept
<1>1. acts[a] # NoAct /\ Close(a) /\ acts[a].op \in {"grant_channel", "grant_source"}
  BY DEF GrantChannelManagement, GrantStockSourceManagement, NoAct
<1>2. /\ UNCHANGED <<groups, carried, memberships, shops, warehouses>>
      /\ grants \subseteq grants'
      /\ grants' \subseteq People \X Permissions \X (Shops \cup Warehouses)
  <2>1. "manage_channel" \in Permissions /\ "manage_stock_source" \in Permissions
    BY DEF Permissions, RolePermissions
  <2>2. /\ acts[a].subject \in People
        /\ acts[a].op = "grant_channel" => acts[a].on \in Shops
        /\ acts[a].op = "grant_source" => acts[a].on \in Warehouses
    BY <1>1, ActFields DEF AccessInv
  <2> QED
    BY <2>1, <2>2 DEF GrantChannelManagement, GrantStockSourceManagement, AccessInv, AccessTypeOK
<1>3. AuthorityGrows /\ CarriedFromRegistry' /\ AccessTypeOK'
  BY <1>1, <1>2 DEF AuthorityGrows, AccessInv, AccessTypeOK, CarriedFromRegistry, Close
<1>4. AccessInv' /\ acts[a].actor \in People /\ By(acts[a].actor) /\ Permitted(acts[a])
  BY <1>1, <1>3, CloseStep
<1>5. AuthorizedStep
  BY <1>1, <1>2, <1>4 DEF AuthorizedStep, Permitted
<1> QED
  BY <1>4, <1>5 DEF Kept

LEMMA RefusedStep ==
    ASSUME AccessInv, NEW a \in Acts, Refused(a)
    PROVE  Kept
<1>1. AuthorityGrows /\ CarriedFromRegistry' /\ AccessTypeOK'
  BY DEF Refused, AuthorityGrows, AccessInv, AccessTypeOK, CarriedFromRegistry, Close
<1> QED
  BY <1>1, CloseStep, NothingWritten DEF Refused, Kept

\* The two steps that only carry a request on.
LEMMA CheckStep ==
    ASSUME AccessInv, NEW a \in Acts, CreateChannel(a) \/ SetChannelStatus(a)
    PROVE  Kept
<1>1. UNCHANGED <<groups, carried, memberships, grants, shops, warehouses>> /\ acts[a] # NoAct
  BY DEF CreateChannel, SetChannelStatus, NoAct
<1>2. /\ acts'[a] \in PermittedActs
      /\ acts' \in [Acts -> PermittedActs \cup {NoAct}]
      /\ \A b \in Acts \ {a} : acts'[b] = acts[b]
      /\ acts'[a].actor = acts[a].actor /\ acts'[a].on = acts[a].on
      /\ \/ acts[a].op = "create_channel" /\ acts'[a].op = "insert_channel"
         \/ acts[a].op = "set_status" /\ acts'[a].op = "update_channel"
  <2>1. CASE CreateChannel(a)
    <3>1. acts[a].op = "create_channel" /\ acts' = [acts EXCEPT ![a].op = "insert_channel"]
      BY <2>1 DEF CreateChannel
    <3>2. acts[a] = [op |-> "create_channel", actor |-> acts[a].actor, on |-> acts[a].on,
                     row |-> acts[a].row]
          /\ acts[a].actor \in People /\ acts[a].on \in Shops /\ acts[a].row \in ChannelRows
      BY <1>1, <3>1, ActFields DEF AccessInv, PermittedActs
    <3>3. [acts[a] EXCEPT !.op = "insert_channel"]
              = [op |-> "insert_channel", actor |-> acts[a].actor, on |-> acts[a].on,
                 row |-> acts[a].row]
      BY <3>2
    <3> DEFINE act == [op |-> "insert_channel", actor |-> acts[a].actor, on |-> acts[a].on,
                       row |-> acts[a].row]
    <3>4. act \in PermittedActs
      BY <3>2 DEF PermittedActs
    <3>5. acts' = [acts EXCEPT ![a] = act]
      BY <3>1, <3>3
    <3>6. acts'[a] = act /\ acts \in [Acts -> PermittedActs \cup {NoAct}]
      BY <3>5 DEF AccessInv, AccessTypeOK
    <3> HIDE DEF act
    <3>7. acts'[a] \in PermittedActs /\ acts' \in [Acts -> PermittedActs \cup {NoAct}]
      BY <3>4, <3>5, <3>6
    <3>8. \A b \in Acts \ {a} : acts'[b] = acts[b]
      BY <3>5, <3>6
    <3>9. /\ acts'[a].actor = acts[a].actor /\ acts'[a].on = acts[a].on
          /\ acts'[a].op = "insert_channel"
      BY <3>6 DEF act
    <3> QED
      BY <3>1, <3>7, <3>8, <3>9
  <2>2. CASE SetChannelStatus(a)
    <3> DEFINE act == [op |-> "update_channel", actor |-> acts[a].actor, on |-> acts[a].on,
                       row |-> [shops[acts[a].on] EXCEPT !.active = acts[a].active]]
    <3>1. acts[a].op = "set_status" /\ acts' = [acts EXCEPT ![a] = act]
      BY <2>2 DEF SetChannelStatus
    <3>2. /\ acts[a].actor \in People /\ acts[a].on \in Shops /\ acts[a].active \in BOOLEAN
          /\ shops[acts[a].on] \in ChannelRows
      BY <1>1, <3>1, ActFields DEF AccessInv, Permitted, AccessTypeOK
    <3>3. [shops[acts[a].on] EXCEPT !.active = acts[a].active] \in ChannelRows
      BY <3>2 DEF ChannelRows
    <3>4. act \in PermittedActs
      BY <3>2, <3>3 DEF PermittedActs
    <3> QED
      BY <3>1, <3>4 DEF AccessInv, AccessTypeOK
  <2> QED
    BY <2>1, <2>2
<1>3. AccessTypeOK' /\ CarriedFromRegistry' /\ AuthorityGrows
  BY <1>1, <1>2 DEF AccessInv, AccessTypeOK, CarriedFromRegistry, AuthorityGrows
<1>4. Permitted(acts[a])'
  BY <1>1, <1>2 DEF AccessInv, Permitted, AccessAdminPermission, GlobalChannelManagePermission,
     GlobalStockSourceManagePermission, GlobalCatalogManagePermission, CanManageChannel,
     CanManageStockSource, HasGlobal
<1> QED
  BY <1>1, <1>2, <1>3, <1>4, ActsStep, NothingWritten DEF Kept

LEMMA InsertChannelStep ==
    ASSUME AccessInv, NEW a \in Acts, InsertChannel(a)
    PROVE  Kept
<1>1. acts[a] # NoAct /\ Close(a) /\ acts[a].op = "insert_channel"
  BY DEF InsertChannel, NoAct
<1>2. acts[a].on \in Shops /\ acts[a].row \in ChannelRows
  BY <1>1, ActFields DEF AccessInv
<1>3. /\ UNCHANGED <<groups, carried, memberships, grants, warehouses>>
      /\ acts[a].on \notin DOMAIN shops
      /\ DOMAIN shops' = DOMAIN shops \cup {acts[a].on}
      /\ shops'[acts[a].on] = acts[a].row
      /\ \A c \in DOMAIN shops : shops'[c] = shops[c]
  BY DEF InsertChannel
<1>4. DOMAIN shops' \subseteq Shops /\ \A c \in DOMAIN shops' : shops'[c] \in ChannelRows
  BY <1>2, <1>3 DEF AccessInv, AccessTypeOK
<1>5. AuthorityGrows /\ CarriedFromRegistry' /\ AccessTypeOK'
  <2>1. acts' \in [Acts -> PermittedActs \cup {NoAct}]
    BY <1>1 DEF AccessInv, AccessTypeOK, Close
  <2> QED
    BY <1>3, <1>4, <2>1 DEF AuthorityGrows, AccessInv, AccessTypeOK, CarriedFromRegistry
<1>6. AccessInv' /\ acts[a].actor \in People /\ By(acts[a].actor) /\ Permitted(acts[a])
  BY <1>1, <1>5, CloseStep
<1>7. GlobalChannelManagePermission(acts[a].actor)
  BY <1>1, <1>6 DEF Permitted
<1>8. AuthorizedStep
  BY <1>3, <1>6, <1>7 DEF AuthorizedStep
<1> QED
  BY <1>6, <1>8 DEF Kept

LEMMA UpdateChannelStep ==
    ASSUME AccessInv, NEW a \in Acts, UpdateChannel(a)
    PROVE  Kept
<1>1. acts[a] # NoAct /\ Close(a) /\ acts[a].op = "update_channel"
  BY DEF UpdateChannel, NoAct
<1>2. acts[a].on \in Shops /\ acts[a].row \in ChannelRows
  BY <1>1, ActFields DEF AccessInv
<1>3. /\ UNCHANGED <<groups, carried, memberships, grants, warehouses>>
      /\ shops' = [shops EXCEPT ![acts[a].on] = acts[a].row]
  BY DEF UpdateChannel
<1>4. /\ DOMAIN shops' = DOMAIN shops /\ \A c \in DOMAIN shops' : shops'[c] \in ChannelRows
      /\ \A c \in DOMAIN shops : shops'[c] # shops[c] => c = acts[a].on
  BY <1>2, <1>3 DEF AccessInv, AccessTypeOK
<1>5. AuthorityGrows /\ CarriedFromRegistry' /\ AccessTypeOK'
  <2>1. acts' \in [Acts -> PermittedActs \cup {NoAct}]
    BY <1>1 DEF AccessInv, AccessTypeOK, Close
  <2> QED
    BY <1>3, <1>4, <2>1 DEF AuthorityGrows, AccessInv, AccessTypeOK, CarriedFromRegistry
<1>6. AccessInv' /\ acts[a].actor \in People /\ By(acts[a].actor) /\ Permitted(acts[a])
  BY <1>1, <1>5, CloseStep
<1>7. CanManageChannel(acts[a].actor, acts[a].on)
  BY <1>1, <1>6 DEF Permitted
<1>8. AuthorizedStep
  BY <1>3, <1>4, <1>6, <1>7 DEF AuthorizedStep
<1> QED
  BY <1>6, <1>8 DEF Kept

LEMMA CreateStockSourceStep ==
    ASSUME AccessInv, NEW a \in Acts, CreateStockSource(a)
    PROVE  Kept
<1>1. acts[a] # NoAct /\ Close(a) /\ acts[a].op = "create_source"
  BY DEF CreateStockSource, NoAct
<1>2. acts[a].on \in Warehouses
  BY <1>1, ActFields DEF AccessInv
<1>3. /\ UNCHANGED <<groups, carried, memberships, grants, shops>>
      /\ acts[a].on \notin DOMAIN warehouses
      /\ DOMAIN warehouses' = DOMAIN warehouses \cup {acts[a].on}
      /\ warehouses'[acts[a].on] = 0
      /\ \A s \in DOMAIN warehouses : warehouses'[s] = warehouses[s]
  BY DEF CreateStockSource
<1>4. /\ DOMAIN warehouses' \subseteq Warehouses
      /\ \A s \in DOMAIN warehouses' : warehouses'[s] \in Levels \cup {0}
  BY <1>2, <1>3 DEF AccessInv, AccessTypeOK
<1>5. AuthorityGrows /\ CarriedFromRegistry' /\ AccessTypeOK'
  <2>1. acts' \in [Acts -> PermittedActs \cup {NoAct}]
    BY <1>1 DEF AccessInv, AccessTypeOK, Close
  <2> QED
    BY <1>3, <1>4, <2>1 DEF AuthorityGrows, AccessInv, AccessTypeOK, CarriedFromRegistry
<1>6. AccessInv' /\ acts[a].actor \in People /\ By(acts[a].actor) /\ Permitted(acts[a])
  BY <1>1, <1>5, CloseStep
<1>7. GlobalStockSourceManagePermission(acts[a].actor)
  BY <1>1, <1>6 DEF Permitted
<1>8. AuthorizedStep
  BY <1>3, <1>6, <1>7 DEF AuthorizedStep, MayCreateSource
<1> QED
  BY <1>6, <1>8 DEF Kept

LEMMA SetSourceStockStep ==
    ASSUME AccessInv, NEW a \in Acts, SetSourceStock(a)
    PROVE  Kept
<1>1. acts[a] # NoAct /\ Close(a) /\ acts[a].op = "set_stock"
  BY DEF SetSourceStock, NoAct
<1>2. acts[a].on \in Warehouses /\ acts[a].level \in Levels
  BY <1>1, ActFields DEF AccessInv
<1>3. /\ UNCHANGED <<groups, carried, memberships, grants, shops>>
      /\ warehouses' = [warehouses EXCEPT ![acts[a].on] = acts[a].level]
  BY DEF SetSourceStock
<1>4. /\ DOMAIN warehouses' = DOMAIN warehouses
      /\ \A s \in DOMAIN warehouses' : warehouses'[s] \in Levels \cup {0}
      /\ \A s \in DOMAIN warehouses : warehouses'[s] # warehouses[s] => s = acts[a].on
  BY <1>2, <1>3 DEF AccessInv, AccessTypeOK
<1>5. AuthorityGrows /\ CarriedFromRegistry' /\ AccessTypeOK'
  <2>1. acts' \in [Acts -> PermittedActs \cup {NoAct}]
    BY <1>1 DEF AccessInv, AccessTypeOK, Close
  <2> QED
    BY <1>3, <1>4, <2>1 DEF AuthorityGrows, AccessInv, AccessTypeOK, CarriedFromRegistry
<1>6. AccessInv' /\ acts[a].actor \in People /\ By(acts[a].actor) /\ Permitted(acts[a])
  BY <1>1, <1>5, CloseStep
<1>7. CanManageStockSource(acts[a].actor, acts[a].on)
  BY <1>1, <1>6 DEF Permitted
<1>8. AuthorizedStep
  BY <1>3, <1>4, <1>6, <1>7 DEF AuthorizedStep, MayWriteStock
<1> QED
  BY <1>6, <1>8 DEF Kept

\* Whether the default source is new or not, it is the only one that the catalog writes.
LEMMA SetVariantStockStep ==
    ASSUME AccessInv, NEW a \in Acts, SetVariantStock(a)
    PROVE  Kept
<1>1. acts[a] # NoAct /\ Close(a) /\ acts[a].op = "set_variant_stock"
  BY DEF SetVariantStock, NoAct
<1>2. acts[a].level \in Levels /\ DefaultSource \in Warehouses
  BY <1>1, ActFields, AccessAssumption DEF AccessInv
<1>3. /\ UNCHANGED <<groups, carried, memberships, grants, shops>>
      /\ DOMAIN warehouses' = DOMAIN warehouses \cup {DefaultSource}
      /\ warehouses'[DefaultSource] = acts[a].level
      /\ \A s \in DOMAIN warehouses : s # DefaultSource => warehouses'[s] = warehouses[s]
  BY DEF SetVariantStock
<1>4. /\ DOMAIN warehouses' \subseteq Warehouses
      /\ \A s \in DOMAIN warehouses' : warehouses'[s] \in Levels \cup {0}
  BY <1>2, <1>3 DEF AccessInv, AccessTypeOK
<1>5. AuthorityGrows /\ CarriedFromRegistry' /\ AccessTypeOK'
  <2>1. acts' \in [Acts -> PermittedActs \cup {NoAct}]
    BY <1>1 DEF AccessInv, AccessTypeOK, Close
  <2> QED
    BY <1>3, <1>4, <2>1 DEF AuthorityGrows, AccessInv, AccessTypeOK, CarriedFromRegistry
<1>6. AccessInv' /\ acts[a].actor \in People /\ By(acts[a].actor) /\ Permitted(acts[a])
  BY <1>1, <1>5, CloseStep
<1>7. GlobalCatalogManagePermission(acts[a].actor)
  BY <1>1, <1>6 DEF Permitted
<1>8. AuthorizedStep
  BY <1>3, <1>6, <1>7 DEF AuthorizedStep, MayCreateSource, MayWriteStock
<1> QED
  BY <1>6, <1>8 DEF Kept
-----------------------------------------------------------------------------
(* The theorem. *)

LEMMA AccessInitInv ==
    ASSUME AccessInit
    PROVE  AccessInv
<1>1. shops = <<>> /\ DOMAIN shops = {} /\ warehouses = <<>> /\ DOMAIN warehouses = {}
  BY DEF AccessInit
<1>2. AccessTypeOK /\ CarriedFromRegistry
  BY <1>1 DEF AccessInit, AccessTypeOK, CarriedFromRegistry
<1> QED
  BY <1>2 DEF AccessInit, AccessInv

LEMMA AccessStep ==
    ASSUME AccessInv, [AccessNext]_accessVars
    PROVE  AccessInv' /\ [AuthorizedStep]_accessVars
<1>1. CASE AccessNext
  <2>1. ASSUME NEW r \in Roles, CreateGroup(r) \/ SyncPermissions(r)
        PROVE  Kept
    BY <2>1, SyncStep
  <2>2. ASSUME NEW a \in Acts, NEW u \in People,
               \/ \E subject \in Subjects :
                      \/ \E r \in Roles : RoleAssignmentView(a, u, subject, r)
                      \/ \E c \in Shops : ChannelGrantView(a, u, subject, c)
                      \/ \E s \in Warehouses : StockSourceGrantView(a, u, subject, s)
               \/ \E c \in Shops, row \in ChannelRows : ChannelListCreateView(a, u, c, row)
               \/ \E c \in Shops, active \in BOOLEAN : ChannelDetailView(a, u, c, active)
               \/ \E s \in Warehouses : StockSourceListCreateView(a, u, s)
               \/ \E s \in Warehouses, level \in Levels : SourceStockView(a, u, s, level)
               \/ \E level \in Levels : VariantStockView(a, u, level)
        PROVE  Kept
    BY <2>2, ViewStep
  <2>3. ASSUME NEW a \in Acts,
               \/ AssignRole(a) \/ GrantChannelManagement(a) \/ GrantStockSourceManagement(a)
               \/ CreateChannel(a) \/ InsertChannel(a) \/ SetChannelStatus(a) \/ UpdateChannel(a)
               \/ CreateStockSource(a) \/ SetSourceStock(a) \/ SetVariantStock(a) \/ Refused(a)
        PROVE  Kept
    BY <2>3, AssignRoleStep, GrantStep, CheckStep, InsertChannelStep, UpdateChannelStep,
       CreateStockSourceStep, SetSourceStockStep, SetVariantStockStep, RefusedStep
  <2>4. Kept
    BY <1>1, <2>1, <2>2, <2>3 DEF AccessNext
  <2> QED
    BY <2>4 DEF Kept
<1>2. CASE UNCHANGED accessVars
  BY <1>2 DEF accessVars, AccessInv, AccessTypeOK, CarriedFromRegistry, Permitted,
     AccessAdminPermission, GlobalChannelManagePermission, GlobalStockSourceManagePermission,
     GlobalCatalogManagePermission, CanManageChannel, CanManageStockSource, HasGlobal
<1> QED
  BY <1>1, <1>2

\* Roles, grants, channels, sources and the requests on them have their types.
THEOREM AuthorityTyped == AccessSpec => []AccessTypeOK
<1>1. AccessInv /\ [AccessNext]_accessVars => AccessInv'
  BY AccessStep
<1>2. AccessInv => AccessTypeOK
  BY DEF AccessInv
<1> QED
  BY <1>1, <1>2, AccessInitInv, PTL DEF AccessSpec

\* Every change of authority, of a channel or of a stock level is made for someone who holds
\* the permission for that very object, with other requests in between the check of the
\* permission class and the write of the use case, and the stock endpoint of the catalog,
\* which asks for the catalog's permission only, writes the default source and no other.
THEOREM WritesAreAuthorized == AccessSpec => WritesAuthorized
<1>1. AccessInit => AccessInv
  BY AccessInitInv
<1>2. AccessInv /\ [AccessNext]_accessVars => AccessInv' /\ [AuthorizedStep]_accessVars
  BY AccessStep
<1> QED
  BY <1>1, <1>2, PTL DEF AccessSpec, WritesAuthorized
-----------------------------------------------------------------------------
(* Accounts, codes and sessions. *)

\* What a request carries is right for the account and the codes as they are now.
RequestRight(r) ==
    LET q == requests[r] IN
    /\ q.phase \in {"missed", "verified", "changed"} => q.id <= Latest(q.phone, q.purpose)
    /\ q.phase \in {"missed", "verified"} => q.attempts < MaxAttempts
    /\ q.phase = "changed" /\ q.purpose = "password_reset" =>
           Exists(q.phone) /\ q.password \in 1..accounts[q.phone].password
    /\ q.phase \in {"spent", "authenticated"} =>
           Exists(q.phone) /\ q.password <= accounts[q.phone].password

AccountsRight ==
    \A p \in Phones : Exists(p) => accounts[p].cleared <= accounts[p].password

CodesBounded == \A p \in Phones, u \in Purposes : Latest(p, u) <= MaxChallenges

IdentityInv ==
    /\ IdentityTypeOK /\ CodesBounded /\ AccountsRight
    /\ \A r \in Requests : RequestRight(r)

\* The bounds of the exploration are numbers.
LEMMA Bounds ==
    /\ MaxAttempts \in Nat /\ MaxAttempts > 0 /\ MaxPassword \in Nat /\ MaxPassword > 0
    /\ MaxChallenges \in Nat /\ MaxTokens \in Nat /\ NoUser \notin Accounts
BY IdentityAssumption

\* The fields of a request in flight.
LEMMA RequestFields ==
    ASSUME IdentityTypeOK, NEW r \in Requests
    PROVE  /\ requests[r] \in InFlight
           /\ requests[r] # NoRequest => requests[r].phase # "idle" /\ requests[r].phone \in Phones
           /\ requests[r].phase = "asked" => requests[r].purpose \in Purposes
           /\ requests[r].phase \in {"missed", "verified", "changed"} =>
                  /\ requests[r].purpose \in Purposes /\ requests[r].id \in 1..MaxChallenges
                  /\ requests[r].attempts \in 0..MaxAttempts
                  /\ requests[r].password \in 0..MaxPassword
                  /\ requests[r] \in [phase : {"missed", "verified", "changed"}, phone : Phones,
                                      purpose : Purposes, id : 1..MaxChallenges,
                                      attempts : 0..MaxAttempts, password : 0..MaxPassword]
           /\ requests[r].phase \in {"spent", "authenticated"} =>
                  requests[r].password \in 1..MaxPassword
BY DEF IdentityTypeOK, InFlight, NoRequest

\* No code is lost, and none is issued past the bound.
CodesKept ==
    /\ CodesBounded' /\ challenges' \in [Phones -> [Purposes -> Seq(Challenges)]]
    /\ \A p \in Phones, u \in Purposes :
           Latest(p, u) \in Nat /\ Latest(p, u)' \in Nat /\ Latest(p, u) <= Latest(p, u)'

\* An account stays, its password goes up, and what it has cleared is behind its password.
AccountsKept ==
    /\ AccountsRight'
    /\ accounts' \in [Phones -> Accounts \cup {NoUser}] /\ tokens' \in [Phones -> Tokens]
    /\ \A p \in Phones : Exists(p) =>
           /\ accounts'[p] # NoUser
           /\ accounts[p].password \in Nat /\ accounts'[p].password \in Nat
           /\ accounts[p].password <= accounts'[p].password

\* What the account of a phone is.
LEMMA AccountFields ==
    ASSUME IdentityTypeOK, NEW p \in Phones
    PROVE  /\ Exists(p) => /\ accounts[p] \in Accounts
                           /\ accounts[p].password \in 1..MaxPassword
                           /\ accounts[p].cleared \in 0..MaxPassword
           /\ tokens[p] \in Tokens
           /\ \A u \in Purposes : challenges[p][u] \in Seq(Challenges) /\ Latest(p, u) \in Nat
BY DEF IdentityTypeOK, Exists, Accounts, Latest

\* What a request in flight found stays right while the codes and the accounts are kept.
LEMMA RequestStays ==
    ASSUME IdentityInv, CodesKept, AccountsKept, NEW r \in Requests, requests'[r] = requests[r]
    PROVE  RequestRight(r)'
<1>1. RequestRight(r)
  BY DEF IdentityInv
<1>2. /\ requests[r].phase \in {"missed", "verified", "changed", "spent", "authenticated"} =>
             requests[r].phone \in Phones
      /\ requests[r].phase \in {"missed", "verified", "changed"} =>
             requests[r].purpose \in Purposes /\ requests[r].id \in Nat
      /\ requests[r].phase \in {"changed", "spent", "authenticated"} =>
             requests[r].password \in Nat
  BY RequestFields, Bounds DEF IdentityInv, NoRequest
<1> QED
  BY <1>1, <1>2 DEF RequestRight, CodesKept, AccountsKept, Exists

\* One request goes on with what is right, or ends.
LEMMA RequestGoesOn ==
    ASSUME IdentityInv, CodesKept, AccountsKept, NEW r \in Requests, NEW q \in InFlight,
           Goto(r, q), RequestRight(r)'
    PROVE  IdentityInv'
<1>1. /\ requests' \in [Requests -> InFlight]
      /\ \A x \in Requests : x # r => requests'[x] = requests[x]
  BY DEF Goto, IdentityInv, IdentityTypeOK
<1>2. \A x \in Requests : RequestRight(x)'
  BY <1>1, RequestStays
<1> QED
  BY <1>1, <1>2 DEF IdentityInv, IdentityTypeOK, CodesKept, AccountsKept

LEMMA RequestEnds ==
    ASSUME IdentityInv, CodesKept, AccountsKept, NEW r \in Requests, Finish(r)
    PROVE  IdentityInv'
<1>1. Goto(r, NoRequest) /\ NoRequest \in InFlight
  BY DEF Finish, InFlight
<1>2. requests'[r] = NoRequest
  BY <1>1 DEF Goto, IdentityInv, IdentityTypeOK
<1>3. RequestRight(r)'
  BY <1>2 DEF RequestRight, NoRequest
<1> QED
  BY <1>1, <1>3, RequestGoesOn

LEMMA RequestsStay ==
    ASSUME IdentityInv, CodesKept, AccountsKept, UNCHANGED requests
    PROVE  IdentityInv'
<1>1. \A x \in Requests : RequestRight(x)'
  BY RequestStays
<1> QED
  BY <1>1 DEF IdentityInv, IdentityTypeOK, CodesKept, AccountsKept

\* While the accounts and the tokens stay, the accounts and the sessions stay right.
LEMMA AccountsUnchanged ==
    ASSUME IdentityInv, UNCHANGED <<accounts, tokens>>
    PROVE  AccountsKept
<1>1. \A p \in Phones : Exists(p) => accounts[p].password \in Nat /\ accounts'[p] # NoUser
  BY AccountFields DEF IdentityInv, Exists
<1> QED
  BY <1>1 DEF AccountsKept, IdentityInv, IdentityTypeOK, AccountsRight, Exists

\* One value of a table of tables written over.
LEMMA CellWritten ==
    ASSUME NEW A, NEW B, NEW S, NEW f \in [A -> [B -> S]], NEW p \in A, NEW u \in B, NEW s \in S,
           NEW g, g = [f EXCEPT ![p][u] = s]
    PROVE  /\ g \in [A -> [B -> S]] /\ g[p][u] = s
           /\ \A x \in A, v \in B : ~(x = p /\ v = u) => g[x][v] = f[x][v]
<1>1. g = [f EXCEPT ![p] = [f[p] EXCEPT ![u] = s]]
  OBVIOUS
<1>2. [f[p] EXCEPT ![u] = s] \in [B -> S]
  OBVIOUS
<1>3. DOMAIN g = A /\ g[p] = [f[p] EXCEPT ![u] = s] /\ \A x \in A : x # p => g[x] = f[x]
  BY <1>1
<1> QED
  BY <1>1, <1>2, <1>3

\* One entry of a list in a table of tables written over.
LEMMA EntryWritten ==
    ASSUME NEW A, NEW B, NEW S, NEW f \in [A -> [B -> Seq(S)]], NEW p \in A, NEW u \in B,
           NEW i \in 1..Len(f[p][u]), NEW c \in S, NEW g, g = [f EXCEPT ![p][u][i] = c]
    PROVE  /\ g \in [A -> [B -> Seq(S)]]
           /\ \A x \in A, v \in B : Len(g[x][v]) = Len(f[x][v])
<1> DEFINE s == [f[p][u] EXCEPT ![i] = c]
<1>1. f[p][u] \in Seq(S)
  OBVIOUS
<1>2. s \in Seq(S) /\ Len(s) = Len(f[p][u])
  BY <1>1
<1>3. g = [f EXCEPT ![p][u] = s]
  OBVIOUS
<1> HIDE DEF s
<1>4. /\ g \in [A -> [B -> Seq(S)]] /\ g[p][u] = s
      /\ \A x \in A, v \in B : ~(x = p /\ v = u) => g[x][v] = f[x][v]
  BY <1>2, <1>3, CellWritten
<1> QED
  BY <1>2, <1>4

\* What the lengths of the lists say of the codes.
LEMMA CodesStay ==
    ASSUME IdentityInv, challenges' \in [Phones -> [Purposes -> Seq(Challenges)]],
           \A p \in Phones, u \in Purposes : Len(challenges'[p][u]) = Len(challenges[p][u])
    PROVE  CodesKept
<1>1. \A p \in Phones, u \in Purposes : Latest(p, u)' = Latest(p, u)
  BY DEF Latest
<1>2. \A p \in Phones, u \in Purposes : Latest(p, u) \in Nat /\ Latest(p, u) <= MaxChallenges
  BY AccountFields DEF IdentityInv, CodesBounded
<1>3. CodesBounded'
  BY <1>1, <1>2 DEF CodesBounded
<1> QED
  BY <1>1, <1>2, <1>3, Bounds DEF CodesKept

LEMMA CodesUnchanged ==
    ASSUME IdentityInv, UNCHANGED challenges
    PROVE  CodesKept
BY CodesStay DEF IdentityInv, IdentityTypeOK

\* A challenge written over.
LEMMA CodeWritten ==
    ASSUME IdentityInv, NEW p \in Phones, NEW u \in Purposes, NEW i \in 1..Latest(p, u),
           NEW challenge \in Challenges, challenges' = [challenges EXCEPT ![p][u][i] = challenge]
    PROVE  CodesKept
<1>1. challenges \in [Phones -> [Purposes -> Seq(Challenges)]] /\ i \in 1..Len(challenges[p][u])
  BY DEF IdentityInv, IdentityTypeOK, Latest
<1>2. /\ challenges' \in [Phones -> [Purposes -> Seq(Challenges)]]
      /\ \A x \in Phones, v \in Purposes : Len(challenges'[x][v]) = Len(challenges[x][v])
  BY <1>1, EntryWritten
<1> QED
  BY <1>2, CodesStay

\* A request saves the challenge it has read, with its answer.
LEMMA ChallengeSaved ==
    ASSUME IdentityInv, NEW r \in Requests, requests[r].phase \in {"missed", "verified", "changed"},
           NEW attempts \in 0..MaxAttempts, NEW consumed \in BOOLEAN, NEW missed \in Nat,
           SaveChallenge(requests[r], attempts, consumed, missed)
    PROVE  CodesKept
<1> DEFINE q == requests[r]
           old == challenges[q.phone][q.purpose][q.id]
           misses == old.misses + missed
           new == [old EXCEPT !.attempts = attempts, !.consumed = consumed, !.misses = misses]
<1>1. q.phone \in Phones /\ q.purpose \in Purposes /\ q.id \in 1..MaxChallenges
  BY RequestFields DEF IdentityInv, NoRequest
<1>2. q.id <= Latest(q.phone, q.purpose)
  BY DEF IdentityInv, RequestRight
<1>3. Latest(q.phone, q.purpose) \in Nat /\ challenges[q.phone][q.purpose] \in Seq(Challenges)
  BY <1>1, AccountFields DEF IdentityInv
<1>4. q.id \in 1..Latest(q.phone, q.purpose)
  BY <1>1, <1>2, <1>3, Bounds
<1>5. old \in Challenges
  BY <1>3, <1>4 DEF Latest
<1>6. challenges' = [challenges EXCEPT ![q.phone][q.purpose][q.id] = new]
  BY DEF SaveChallenge
<1>7. misses \in Nat
  BY <1>5 DEF Challenges
<1> HIDE DEF misses, old
<1>8. new \in Challenges
  BY <1>5, <1>7 DEF Challenges
<1> HIDE DEF q, new
<1> QED
  BY <1>1, <1>4, <1>6, <1>8, CodeWritten
-----------------------------------------------------------------------------
(* The steps keep the invariant. *)

LEMMA RequestOtpInv ==
    ASSUME IdentityInv, NEW r \in Requests, NEW p \in Phones, NEW u \in Purposes,
           RequestOtp(r, p, u)
    PROVE  IdentityInv'
<1> DEFINE q == [phase |-> "asked", phone |-> p, purpose |-> u]
<1>1. q \in InFlight
  BY DEF InFlight
<1>2. Goto(r, q) /\ UNCHANGED <<accounts, challenges, tokens>>
  BY DEF RequestOtp
<1>3. RequestRight(r)'
  BY <1>2 DEF Goto, IdentityInv, IdentityTypeOK, RequestRight
<1> HIDE DEF q
<1> QED
  BY <1>1, <1>2, <1>3, CodesUnchanged, AccountsUnchanged, RequestGoesOn

LEMMA AuthenticateInv ==
    ASSUME IdentityInv, NEW r \in Requests, NEW p \in Phones, Authenticate(r, p)
    PROVE  IdentityInv'
<1> DEFINE q == [phase |-> "authenticated", phone |-> p, password |-> accounts[p].password]
<1>1. Goto(r, q) /\ UNCHANGED <<accounts, challenges, tokens>> /\ Exists(p)
  BY DEF Authenticate
<1>2. accounts[p].password \in 1..MaxPassword /\ accounts[p].password <= accounts[p].password
  BY <1>1, AccountFields, Bounds DEF IdentityInv
<1>3. q \in InFlight
  BY <1>2 DEF InFlight
<1>4. RequestRight(r)'
  BY <1>1, <1>2 DEF Goto, IdentityInv, IdentityTypeOK, RequestRight, Exists
<1> HIDE DEF q
<1> QED
  BY <1>1, <1>3, <1>4, CodesUnchanged, AccountsUnchanged, RequestGoesOn

LEMMA VerifyInv ==
    ASSUME IdentityInv, NEW r \in Requests, NEW p \in Phones, NEW u \in Purposes,
           NEW right \in BOOLEAN, Verify(r, p, u, right)
    PROVE  IdentityInv'
<1> DEFINE challenge == challenges[p][u][Latest(p, u)]
           attempts == challenge.attempts
           phase == IF right THEN "verified" ELSE "missed"
           id == Latest(p, u)
           q == [phase |-> phase, phone |-> p, purpose |-> u, id |-> id,
                 attempts |-> attempts, password |-> 0]
<1>1. /\ id \in 1..MaxChallenges /\ challenges[p][u] \in Seq(Challenges)
      /\ id = Len(challenges[p][u])
  BY AccountFields, Bounds DEF Verify, IdentityInv, CodesBounded, Latest
<1>2. attempts \in 0..MaxAttempts /\ attempts < MaxAttempts
  <2>1. challenge \in Challenges
    BY <1>1
  <2>2. ~Exhausted(challenge)
    BY DEF Verify, Acceptable
  <2> QED
    BY <2>1, <2>2, Bounds DEF Exhausted, Challenges
<1>3. Goto(r, q) /\ UNCHANGED <<accounts, challenges, tokens>> /\ Latest(p, u)' = id
  BY DEF Verify, Latest
<1> HIDE DEF id, attempts
<1>4. q \in InFlight
  BY <1>1, <1>2, Bounds DEF InFlight
<1>5. /\ q.phase \in {"missed", "verified"} /\ q.phone = p /\ q.purpose = u
      /\ q.id = id /\ q.attempts = attempts
  OBVIOUS
<1> HIDE DEF q
<1>6. requests'[r] = q
  BY <1>3 DEF Goto, IdentityInv, IdentityTypeOK
<1>7. RequestRight(r)'
  BY <1>1, <1>2, <1>3, <1>5, <1>6 DEF RequestRight
<1> QED
  BY <1>3, <1>4, <1>7, CodesUnchanged, AccountsUnchanged, RequestGoesOn

LEMMA IssueOtpInv ==
    ASSUME IdentityInv, NEW r \in Requests, IssueOtp(r)
    PROVE  IdentityInv'
<1>1. PICK p \in Phones, u \in Purposes : requests[r].phone = p /\ requests[r].purpose = u
  BY RequestFields DEF IssueOtp, IdentityInv, NoRequest
<1> DEFINE s == Append(challenges[p][u], NewChallenge)
<1>2. NewChallenge \in Challenges
  BY Bounds DEF NewChallenge, Challenges, Ages
<1>3. /\ challenges' = [challenges EXCEPT ![p][u] = s]
      /\ Latest(p, "registration") + Latest(p, "password_reset") < MaxChallenges
      /\ Finish(r) /\ UNCHANGED <<accounts, tokens>>
  BY <1>1 DEF IssueOtp
<1>4. challenges \in [Phones -> [Purposes -> Seq(Challenges)]]
  BY DEF IdentityInv, IdentityTypeOK
<1>5. s \in Seq(Challenges) /\ Len(s) = Latest(p, u) + 1
  BY <1>1, <1>2, <1>4 DEF Latest
<1> HIDE DEF s
<1>6. /\ challenges' \in [Phones -> [Purposes -> Seq(Challenges)]] /\ challenges'[p][u] = s
      /\ \A x \in Phones, v \in Purposes :
             ~(x = p /\ v = u) => challenges'[x][v] = challenges[x][v]
  BY <1>1, <1>3, <1>4, <1>5, CellWritten
<1>7. \A x \in Phones, v \in Purposes : Latest(x, v) \in Nat /\ Latest(x, v) <= MaxChallenges
  BY AccountFields DEF IdentityInv, CodesBounded
<1>8. Latest(p, u)' = Latest(p, u) + 1 /\ Latest(p, u) + 1 <= MaxChallenges
  <2>1. Len(challenges'[p][u]) = Latest(p, u) + 1
    BY <1>5, <1>6
  <2>2. Latest(p, "registration") \in Nat /\ Latest(p, "password_reset") \in Nat
    BY <1>1, <1>7 DEF Purposes
  <2>3. u = "registration" \/ u = "password_reset"
    BY <1>1 DEF Purposes
  <2>4. Latest(p, u)' = Latest(p, u) + 1
    BY <2>1 DEF Latest
  <2> QED
    BY <1>3, <2>2, <2>3, <2>4, Bounds
<1>9. \A x \in Phones, v \in Purposes :
          Len(challenges'[x][v]) = IF x = p /\ v = u THEN Latest(p, u) + 1 ELSE Latest(x, v)
  BY <1>5, <1>6 DEF Latest
<1>10. \A x \in Phones, v \in Purposes :
           /\ Len(challenges'[x][v]) \in Nat /\ Latest(x, v) <= Len(challenges'[x][v])
           /\ Len(challenges'[x][v]) <= MaxChallenges
  BY <1>7, <1>8, <1>9, Bounds
<1>11. CodesKept
  BY <1>6, <1>7, <1>10 DEF CodesKept, CodesBounded, Latest
<1> QED
  BY <1>3, <1>11, AccountsUnchanged, RequestEnds

LEMMA RecordMissInv ==
    ASSUME IdentityInv, NEW r \in Requests, RecordMiss(r)
    PROVE  IdentityInv'
<1>1. /\ requests[r].phase = "missed" /\ Finish(r) /\ UNCHANGED <<accounts, tokens>>
      /\ SaveChallenge(requests[r], requests[r].attempts + 1, FALSE, 1)
  BY DEF RecordMiss
<1>2. requests[r].attempts + 1 \in 0..MaxAttempts
  <2>1. requests[r].attempts \in 0..MaxAttempts /\ requests[r].attempts < MaxAttempts
    BY <1>1, RequestFields DEF IdentityInv, RequestRight
  <2> QED
    BY <2>1, Bounds
<1> QED
  BY <1>1, <1>2, ChallengeSaved, AccountsUnchanged, RequestEnds

LEMMA ConsumeInv ==
    ASSUME IdentityInv, NEW r \in Requests, Consume(r)
    PROVE  IdentityInv'
<1> DEFINE q == requests[r]
           spent == [phase |-> "spent", phone |-> q.phone, password |-> q.password]
<1>1. /\ q.phase = "changed" /\ UNCHANGED <<accounts, tokens>>
      /\ Goto(r, IF q.purpose = "registration" THEN NoRequest ELSE spent)
      /\ SaveChallenge(q, q.attempts, TRUE, 0)
  BY DEF Consume
<1>2. /\ q.attempts \in 0..MaxAttempts /\ q.phone \in Phones /\ q.purpose \in Purposes
      /\ q.password \in 0..MaxPassword
  BY <1>1, RequestFields DEF IdentityInv, NoRequest
<1>3. CodesKept /\ AccountsKept
  BY <1>1, <1>2, ChallengeSaved, AccountsUnchanged
<1>4. CASE q.purpose = "registration"
  BY <1>1, <1>3, <1>4, RequestEnds DEF Finish
<1>5. CASE q.purpose # "registration"
  <2>1. q.purpose = "password_reset"
    BY <1>2, <1>5 DEF Purposes
  <2>2. Exists(q.phone) /\ q.password \in 1..accounts[q.phone].password
    BY <1>1, <2>1 DEF IdentityInv, RequestRight
  <2>3. accounts[q.phone].password \in 1..MaxPassword
    BY <1>2, <2>2, AccountFields DEF IdentityInv
  <2>4. q.password \in 1..MaxPassword /\ q.password <= accounts[q.phone].password
    BY <2>2, <2>3, Bounds
  <2>5. spent \in InFlight
    BY <1>2, <2>4 DEF InFlight
  <2>6. Goto(r, spent) /\ requests'[r] = spent
    BY <1>1, <1>5 DEF Goto, IdentityInv, IdentityTypeOK
  <2>7. spent.phase = "spent" /\ spent.phone = q.phone /\ spent.password = q.password
    OBVIOUS
  <2> HIDE DEF spent, q
  <2>8. RequestRight(r)'
    BY <1>1, <2>2, <2>4, <2>6, <2>7 DEF RequestRight, Exists
  <2> QED
    BY <1>3, <2>5, <2>6, <2>8, RequestGoesOn
<1> QED
  BY <1>4, <1>5

\* Time passes for a code.
LEMMA AgeInv ==
    ASSUME IdentityInv, NEW p \in Phones, NEW u \in Purposes, Age(p, u)
    PROVE  IdentityInv'
<1> DEFINE i == Latest(p, u)
           old == challenges[p][u][i]
           age == IF old.age = "cooling" THEN "live" ELSE "expired"
           new == [old EXCEPT !.age = age]
<1>1. i \in Nat /\ i > 0 /\ challenges[p][u] \in Seq(Challenges) /\ i = Len(challenges[p][u])
  BY AccountFields DEF Age, IdentityInv, Latest
<1>2. old \in Challenges
  BY <1>1
<1>3. challenges' = [challenges EXCEPT ![p][u][i] = new] /\ UNCHANGED <<accounts, tokens, requests>>
  BY DEF Age
<1>4. age \in Ages
  BY DEF Ages
<1> HIDE DEF old, age
<1>5. new \in Challenges
  BY <1>2, <1>4 DEF Challenges
<1>6. i \in 1..Latest(p, u)
  BY <1>1
<1> HIDE DEF new, i
<1>7. CodesKept
  BY <1>3, <1>5, <1>6, CodeWritten
<1> QED
  BY <1>3, <1>7, AccountsUnchanged, RequestsStay

\* The account is a new one, or is rewritten with a later password or a later reset done.
LEMMA AccountWritten ==
    ASSUME IdentityInv, NEW p \in Phones, NEW account \in Accounts, NEW opened \in Tokens,
           accounts' = [accounts EXCEPT ![p] = account], tokens' = [tokens EXCEPT ![p] = opened],
           Exists(p) => accounts[p].password <= account.password,
           account.cleared <= account.password
    PROVE  AccountsKept
<1>1. /\ accounts'[p] = account /\ tokens'[p] = opened
      /\ \A x \in Phones : x # p => accounts'[x] = accounts[x] /\ tokens'[x] = tokens[x]
      /\ accounts' \in [Phones -> Accounts \cup {NoUser}] /\ tokens' \in [Phones -> Tokens]
  BY DEF IdentityInv, IdentityTypeOK
<1>2. account.password \in Nat /\ account # NoUser
  BY Bounds DEF Accounts
<1>3. \A x \in Phones : Exists(x) => accounts[x].password \in Nat
  BY AccountFields, Bounds DEF IdentityInv
<1>4. AccountsRight'
  BY <1>1 DEF IdentityInv, AccountsRight, Exists
<1>5. \A x \in Phones : Exists(x) =>
          /\ accounts'[x] # NoUser /\ accounts'[x].password \in Nat
          /\ accounts[x].password <= accounts'[x].password
  BY <1>1, <1>2, <1>3 DEF Exists
<1> QED
  BY <1>1, <1>3, <1>4, <1>5 DEF AccountsKept

LEMMA AccountCreated ==
    ASSUME IdentityInv, NEW p \in Phones, ~Exists(p), UNCHANGED tokens,
           accounts' = [accounts EXCEPT ![p] = NewAccount]
    PROVE  AccountsKept
<1>1. NewAccount \in Accounts /\ NewAccount.cleared <= NewAccount.password
  BY Bounds DEF NewAccount, Accounts
<1>2. tokens[p] \in Tokens /\ tokens' = [tokens EXCEPT ![p] = tokens[p]]
  BY AccountFields DEF IdentityInv, IdentityTypeOK
<1> QED
  BY <1>1, <1>2, AccountWritten

LEMMA CreateUserInv ==
    ASSUME IdentityInv, NEW r \in Requests, CreateUser(r)
    PROVE  IdentityInv'
<1> DEFINE q == requests[r]
           next == [q EXCEPT !.phase = "changed"]
<1>1. /\ q.phase = "verified" /\ q.purpose = "registration" /\ ~Exists(q.phone)
      /\ accounts' = [accounts EXCEPT ![q.phone] = NewAccount]
      /\ Goto(r, next) /\ UNCHANGED <<challenges, tokens>>
  BY DEF CreateUser
<1>2. q.phone \in Phones /\ q.purpose \in Purposes
  BY <1>1, RequestFields DEF IdentityInv, NoRequest
<1>3. AccountsKept /\ CodesKept
  BY <1>1, <1>2, AccountCreated, CodesUnchanged
<1>4. next \in InFlight /\ next.phase = "changed" /\ next.id = q.id
      /\ next.phone = q.phone /\ next.purpose = "registration"
  <2>1. q \in [phase : {"missed", "verified", "changed"}, phone : Phones, purpose : Purposes,
               id : 1..MaxChallenges, attempts : 0..MaxAttempts, password : 0..MaxPassword]
    BY <1>1, RequestFields DEF IdentityInv
  <2> QED
    BY <1>1, <2>1 DEF InFlight
<1>5. q.id <= Latest(q.phone, q.purpose)
  BY <1>1 DEF IdentityInv, RequestRight
<1>6. requests'[r] = next
  BY <1>1 DEF Goto, IdentityInv, IdentityTypeOK
<1> HIDE DEF next, q
<1>7. RequestRight(r)'
  BY <1>1, <1>4, <1>5, <1>6 DEF RequestRight, Latest
<1> QED
  BY <1>1, <1>3, <1>4, <1>7, RequestGoesOn

LEMMA SetPasswordInv ==
    ASSUME IdentityInv, NEW r \in Requests, SetPassword(r)
    PROVE  IdentityInv'
<1> DEFINE q == requests[r]
           old == accounts[q.phone]
           password == old.password + 1
           account == [old EXCEPT !.password = password]
           next == [q EXCEPT !.phase = "changed", !.password = password]
<1>1. /\ q.phase = "verified" /\ q.purpose = "password_reset" /\ Exists(q.phone)
      /\ password <= MaxPassword
      /\ accounts' = [accounts EXCEPT ![q.phone] = account]
      /\ Goto(r, next) /\ UNCHANGED <<challenges, tokens>>
  BY DEF SetPassword
<1>2. q.phone \in Phones /\ q.purpose \in Purposes
  BY <1>1, RequestFields DEF IdentityInv, NoRequest
<1>3. /\ old \in Accounts /\ old.password \in 1..MaxPassword /\ old.cleared \in 0..MaxPassword
      /\ tokens[q.phone] \in Tokens
  BY <1>1, <1>2, AccountFields DEF IdentityInv
<1>4. password \in 1..MaxPassword /\ old.password <= password /\ old.cleared <= password
  <2>1. old.cleared <= old.password
    BY <1>1, <1>2 DEF IdentityInv, AccountsRight
  <2> QED
    BY <1>1, <1>3, <2>1, Bounds
<1> HIDE DEF password
<1>5. account \in Accounts /\ account.password = password /\ account.cleared = old.cleared
  BY <1>3, <1>4 DEF Accounts
<1>6. tokens' = [tokens EXCEPT ![q.phone] = tokens[q.phone]]
  BY <1>1 DEF IdentityInv, IdentityTypeOK
<1>8. next \in InFlight /\ next.phase = "changed" /\ next.id = q.id
      /\ next.phone = q.phone /\ next.purpose = "password_reset" /\ next.password = password
  <2>1. q \in [phase : {"missed", "verified", "changed"}, phone : Phones, purpose : Purposes,
               id : 1..MaxChallenges, attempts : 0..MaxAttempts, password : 0..MaxPassword]
    BY <1>1, RequestFields DEF IdentityInv
  <2>2. password \in 0..MaxPassword
    BY <1>4, Bounds
  <2> QED
    BY <1>1, <2>1, <2>2 DEF InFlight
<1>9. requests'[r] = next
  BY <1>1 DEF Goto, IdentityInv, IdentityTypeOK
<1>10. q.id <= Latest(q.phone, q.purpose)
  BY <1>1 DEF IdentityInv, RequestRight
<1> HIDE DEF next, account
<1>11. AccountsKept
  BY <1>1, <1>2, <1>3, <1>4, <1>5, <1>6, AccountWritten
<1>12. accounts'[q.phone] = account /\ account # NoUser
  BY <1>1, <1>2, <1>5, Bounds DEF IdentityInv, IdentityTypeOK
<1>13. password \in 1..account.password
  BY <1>4, <1>5, Bounds
<1> HIDE DEF q
<1>14. RequestRight(r)'
  BY <1>1, <1>8, <1>9, <1>10, <1>12, <1>13 DEF RequestRight, Latest, Exists
<1> QED
  BY <1>1, <1>8, <1>11, <1>14, CodesUnchanged, RequestGoesOn

LEMMA RevokeAllInv ==
    ASSUME IdentityInv, NEW r \in Requests, RevokeAll(r)
    PROVE  IdentityInv'
<1> DEFINE q == requests[r]
           old == accounts[q.phone]
           cleared == Later(old.cleared, q.password)
           account == [old EXCEPT !.cleared = cleared]
<1>1. /\ q.phase = "spent" /\ Finish(r) /\ UNCHANGED challenges
      /\ tokens' = [tokens EXCEPT ![q.phone] = NoTokens]
      /\ accounts' = [accounts EXCEPT ![q.phone] = account]
  BY DEF RevokeAll
<1>2. /\ q.phone \in Phones /\ q.password \in 1..MaxPassword
      /\ Exists(q.phone) /\ q.password <= old.password
  BY <1>1, RequestFields DEF IdentityInv, NoRequest, RequestRight
<1>3. old \in Accounts /\ old.password \in 1..MaxPassword /\ old.cleared \in 0..MaxPassword
  BY <1>2, AccountFields DEF IdentityInv
<1>4. old.cleared <= old.password
  BY <1>2 DEF IdentityInv, AccountsRight
<1>5. cleared \in 0..MaxPassword /\ cleared <= old.password
  BY <1>2, <1>3, <1>4, Bounds DEF Later
<1> HIDE DEF cleared
<1>6. account \in Accounts /\ account.password = old.password /\ account.cleared = cleared
  BY <1>3, <1>5 DEF Accounts
<1>7. NoTokens \in Tokens
  BY Bounds DEF NoTokens, Tokens
<1>8. old.password <= account.password
  BY <1>3, <1>6, Bounds
<1> HIDE DEF account
<1>9. AccountsKept
  BY <1>1, <1>2, <1>5, <1>6, <1>7, <1>8, AccountWritten
<1> QED
  BY <1>1, <1>9, CodesUnchanged, RequestEnds

\* Sessions are opened and end while the accounts stay.
LEMMA TokensWritten ==
    ASSUME IdentityInv, UNCHANGED accounts, NEW p \in Phones, NEW opened \in Tokens,
           tokens' = [tokens EXCEPT ![p] = opened]
    PROVE  AccountsKept
<1>1. \A x \in Phones : Exists(x) => accounts[x].password \in Nat /\ accounts'[x] # NoUser
  BY AccountFields DEF IdentityInv, Exists
<1> QED
  BY <1>1 DEF AccountsKept, IdentityInv, IdentityTypeOK, AccountsRight, Exists

LEMMA DieRevokingInv ==
    ASSUME IdentityInv, NEW r \in Requests, NEW left \in Tokens, DieRevoking(r, left)
    PROVE  IdentityInv'
<1>1. requests[r].phone \in Phones
  BY RequestFields DEF DieRevoking, IdentityInv, NoRequest
<1>2. AccountsKept
  BY <1>1, TokensWritten DEF DieRevoking
<1> QED
  BY <1>2, CodesUnchanged, RequestEnds DEF DieRevoking

LEMMA IssueTokensInv ==
    ASSUME IdentityInv, NEW r \in Requests, IssueTokens(r)
    PROVE  IdentityInv'
<1> DEFINE p == requests[r].phone
           n == requests[r].password
           opened == [tokens[p] EXCEPT ![n] = tokens[p][n] + 1]
<1>1. /\ tokens[p][n] < MaxTokens /\ Finish(r) /\ UNCHANGED <<accounts, challenges>>
      /\ tokens' = [tokens EXCEPT ![p] = opened]
  BY DEF IssueTokens
<1>2. p \in Phones /\ n \in 1..MaxPassword
  BY RequestFields DEF IssueTokens, IdentityInv, NoRequest
<1>3. tokens[p] \in [1..MaxPassword -> 0..MaxTokens] /\ tokens[p][n] \in 0..MaxTokens
  BY <1>2, AccountFields DEF IdentityInv, Tokens
<1>4. tokens[p][n] + 1 \in 0..MaxTokens
  BY <1>1, <1>3, Bounds
<1>5. opened \in Tokens
  BY <1>2, <1>3, <1>4 DEF Tokens
<1> HIDE DEF opened, n, p
<1> QED
  BY <1>1, <1>2, <1>5, TokensWritten, CodesUnchanged, RequestEnds

LEMMA LogoutInv ==
    ASSUME IdentityInv, NEW p \in Phones, NEW n \in 1..MaxPassword, Logout(p, n)
    PROVE  IdentityInv'
<1> DEFINE opened == [tokens[p] EXCEPT ![n] = tokens[p][n] - 1]
<1>1. /\ tokens[p][n] > 0 /\ UNCHANGED <<accounts, challenges, requests>>
      /\ tokens' = [tokens EXCEPT ![p] = opened]
  BY DEF Logout
<1>2. tokens[p] \in [1..MaxPassword -> 0..MaxTokens] /\ tokens[p][n] \in 0..MaxTokens
  BY AccountFields DEF IdentityInv, Tokens
<1>3. tokens[p][n] - 1 \in 0..MaxTokens
  BY <1>1, <1>2, Bounds
<1>4. opened \in Tokens
  BY <1>2, <1>3 DEF Tokens
<1> HIDE DEF opened
<1> QED
  BY <1>1, <1>4, TokensWritten, CodesUnchanged, RequestsStay

\* A request that just ends: its number was taken, or its worker died.
LEMMA OnlyEnds ==
    ASSUME IdentityInv, NEW r \in Requests, UserAlreadyExists(r) \/ Crash(r)
    PROVE  IdentityInv'
BY CodesUnchanged, AccountsUnchanged, RequestEnds DEF UserAlreadyExists, Crash

LEMMA AdminCreateUserInv ==
    ASSUME IdentityInv, NEW p \in Phones, AdminCreateUser(p)
    PROVE  IdentityInv'
BY AccountCreated, CodesUnchanged, RequestsStay DEF AdminCreateUser
-----------------------------------------------------------------------------
(* The theorems. *)

LEMMA IdentityInitInv ==
    ASSUME IdentityInit
    PROVE  IdentityInv
<1>1. IdentityTypeOK
  <2>1. NoTokens \in Tokens
    BY Bounds DEF NoTokens, Tokens
  <2> QED
    BY <2>1 DEF IdentityInit, IdentityTypeOK, InFlight
<1>2. CodesBounded
  BY Bounds DEF IdentityInit, CodesBounded, Latest
<1>3. \A p \in Phones : ~Exists(p)
  BY DEF IdentityInit, Exists
<1>4. \A r \in Requests : RequestRight(r)
  BY DEF IdentityInit, RequestRight, NoRequest
<1> QED
  BY <1>1, <1>2, <1>3, <1>4 DEF IdentityInv, AccountsRight

LEMMA IdentityStep ==
    ASSUME IdentityInv, [IdentityNext]_identityVars
    PROVE  IdentityInv'
<1>1. Dialled \subseteq Phones
  BY DEF Dialled, Spellings
<1>2. ASSUME NEW r \in Requests,
             \/ RequestOtpView(r) \/ RegisterView(r) \/ PasswordResetView(r) \/ LoginView(r)
      PROVE  IdentityInv'
  <2>1. {"registration", "password_reset"} \subseteq Purposes
    BY DEF Purposes
  <2> QED
    BY <1>1, <1>2, <2>1, RequestOtpInv, VerifyInv, AuthenticateInv
    DEF RequestOtpView, RegisterView, PasswordResetView, LoginView
<1>3. ASSUME NEW r \in Requests,
             \/ IssueOtp(r) \/ RecordMiss(r) \/ CreateUser(r) \/ UserAlreadyExists(r)
             \/ SetPassword(r) \/ Consume(r) \/ RevokeAll(r) \/ IssueTokens(r)
             \/ \E left \in Tokens : DieRevoking(r, left)
             \/ Crash(r)
      PROVE  IdentityInv'
  BY <1>3, IssueOtpInv, RecordMissInv, CreateUserInv, OnlyEnds, SetPasswordInv, ConsumeInv,
     RevokeAllInv, IssueTokensInv, DieRevokingInv
<1>4. ASSUME NEW p \in Phones, NEW u \in Purposes, Age(p, u)
      PROVE  IdentityInv'
  BY <1>4, AgeInv
<1>5. ASSUME LogoutView \/ UserAdminView
      PROVE  IdentityInv'
  BY <1>1, <1>5, LogoutInv, AdminCreateUserInv DEF LogoutView, UserAdminView
<1>6. ASSUME UNCHANGED identityVars
      PROVE  IdentityInv'
  BY <1>6, CodesUnchanged, AccountsUnchanged, RequestsStay DEF identityVars
<1> QED
  BY <1>2, <1>3, <1>4, <1>5, <1>6 DEF IdentityNext

\* Accounts, codes, tokens and requests have their types, whatever the number of each.
THEOREM AccountsTyped == IdentitySpec => []IdentityTypeOK
<1>1. IdentityInit => IdentityInv
  BY IdentityInitInv
<1>2. IdentityInv /\ [IdentityNext]_identityVars => IdentityInv'
  BY IdentityStep
<1>3. IdentityInv => IdentityTypeOK
  BY DEF IdentityInv
<1> QED
  BY <1>1, <1>2, <1>3, PTL DEF IdentitySpec

\* The logins that have authenticated with password n and have not issued their tokens.
Late(p, n) ==
    {r \in Requests : /\ requests[r].phase = "authenticated"
                      /\ requests[r].phone = p /\ requests[r].password = n}

\* A session of an earlier password has the place of a login that was late, and the reset
\* that revoked the others was not one.
SessionsCounted(p, n) == tokens[p][n] + Cardinality(Late(p, n)) < Cardinality(Requests)

LateBounded ==
    \A p \in Phones : Exists(p) =>
        \A n \in 1..MaxPassword : n < accounts[p].cleared => SessionsCounted(p, n)

\* Sets of requests have their number.
LEMMA LateNumbers ==
    ASSUME NEW S \in SUBSET Requests
    PROVE  /\ IsFiniteSet(S) /\ Cardinality(S) \in Nat /\ Cardinality(Requests) \in Nat
           /\ Cardinality(S) <= Cardinality(Requests)
           /\ \A T \in SUBSET S : Cardinality(T) \in Nat /\ Cardinality(T) <= Cardinality(S)
           /\ \A r \in S : Cardinality(S \ {r}) = Cardinality(S) - 1
<1>1. IsFiniteSet(Requests) /\ IsFiniteSet(S) /\ \A T \in SUBSET S : IsFiniteSet(T)
  BY IdentityAssumption, FS_Subset
<1> QED
  BY <1>1, FS_Subset, FS_CardinalityType, FS_RemoveElement

\* A place is not given back: no login becomes late for the account, and none of its
\* sessions is opened.
LEMMA SessionsStay ==
    ASSUME IdentityTypeOK, IdentityTypeOK', NEW p \in Phones, NEW n \in 1..MaxPassword,
           SessionsCounted(p, n), tokens'[p][n] <= tokens[p][n], Late(p, n)' \subseteq Late(p, n)
    PROVE  SessionsCounted(p, n)'
<1>1. tokens[p][n] \in Nat /\ tokens'[p][n] \in Nat
  BY Bounds DEF IdentityTypeOK, Tokens
<1>2. Late(p, n) \in SUBSET Requests
  BY DEF Late
<1> QED
  BY <1>1, <1>2, LateNumbers DEF SessionsCounted

\* A request that goes on without having authenticated just now is no late login.
LEMMA NotLate ==
    ASSUME IdentityTypeOK, NEW r \in Requests, NEW q, Goto(r, q), q.phase # "authenticated"
    PROVE  \A p \in Phones, n \in 1..MaxPassword :
               Late(p, n)' \subseteq Late(p, n) /\ r \notin Late(p, n)'
BY DEF IdentityTypeOK, Goto, Late

\* A step that opens no session and clears no account.
LEMMA NoneOpened ==
    ASSUME IdentityInv, IdentityInv', LateBounded,
           \A p \in Phones, n \in 1..MaxPassword :
               tokens'[p][n] <= tokens[p][n] /\ Late(p, n)' \subseteq Late(p, n),
           \A p \in Phones : accounts'[p] # NoUser =>
               \/ Exists(p) /\ accounts'[p].cleared = accounts[p].cleared
               \/ accounts'[p].cleared = 0
    PROVE  LateBounded'
<1> SUFFICES ASSUME NEW p \in Phones, accounts'[p] # NoUser, NEW n \in 1..MaxPassword,
                    n < accounts'[p].cleared
             PROVE  SessionsCounted(p, n)'
  BY DEF LateBounded, Exists
<1>1. Exists(p) /\ accounts'[p].cleared = accounts[p].cleared
  BY Bounds
<1> QED
  BY <1>1, SessionsStay DEF IdentityInv, LateBounded

\* The sessions that are not written stay as they are.
LEMMA SessionsNumbers ==
    ASSUME IdentityInv
    PROVE  \A p \in Phones, n \in 1..MaxPassword :
               tokens[p][n] \in Nat /\ tokens[p][n] <= tokens[p][n]
<1>1. \A p \in Phones, n \in 1..MaxPassword : tokens[p][n] \in Nat
  BY Bounds DEF IdentityInv, IdentityTypeOK, Tokens
<1> QED
  BY <1>1

\* A step of a request that leaves the tokens alone, and of the accounts what they cleared.
LEMMA OthersLate ==
    ASSUME IdentityInv, IdentityInv', LateBounded, NEW r \in Requests, NEW q, Goto(r, q),
           q.phase # "authenticated", UNCHANGED tokens,
           \/ UNCHANGED accounts
           \/ \E p \in Phones : accounts' = [accounts EXCEPT ![p] = NewAccount]
           \/ \E p \in Phones, n \in Nat :
                  Exists(p) /\ accounts' = [accounts EXCEPT ![p].password = n]
    PROVE  LateBounded'
<1>1. \A p \in Phones, n \in 1..MaxPassword :
          tokens'[p][n] <= tokens[p][n] /\ Late(p, n)' \subseteq Late(p, n)
  BY NotLate, SessionsNumbers DEF IdentityInv
<1>2. ASSUME NEW p \in Phones, accounts'[p] # NoUser
      PROVE  \/ Exists(p) /\ accounts'[p].cleared = accounts[p].cleared
             \/ accounts'[p].cleared = 0
  <2>1. CASE UNCHANGED accounts
    BY <1>2, <2>1 DEF Exists
  <2>2. ASSUME NEW x \in Phones, accounts' = [accounts EXCEPT ![x] = NewAccount]
        PROVE  \/ Exists(p) /\ accounts'[p].cleared = accounts[p].cleared
               \/ accounts'[p].cleared = 0
    BY <1>2, <2>2 DEF Exists, NewAccount, IdentityInv, IdentityTypeOK
  <2>3. ASSUME NEW x \in Phones, NEW n \in Nat, Exists(x),
               accounts' = [accounts EXCEPT ![x].password = n]
        PROVE  \/ Exists(p) /\ accounts'[p].cleared = accounts[p].cleared
               \/ accounts'[p].cleared = 0
    <3>1. accounts[x] \in Accounts
      BY <2>3, AccountFields DEF IdentityInv
    <3> QED
      BY <1>2, <2>3, <3>1 DEF Exists, IdentityInv, IdentityTypeOK, Accounts
  <2> QED
    BY <2>1, <2>2, <2>3
<1> QED
  BY <1>1, <1>2, NoneOpened

\* A login is late for the password of its moment, which no reset that ended has cleared.
LEMMA AuthenticateLate ==
    ASSUME IdentityInv, IdentityInv', LateBounded, NEW r \in Requests, NEW x \in Phones,
           Authenticate(r, x)
    PROVE  LateBounded'
<1> SUFFICES ASSUME NEW p \in Phones, accounts'[p] # NoUser, NEW n \in 1..MaxPassword,
                    n < accounts'[p].cleared
             PROVE  SessionsCounted(p, n)'
  BY DEF LateBounded, Exists
<1>1. Exists(p) /\ n < accounts[p].cleared /\ accounts[p].cleared <= accounts[p].password
  BY DEF Authenticate, Exists, IdentityInv, AccountsRight
<1>2. n # accounts[p].password
  BY <1>1, AccountFields, Bounds DEF IdentityInv
<1>3. Late(p, n)' \subseteq Late(p, n)
  BY <1>2 DEF Authenticate, Goto, IdentityInv, IdentityTypeOK, Late
<1>4. tokens'[p][n] <= tokens[p][n]
  BY SessionsNumbers DEF Authenticate
<1> QED
  BY <1>1, <1>3, <1>4, SessionsStay DEF IdentityInv, LateBounded

\* A token takes the place of the login that it was issued for.
LEMMA IssueTokensLate ==
    ASSUME IdentityInv, IdentityInv', LateBounded, NEW r \in Requests, IssueTokens(r)
    PROVE  LateBounded'
<1> DEFINE x == requests[r].phone
           m == requests[r].password
<1>1. /\ requests[r].phase = "authenticated" /\ Goto(r, NoRequest) /\ UNCHANGED accounts
      /\ tokens' = [tokens EXCEPT ![x][m] = tokens[x][m] + 1]
  BY DEF IssueTokens, Finish
<1>2. NoRequest.phase # "authenticated"
  BY DEF NoRequest
<1> SUFFICES ASSUME NEW p \in Phones, Exists(p), NEW n \in 1..MaxPassword,
                    n < accounts[p].cleared
             PROVE  SessionsCounted(p, n)'
  BY <1>1 DEF LateBounded, Exists
<1>3. Late(p, n)' \subseteq Late(p, n) /\ r \notin Late(p, n)' /\ SessionsCounted(p, n)
  BY <1>1, <1>2, NotLate DEF IdentityInv, LateBounded
<1>4. tokens[p] \in Tokens /\ x \in Phones /\ m \in 1..MaxPassword
  BY <1>1, RequestFields DEF IdentityInv, IdentityTypeOK, NoRequest
<1>5. CASE p = x /\ n = m
  <2>1. r \in Late(p, n)
    BY <1>1, <1>5 DEF Late
  <2>2. Late(p, n)' \subseteq Late(p, n) \ {r}
    BY <1>3
  <2>3. /\ Cardinality(Late(p, n) \ {r}) = Cardinality(Late(p, n)) - 1
        /\ Cardinality(Late(p, n)') <= Cardinality(Late(p, n)) - 1
        /\ Cardinality(Late(p, n)) \in Nat /\ Cardinality(Late(p, n)') \in Nat
        /\ Cardinality(Requests) \in Nat
    <3>1. Late(p, n) \in SUBSET Requests /\ Late(p, n) \ {r} \in SUBSET Requests
      BY DEF Late
    <3> QED
      BY <2>1, <2>2, <3>1, LateNumbers
  <2>4. tokens'[p][n] = tokens[p][n] + 1 /\ tokens[p][n] \in Nat
    BY <1>1, <1>4, <1>5, SessionsNumbers DEF IdentityInv, IdentityTypeOK, Tokens
  <2> QED
    BY <1>3, <2>3, <2>4 DEF SessionsCounted
<1>6. CASE ~(p = x /\ n = m)
  <2>1. tokens'[p][n] = tokens[p][n]
    BY <1>1, <1>4, <1>6 DEF IdentityInv, IdentityTypeOK, Tokens
  <2> QED
    BY <1>3, <2>1, SessionsNumbers, SessionsStay DEF IdentityInv
<1> QED
  BY <1>5, <1>6

\* The reset has revoked everything, and is itself in flight and not a login.
LEMMA RevokeAllLate ==
    ASSUME IdentityInv, IdentityInv', LateBounded, NEW r \in Requests, RevokeAll(r)
    PROVE  LateBounded'
<1> DEFINE x == requests[r].phone
           cleared == Later(accounts[x].cleared, requests[r].password)
<1>1. /\ Goto(r, NoRequest) /\ x \in Phones
      /\ tokens' = [tokens EXCEPT ![x] = NoTokens]
      /\ accounts' = [accounts EXCEPT ![x].cleared = cleared]
  <2>1. x \in Phones
    BY RequestFields DEF RevokeAll, IdentityInv, NoRequest
  <2> QED
    BY <2>1 DEF RevokeAll, Finish
<1> HIDE DEF cleared
<1>2. NoRequest.phase # "authenticated"
  BY DEF NoRequest
<1> SUFFICES ASSUME NEW p \in Phones, accounts'[p] # NoUser, NEW n \in 1..MaxPassword,
                    n < accounts'[p].cleared
             PROVE  SessionsCounted(p, n)'
  BY DEF LateBounded, Exists
<1>3. Late(p, n)' \subseteq Late(p, n) /\ r \notin Late(p, n)'
  BY <1>1, <1>2, NotLate DEF IdentityInv
<1>4. CASE p = x
  <2>1. tokens'[p][n] = 0
    BY <1>1, <1>4 DEF IdentityInv, IdentityTypeOK, NoTokens
  <2>2. Late(p, n)' \in SUBSET (Requests \ {r}) /\ Requests \ {r} \in SUBSET Requests
    BY <1>3 DEF Late
  <2>3. /\ Cardinality(Late(p, n)') \in Nat /\ Cardinality(Requests) \in Nat
        /\ Cardinality(Late(p, n)') <= Cardinality(Requests) - 1
    <3>1. Requests \in SUBSET Requests
      OBVIOUS
    <3>2. Cardinality(Requests \ {r}) = Cardinality(Requests) - 1
      BY <3>1, LateNumbers
    <3>3. /\ Cardinality(Late(p, n)') \in Nat
          /\ Cardinality(Late(p, n)') <= Cardinality(Requests \ {r})
      BY <2>2, LateNumbers
    <3> QED
      BY <3>1, <3>2, <3>3, LateNumbers
  <2> QED
    BY <2>1, <2>3 DEF SessionsCounted
<1>5. CASE p # x
  <2>1. Exists(p) /\ accounts'[p] = accounts[p] /\ tokens'[p] = tokens[p]
    BY <1>1, <1>5 DEF Exists, IdentityInv, IdentityTypeOK
  <2> QED
    BY <1>3, <2>1, SessionsNumbers, SessionsStay DEF IdentityInv, LateBounded
<1> QED
  BY <1>4, <1>5

LEMMA LateStep ==
    ASSUME IdentityInv, IdentityInv', LateBounded, [IdentityNext]_identityVars
    PROVE  LateBounded'
<1>1. Dialled \subseteq Phones
  BY DEF Dialled, Spellings
<1>2. ASSUME NEW r \in Requests, NEW q, Goto(r, q), q.phase # "authenticated",
             UNCHANGED <<accounts, tokens>>
      PROVE  LateBounded'
  BY <1>2, OthersLate
<1>3. ASSUME NEW r \in Requests,
             \/ RequestOtpView(r) \/ RegisterView(r) \/ PasswordResetView(r)
             \/ IssueOtp(r) \/ RecordMiss(r) \/ UserAlreadyExists(r) \/ Consume(r) \/ Crash(r)
      PROVE  LateBounded'
  <2>1. NoRequest.phase # "authenticated"
    BY DEF NoRequest
  <2>2. ASSUME NEW p, NEW u, RequestOtp(r, p, u)
        PROVE  LateBounded'
    <3>1. [phase |-> "asked", phone |-> p, purpose |-> u].phase # "authenticated"
      OBVIOUS
    <3> QED
      BY <1>2, <2>2, <3>1 DEF RequestOtp
  <2>3. ASSUME NEW p, NEW u, NEW right, Verify(r, p, u, right)
        PROVE  LateBounded'
    <3> DEFINE q == [phase |-> IF right THEN "verified" ELSE "missed", phone |-> p,
                     purpose |-> u, id |-> Latest(p, u),
                     attempts |-> challenges[p][u][Latest(p, u)].attempts, password |-> 0]
    <3>1. q.phase # "authenticated"
      OBVIOUS
    <3>2. Goto(r, q) /\ UNCHANGED <<accounts, tokens>>
      BY <2>3 DEF Verify
    <3> HIDE DEF q
    <3> QED
      BY <1>2, <3>1, <3>2
  <2>4. CASE Consume(r)
    <3> DEFINE q == IF requests[r].purpose = "registration" THEN NoRequest
                    ELSE [phase |-> "spent", phone |-> requests[r].phone,
                          password |-> requests[r].password]
    <3>1. q.phase # "authenticated"
      BY <2>1
    <3>2. Goto(r, q) /\ UNCHANGED <<accounts, tokens>>
      BY <2>4 DEF Consume
    <3> HIDE DEF q
    <3> QED
      BY <1>2, <3>1, <3>2
  <2>5. CASE IssueOtp(r) \/ RecordMiss(r) \/ UserAlreadyExists(r) \/ Crash(r)
    BY <1>2, <2>1, <2>5 DEF IssueOtp, RecordMiss, UserAlreadyExists, Crash, Finish
  <2> QED
    BY <1>3, <2>2, <2>3, <2>4, <2>5 DEF RequestOtpView, RegisterView, PasswordResetView
<1>4. ASSUME NEW r \in Requests, CreateUser(r) \/ SetPassword(r)
      PROVE  LateBounded'
  <2> DEFINE p == requests[r].phone
  <2>1. p \in Phones
    BY <1>4, RequestFields DEF CreateUser, SetPassword, IdentityInv, NoRequest
  <2>2. CASE CreateUser(r)
    <3>1. [requests[r] EXCEPT !.phase = "changed"].phase # "authenticated"
      BY <2>2, RequestFields DEF CreateUser, IdentityInv
    <3> QED
      BY <2>1, <2>2, <3>1, OthersLate DEF CreateUser
  <2>3. CASE SetPassword(r)
    <3> DEFINE n == accounts[p].password + 1
               q == [requests[r] EXCEPT !.phase = "changed", !.password = n]
    <3>1. /\ Exists(p) /\ Goto(r, q) /\ UNCHANGED tokens
          /\ accounts' = [accounts EXCEPT ![p].password = n]
      BY <2>3 DEF SetPassword
    <3>2. n \in Nat
      BY <2>1, <3>1, AccountFields, Bounds DEF IdentityInv
    <3>3. q.phase # "authenticated"
      BY <2>3, RequestFields DEF SetPassword, IdentityInv
    <3> HIDE DEF n, q, p
    <3> QED
      BY <2>1, <3>1, <3>2, <3>3, OthersLate
  <2> QED
    BY <1>4, <2>2, <2>3
<1>5. ASSUME NEW r \in Requests, LoginView(r) \/ RevokeAll(r) \/ IssueTokens(r)
      PROVE  LateBounded'
  BY <1>1, <1>5, AuthenticateLate, RevokeAllLate, IssueTokensLate DEF LoginView
<1>6. ASSUME NEW r \in Requests, NEW left \in Tokens, DieRevoking(r, left)
      PROVE  LateBounded'
  <2>1. /\ Goto(r, NoRequest) /\ NoRequest.phase # "authenticated" /\ UNCHANGED accounts
        /\ tokens' = [tokens EXCEPT ![requests[r].phone] = left]
        /\ \A n \in 1..MaxPassword : left[n] <= tokens[requests[r].phone][n]
    BY <1>6 DEF DieRevoking, Finish, NoRequest
  <2>2. \A p \in Phones, n \in 1..MaxPassword : tokens'[p][n] <= tokens[p][n]
    BY <2>1, SessionsNumbers DEF IdentityInv, IdentityTypeOK
  <2> QED
    BY <2>1, <2>2, NotLate, NoneOpened DEF IdentityInv, Exists
<1>7. ASSUME NEW p \in Phones, NEW n \in 1..MaxPassword, Logout(p, n)
      PROVE  LateBounded'
  <2>1. UNCHANGED <<accounts, requests>> /\ tokens' = [tokens EXCEPT ![p][n] = tokens[p][n] - 1]
    BY <1>7 DEF Logout
  <2>2. ASSUME NEW x \in Phones, NEW m \in 1..MaxPassword
        PROVE  tokens'[x][m] <= tokens[x][m]
    <3>1. tokens \in [Phones -> [1..MaxPassword -> 0..MaxTokens]] /\ tokens[p][n] \in Nat
      BY SessionsNumbers DEF IdentityInv, IdentityTypeOK, Tokens
    <3>2. tokens'[x][m] = IF x = p /\ m = n THEN tokens[p][n] - 1 ELSE tokens[x][m]
      BY <2>1, <3>1
    <3> QED
      BY <3>1, <3>2, SessionsNumbers
  <2>3. \A x \in Phones, m \in 1..MaxPassword : Late(x, m)' \subseteq Late(x, m)
    BY <2>1 DEF Late
  <2> QED
    BY <2>1, <2>2, <2>3, NoneOpened DEF Exists
<1>8. ASSUME NEW p \in Phones, AdminCreateUser(p)
      PROVE  LateBounded'
  <2>1. UNCHANGED <<tokens, requests>> /\ accounts' = [accounts EXCEPT ![p] = NewAccount]
    BY <1>8 DEF AdminCreateUser
  <2>2. \A x \in Phones, m \in 1..MaxPassword :
            tokens'[x][m] <= tokens[x][m] /\ Late(x, m)' \subseteq Late(x, m)
    BY <2>1, SessionsNumbers DEF Late
  <2> QED
    BY <2>1, <2>2, NoneOpened DEF Exists, NewAccount, IdentityInv, IdentityTypeOK
<1>9. ASSUME (\E p \in Phones, u \in Purposes : Age(p, u)) \/ UNCHANGED identityVars
      PROVE  LateBounded'
  <2>1. UNCHANGED <<accounts, tokens, requests>>
    BY <1>9 DEF Age, identityVars
  <2>2. \A x \in Phones, m \in 1..MaxPassword :
            tokens'[x][m] <= tokens[x][m] /\ Late(x, m)' \subseteq Late(x, m)
    BY <2>1, SessionsNumbers DEF Late
  <2> QED
    BY <2>1, <2>2, NoneOpened DEF Exists
<1> QED
  BY <1>1, <1>3, <1>4, <1>5, <1>6, <1>7, <1>8, <1>9
  DEF IdentityNext, LogoutView, UserAdminView

\* Once a reset has run to its end, the sessions that survive under an earlier password are
\* fewer than the requests in flight, however many there are: each is of a login that
\* authenticated before the reset revoked and issued its tokens after it (LoginView).
THEOREM OldSessionsAreBounded == IdentitySpec => []OldSessionsBounded
<1>1. IdentityInit => IdentityInv /\ LateBounded
  <2>1. IdentityInit => LateBounded
    BY DEF IdentityInit, LateBounded, Exists
  <2> QED
    BY <2>1, IdentityInitInv
<1>2. IdentityInv /\ LateBounded /\ [IdentityNext]_identityVars => (IdentityInv /\ LateBounded)'
  BY IdentityStep, LateStep
<1>3. IdentityInv /\ LateBounded => OldSessionsBounded
  <2> SUFFICES ASSUME IdentityInv, LateBounded, NEW p \in Phones, Exists(p),
                      NEW n \in 1..MaxPassword, n < accounts[p].cleared
               PROVE  tokens[p][n] < Cardinality(Requests)
    BY DEF OldSessionsBounded
  <2>1. SessionsCounted(p, n) /\ tokens[p][n] \in Nat /\ Late(p, n) \in SUBSET Requests
    BY SessionsNumbers DEF LateBounded, Late
  <2> QED
    BY <2>1, LateNumbers DEF SessionsCounted
<1> QED
  BY <1>1, <1>2, <1>3, PTL DEF IdentitySpec

\* A step that changes an account that was there.
CredentialStep ==
    \A p \in Phones : Exists(p) /\ accounts'[p] # accounts[p] =>
        \E r \in Requests :
            /\ requests[r].phase \in {"verified", "spent"} /\ requests[r].phone = p
            /\ requests[r].phase = "verified" => requests[r].purpose = "password_reset"

LEMMA CredentialChange ==
    ASSUME IdentityInv, [IdentityNext]_identityVars
    PROVE  CredentialStep
<1>1. ASSUME NEW r \in Requests, NEW account, requests[r].phase \in {"verified", "spent"},
             requests[r].phase = "verified" => requests[r].purpose = "password_reset",
             accounts' = [accounts EXCEPT ![requests[r].phone] = account]
      PROVE  CredentialStep
  BY <1>1 DEF CredentialStep, IdentityInv, IdentityTypeOK
<1>2. ASSUME NEW p, ~Exists(p), accounts' = [accounts EXCEPT ![p] = NewAccount]
      PROVE  CredentialStep
  BY <1>2 DEF CredentialStep, IdentityInv, IdentityTypeOK
<1>3. ASSUME UNCHANGED accounts
      PROVE  CredentialStep
  BY <1>3 DEF CredentialStep
<1>4. ASSUME NEW r \in Requests, SetPassword(r) \/ RevokeAll(r)
      PROVE  CredentialStep
  BY <1>1, <1>4 DEF SetPassword, RevokeAll
<1>5. ASSUME NEW r \in Requests, CreateUser(r)
      PROVE  CredentialStep
  BY <1>2, <1>5 DEF CreateUser
<1>6. ASSUME UserAdminView
      PROVE  CredentialStep
  BY <1>2, <1>6 DEF UserAdminView, AdminCreateUser
<1>7. ASSUME NEW r \in Requests,
             \/ RequestOtpView(r) \/ RegisterView(r) \/ PasswordResetView(r) \/ LoginView(r)
             \/ IssueOtp(r) \/ RecordMiss(r) \/ UserAlreadyExists(r) \/ Consume(r)
             \/ IssueTokens(r) \/ (\E left \in Tokens : DieRevoking(r, left)) \/ Crash(r)
      PROVE  CredentialStep
  <2>1. UNCHANGED accounts
    BY <1>7 DEF RequestOtpView, RequestOtp, RegisterView, PasswordResetView, Verify, LoginView,
       Authenticate, IssueOtp, RecordMiss, UserAlreadyExists, Consume, IssueTokens, DieRevoking,
       Crash
  <2> QED
    BY <1>3, <2>1
<1>8. ASSUME \/ \E p \in Phones, u \in Purposes : Age(p, u)
             \/ LogoutView \/ UNCHANGED identityVars
      PROVE  CredentialStep
  BY <1>3, <1>8 DEF Age, LogoutView, Logout, identityVars
<1> QED
  BY <1>4, <1>5, <1>6, <1>7, <1>8 DEF IdentityNext

\* The password of an account changes only by a reset that verified a code for its number: a
\* registration that raced another for the number never takes the account over.
THEOREM CredentialsAlwaysKept == IdentitySpec => CredentialsKept
<1>1. IdentityInit => IdentityInv
  BY IdentityInitInv
<1>2. IdentityInv /\ [IdentityNext]_identityVars => IdentityInv' /\ [CredentialStep]_identityVars
  BY IdentityStep, CredentialChange
<1> QED
  BY <1>1, <1>2, PTL DEF IdentitySpec, CredentialsKept, CredentialStep
-----------------------------------------------------------------------------
(* How many wrong answers a code can take. *)

Counts == 0..(MaxAttempts - 1)

\* Outlooks are ordered by the first count at which they differ.
Behind(f, g) == \E j \in Counts : f[j] < g[j] /\ \A i \in 0..(j - 1) : f[i] = g[i]

\* What can still become of g.
Ahead(g) == {f \in Outlooks : Behind(f, g)}

LEMMA CountsNumbers ==
    /\ MaxAttempts \in Nat /\ MaxAttempts > 0 /\ Counts \in SUBSET Nat
    /\ \A j \in Counts : j \in Nat /\ j < MaxAttempts /\ \A i \in 0..(j - 1) : i \in Counts /\ i < j
    /\ IsFiniteSet(Requests) /\ Cardinality(Requests) \in Nat
    /\ IsFiniteSet(Counts)
<1>1. MaxAttempts \in Nat /\ MaxAttempts > 0 /\ IsFiniteSet(Requests)
  BY IdentityAssumption
<1>2. Cardinality(Requests) \in Nat
  BY <1>1, FS_CardinalityType
<1>3. IsFiniteSet(Counts)
  BY <1>1, FS_Interval DEF Counts
<1>4. Counts \in SUBSET Nat /\ \A j \in Counts : j \in Nat /\ j < MaxAttempts
  BY <1>1 DEF Counts
<1>5. \A j \in Counts : \A i \in 0..(j - 1) : i \in Counts /\ i < j
  BY <1>1 DEF Counts
<1> QED
  BY <1>1, <1>2, <1>3, <1>4, <1>5

LEMMA OutlookFields ==
    /\ \A f \in Outlooks : f \in [Counts -> 0..Cardinality(Requests)]
    /\ \A f \in Outlooks : \A j \in Counts : f[j] \in Nat
<1>1. \A f \in Outlooks : f \in [Counts -> 0..Cardinality(Requests)]
  BY DEF Outlooks, Counts
<1>2. ASSUME NEW f \in Outlooks, NEW j \in Counts
      PROVE  f[j] \in Nat
  <2>1. f[j] \in 0..Cardinality(Requests)
    BY <1>1
  <2> QED
    BY <2>1, CountsNumbers
<1> QED
  BY <1>1, <1>2

\* There are finitely many: each is told by the pairs of a count and its number.
LEMMA OutlooksFinite ==
    /\ IsFiniteSet(Outlooks) /\ Cardinality(Outlooks) \in Nat
    /\ \A g : IsFiniteSet(Ahead(g)) /\ Cardinality(Ahead(g)) \in Nat
              /\ Cardinality(Ahead(g)) <= Cardinality(Outlooks)
<1> DEFINE T == SUBSET (Counts \X (0..Cardinality(Requests)))
           pairs == [f \in Outlooks |-> {<<j, f[j]>> : j \in Counts}]
<1>1. IsFiniteSet(T)
  <2>1. IsFiniteSet(0..Cardinality(Requests))
    BY CountsNumbers, FS_Interval
  <2>2. IsFiniteSet(Counts \X (0..Cardinality(Requests)))
    BY <2>1, CountsNumbers, FS_Product, Zenon
  <2> QED
    BY <2>2, FS_SUBSET
<1>2. pairs \in [Outlooks -> T]
  <2>1. ASSUME NEW f \in Outlooks PROVE {<<j, f[j]>> : j \in Counts} \in T
    <3>1. \A j \in Counts : f[j] \in 0..Cardinality(Requests)
      BY OutlookFields
    <3> QED
      BY <3>1
  <2> QED
    BY <2>1
<1>3. ASSUME NEW f \in Outlooks, NEW g \in Outlooks, pairs[f] = pairs[g]
      PROVE  f = g
  <2>1. \A j \in Counts : f[j] = g[j]
    <3>1. ASSUME NEW j \in Counts PROVE f[j] = g[j]
      <4>1. <<j, f[j]>> \in pairs[g]
        BY <1>3
      <4>2. PICK i \in Counts : <<j, f[j]>> = <<i, g[i]>>
        BY <4>1
      <4> QED
        BY <4>2
    <3> QED
      BY <3>1
  <2> QED
    BY <2>1, OutlookFields
<1>4. pairs \in Injection(Outlooks, T)
  <2> HIDE DEF pairs, T
  <2> QED
    BY <1>2, <1>3 DEF Injection, IsInjective
<1>5. IsFiniteSet(Outlooks)
  <2> HIDE DEF pairs, T
  <2> QED
    BY <1>1, <1>4, FS_Injection
<1>6. Cardinality(Outlooks) \in Nat
  BY <1>5, FS_CardinalityType
<1>7. ASSUME NEW g
      PROVE  IsFiniteSet(Ahead(g)) /\ Cardinality(Ahead(g)) \in Nat
             /\ Cardinality(Ahead(g)) <= Cardinality(Outlooks)
  <2>1. Ahead(g) \subseteq Outlooks
    BY DEF Ahead
  <2> QED
    BY <1>5, <2>1, FS_Subset, FS_CardinalityType
<1> QED
  BY <1>5, <1>6, <1>7

\* What comes after g is ahead of everything g was ahead of.
LEMMA BehindTransitive ==
    ASSUME NEW f \in Outlooks, NEW g \in Outlooks, NEW h \in Outlooks, Behind(f, g), Behind(g, h)
    PROVE  Behind(f, h)
<1>1. PICK j \in Counts : f[j] < g[j] /\ \A i \in 0..(j - 1) : f[i] = g[i]
  BY DEF Behind
<1>2. PICK k \in Counts : g[k] < h[k] /\ \A i \in 0..(k - 1) : g[i] = h[i]
  BY DEF Behind
<1>3. /\ j \in Nat /\ k \in Nat
      /\ f[j] \in Nat /\ g[j] \in Nat /\ h[j] \in Nat
      /\ f[k] \in Nat /\ g[k] \in Nat /\ h[k] \in Nat
  BY CountsNumbers, OutlookFields
<1>4. CASE j < k
  <2>1. j \in 0..(k - 1) /\ \A i \in 0..(j - 1) : i \in 0..(k - 1)
    BY <1>3, <1>4
  <2>2. f[j] < h[j] /\ \A i \in 0..(j - 1) : f[i] = h[i]
    BY <1>1, <1>2, <2>1
  <2> QED
    BY <2>2 DEF Behind
<1>5. CASE j = k
  <2>1. f[j] < h[j] /\ \A i \in 0..(j - 1) : f[i] = h[i]
    BY <1>1, <1>2, <1>3, <1>5
  <2> QED
    BY <2>1 DEF Behind
<1>6. CASE k < j
  <2>1. k \in 0..(j - 1) /\ \A i \in 0..(k - 1) : i \in 0..(j - 1)
    BY <1>3, <1>6
  <2>2. f[k] < h[k] /\ \A i \in 0..(k - 1) : f[i] = h[i]
    BY <1>1, <1>2, <2>1
  <2> QED
    BY <2>2 DEF Behind
<1> QED
  BY <1>3, <1>4, <1>5, <1>6

LEMMA NotBehindItself ==
    ASSUME NEW f \in Outlooks
    PROVE  ~Behind(f, f)
BY OutlookFields DEF Behind

\* A step ahead leaves fewer outlooks.
LEMMA StepAhead ==
    ASSUME NEW f \in Outlooks, NEW g \in Outlooks, Behind(f, g)
    PROVE  Cardinality(Ahead(f)) + 1 <= Cardinality(Ahead(g))
<1>1. f \notin Ahead(f) /\ f \in Ahead(g)
  BY NotBehindItself DEF Ahead
<1>2. Ahead(f) \cup {f} \subseteq Ahead(g)
  BY <1>1, BehindTransitive DEF Ahead
<1>3. /\ IsFiniteSet(Ahead(f)) /\ Cardinality(Ahead(f)) \in Nat
      /\ IsFiniteSet(Ahead(g)) /\ Cardinality(Ahead(g)) \in Nat
  BY OutlooksFinite
<1>4. IsFiniteSet(Ahead(f) \cup {f}) /\ Cardinality(Ahead(f) \cup {f}) = Cardinality(Ahead(f)) + 1
  BY <1>1, <1>3, FS_AddElement
<1>5. Cardinality(Ahead(f) \cup {f}) <= Cardinality(Ahead(g))
  BY <1>2, <1>3, FS_Subset
<1> QED
  BY <1>3, <1>4, <1>5

\* An outlook no greater at any count is the same or behind.
LEMMA NoneGreater ==
    ASSUME NEW f \in Outlooks, NEW g \in Outlooks, \A j \in Counts : f[j] <= g[j]
    PROVE  Cardinality(Ahead(f)) <= Cardinality(Ahead(g))
<1>1. CASE f = g
  <2>1. Cardinality(Ahead(g)) \in Nat
    BY OutlooksFinite
  <2> QED
    BY <1>1, <2>1
<1>2. CASE f # g
  <2> DEFINE D == {j \in Counts : f[j] # g[j]}
  <2>1. D \in SUBSET Nat /\ D # {}
    <3>1. f \in [Counts -> 0..Cardinality(Requests)] /\ g \in [Counts -> 0..Cardinality(Requests)]
      BY OutlookFields
    <3>2. D # {}
      BY <1>2, <3>1
    <3>3. Counts \in SUBSET Nat
      BY CountsNumbers
    <3>4. D \in SUBSET Counts
      OBVIOUS
    <3> QED
      BY <3>2, <3>3, <3>4
  <2>2. PICK j \in D : \A i \in D : j <= i
    <3> HIDE DEF D
    <3> QED
      BY <2>1, LeastNatural
  <2>3. f[j] < g[j]
    BY <2>2, OutlookFields
  <2>4. \A i \in 0..(j - 1) : f[i] = g[i]
    <3>1. \A i \in 0..(j - 1) : i \in Counts /\ i < j /\ i \in Nat /\ j \in Nat
      BY CountsNumbers
    <3>2. \A i \in 0..(j - 1) : i \notin D
      BY <2>2, <3>1
    <3> QED
      BY <3>1, <3>2
  <2>5. Behind(f, g)
    BY <2>3, <2>4 DEF Behind
  <2> QED
    BY <2>5, StepAhead, OutlooksFinite
<1> QED
  BY <1>1, <1>2
-----------------------------------------------------------------------------
\* The counts that the requests can save over a row, of which each knows one.
Readings == [Requests -> 0..MaxAttempts]

ReadUpTo(t, j) == {r \in Requests : t[r] <= j}

Outlook(t) == [j \in Counts |-> Cardinality(ReadUpTo(t, j))]

LEMMA ReadUpToFinite ==
    ASSUME NEW t, NEW j
    PROVE  IsFiniteSet(ReadUpTo(t, j)) /\ Cardinality(ReadUpTo(t, j)) \in Nat
           /\ Cardinality(ReadUpTo(t, j)) <= Cardinality(Requests)
<1>1. ReadUpTo(t, j) \subseteq Requests
  BY DEF ReadUpTo
<1> QED
  BY <1>1, CountsNumbers, FS_Subset, FS_CardinalityType

LEMMA OutlookTyped ==
    ASSUME NEW t \in Readings
    PROVE  Outlook(t) \in Outlooks
<1>1. \A j \in Counts : Cardinality(ReadUpTo(t, j)) \in 0..Cardinality(Requests)
  BY ReadUpToFinite, CountsNumbers
<1>2. ASSUME NEW i \in Counts, NEW j \in Counts, i <= j
      PROVE  Cardinality(ReadUpTo(t, i)) <= Cardinality(ReadUpTo(t, j))
  <2>1. i \in Nat /\ j \in Nat /\ \A r \in Requests : t[r] \in Nat
    BY CountsNumbers DEF Readings
  <2>2. ReadUpTo(t, i) \subseteq ReadUpTo(t, j)
    BY <1>2, <2>1 DEF ReadUpTo
  <2> QED
    BY <2>2, ReadUpToFinite, FS_Subset
<1>3. Outlook(t) \in [Counts -> 0..Cardinality(Requests)]
  BY <1>1 DEF Outlook
<1>4. \A j \in Counts : Outlook(t)[j] = Cardinality(ReadUpTo(t, j))
  BY DEF Outlook
<1> QED
  BY <1>2, <1>3, <1>4 DEF Outlooks, Counts

\* Requests that know a later count leave no more outlooks.
LEMMA ReadingsRise ==
    ASSUME NEW t \in Readings, NEW s \in Readings, \A r \in Requests : t[r] <= s[r]
    PROVE  Cardinality(Ahead(Outlook(s))) <= Cardinality(Ahead(Outlook(t)))
<1>1. ASSUME NEW j \in Counts PROVE Outlook(s)[j] <= Outlook(t)[j]
  <2>1. j \in Nat /\ \A r \in Requests : t[r] \in Nat /\ s[r] \in Nat
    BY CountsNumbers DEF Readings
  <2>2. ReadUpTo(s, j) \subseteq ReadUpTo(t, j)
    BY <2>1 DEF ReadUpTo
  <2>3. Cardinality(ReadUpTo(s, j)) <= Cardinality(ReadUpTo(t, j))
    BY <2>2, ReadUpToFinite, FS_Subset
  <2> QED
    BY <2>3 DEF Outlook
<1> QED
  BY <1>1, OutlookTyped, NoneGreater

\* A request that saves a count over its own d, and leaves no other a count of d or less
\* that it did not have, takes the outlook ahead.
LEMMA ReadingsSpent ==
    ASSUME NEW t \in Readings, NEW s \in Readings, NEW d \in Counts, NEW r0 \in Requests,
           t[r0] = d, s[r0] > d,
           \A r \in Requests : s[r] <= d => t[r] <= d,
           \A r \in Requests : \A j \in 0..(d - 1) : s[r] <= j <=> t[r] <= j
    PROVE  Cardinality(Ahead(Outlook(s))) + 1 <= Cardinality(Ahead(Outlook(t)))
<1>1. d \in Nat /\ t[r0] \in Nat /\ s[r0] \in Nat
  BY CountsNumbers DEF Readings
<1>2. Outlook(s)[d] < Outlook(t)[d]
  <2>1. ReadUpTo(s, d) \subseteq ReadUpTo(t, d) \ {r0}
    BY <1>1 DEF ReadUpTo
  <2>2. r0 \in ReadUpTo(t, d)
    BY <1>1 DEF ReadUpTo
  <2>3. /\ IsFiniteSet(ReadUpTo(t, d)) /\ Cardinality(ReadUpTo(t, d)) \in Nat
        /\ Cardinality(ReadUpTo(s, d)) \in Nat
    BY ReadUpToFinite
  <2>4. /\ IsFiniteSet(ReadUpTo(t, d) \ {r0})
        /\ Cardinality(ReadUpTo(t, d) \ {r0}) = Cardinality(ReadUpTo(t, d)) - 1
    BY <2>2, <2>3, FS_RemoveElement
  <2>5. Cardinality(ReadUpTo(s, d)) <= Cardinality(ReadUpTo(t, d) \ {r0})
    BY <2>1, <2>4, FS_Subset
  <2>6. Cardinality(ReadUpTo(s, d)) < Cardinality(ReadUpTo(t, d))
    BY <2>3, <2>4, <2>5
  <2> QED
    BY <2>6 DEF Outlook
<1>3. ASSUME NEW j \in 0..(d - 1) PROVE Outlook(s)[j] = Outlook(t)[j]
  <2>1. j \in Counts
    BY CountsNumbers
  <2>2. ReadUpTo(s, j) = ReadUpTo(t, j)
    BY DEF ReadUpTo
  <2> QED
    BY <2>1, <2>2 DEF Outlook
<1>4. Behind(Outlook(s), Outlook(t))
  BY <1>2, <1>3 DEF Behind
<1> QED
  BY <1>4, OutlookTyped, StepAhead
-----------------------------------------------------------------------------
\* A code that is consumed is closed like one whose budget is used up.
Effective(challenge) == IF challenge.consumed THEN MaxAttempts ELSE challenge.attempts

\* The request has read challenge i and is yet to save it.
Answers(q, p, u, i) ==
    /\ q.phase \in {"missed", "verified", "changed"}
    /\ q.phone = p /\ q.purpose = u /\ q.id = i

\* The count a request has read, or would read now; a row that was rewound has less.
Knows(q, challenge, p, u, i) ==
    IF Answers(q, p, u, i) THEN Smaller(q.attempts, Effective(challenge)) ELSE Effective(challenge)

Known(work, challenge, p, u, i) == [r \in Requests |-> Knows(work[r], challenge, p, u, i)]

RowBounded(work, challenge, p, u, i) ==
    challenge.misses + Cardinality(Ahead(Outlook(Known(work, challenge, p, u, i))))
        < Cardinality(Outlooks)

\* A wrong answer takes the outlook ahead and no other step takes it back, so the wrong
\* answers of a code and the outlooks still ahead of it are together fewer than there are.
BudgetInv ==
    \A p \in Phones, u \in Purposes : \A i \in 1..Latest(p, u) :
        RowBounded(requests, challenges[p][u][i], p, u, i)

LEMMA EffectiveTyped ==
    ASSUME NEW challenge \in Challenges
    PROVE  Effective(challenge) \in 0..MaxAttempts /\ challenge.misses \in Nat
<1>1. MaxAttempts \in Nat
  BY Bounds
<1> QED
  BY <1>1 DEF Effective, Challenges

LEMMA AnswerFields ==
    ASSUME NEW q \in InFlight, NEW p, NEW u, NEW i, Answers(q, p, u, i)
    PROVE  q.attempts \in 0..MaxAttempts /\ q.attempts \in Nat
<1>1. q.attempts \in 0..MaxAttempts
  BY DEF InFlight, Answers, NoRequest
<1> QED
  BY <1>1

\* What a request knows is at most what the row says.
LEMMA KnowsTyped ==
    ASSUME NEW q \in InFlight, NEW challenge \in Challenges, NEW p, NEW u, NEW i
    PROVE  /\ Knows(q, challenge, p, u, i) \in 0..MaxAttempts
           /\ Knows(q, challenge, p, u, i) <= Effective(challenge)
<1>1. Effective(challenge) \in 0..MaxAttempts
  BY EffectiveTyped
<1>2. CASE Answers(q, p, u, i)
  <2>1. q.attempts \in 0..MaxAttempts
    BY <1>2, AnswerFields
  <2> QED
    BY <1>1, <1>2, <2>1 DEF Knows, Smaller
<1>3. CASE ~Answers(q, p, u, i)
  BY <1>1, <1>3 DEF Knows
<1> QED
  BY <1>2, <1>3

LEMMA KnownTyped ==
    ASSUME NEW work \in [Requests -> InFlight], NEW challenge \in Challenges, NEW p, NEW u, NEW i
    PROVE  Known(work, challenge, p, u, i) \in Readings
BY KnowsTyped DEF Known, Readings

\* A step that counts no wrong answer and lets no request know less.
LEMMA RowKept ==
    ASSUME NEW work \in [Requests -> InFlight], NEW later \in [Requests -> InFlight],
           NEW old \in Challenges, NEW new \in Challenges, NEW p, NEW u, NEW i,
           RowBounded(work, old, p, u, i), new.misses = old.misses,
           \A r \in Requests : Knows(work[r], old, p, u, i) <= Knows(later[r], new, p, u, i)
    PROVE  RowBounded(later, new, p, u, i)
<1> DEFINE t == Known(work, old, p, u, i)
           s == Known(later, new, p, u, i)
<1>1. \A r \in Requests : t[r] <= s[r]
  BY DEF Known
<1>2. t \in Readings /\ s \in Readings
  BY KnownTyped
<1> HIDE DEF t, s
<1>3. Cardinality(Ahead(Outlook(s))) <= Cardinality(Ahead(Outlook(t)))
  BY <1>1, <1>2, ReadingsRise
<1>4. /\ Cardinality(Ahead(Outlook(s))) \in Nat /\ Cardinality(Ahead(Outlook(t))) \in Nat
      /\ Cardinality(Outlooks) \in Nat /\ old.misses \in Nat
  BY OutlooksFinite, EffectiveTyped
<1>5. old.misses + Cardinality(Ahead(Outlook(t))) < Cardinality(Outlooks)
  BY DEF RowBounded, t
<1>6. new.misses + Cardinality(Ahead(Outlook(s))) < Cardinality(Outlooks)
  BY <1>3, <1>4, <1>5
<1> QED
  BY <1>6 DEF RowBounded, s

\* A wrong answer is counted by a request that has read n, over whatever the row says.
LEMMA RowMissed ==
    ASSUME NEW work \in [Requests -> InFlight], NEW later \in [Requests -> InFlight],
           NEW old \in Challenges, NEW new \in Challenges, NEW p, NEW u, NEW i,
           RowBounded(work, old, p, u, i), new.misses = old.misses + 1,
           NEW r0 \in Requests, Answers(work[r0], p, u, i), work[r0].attempts < MaxAttempts,
           ~Answers(later[r0], p, u, i), \A r \in Requests : r # r0 => later[r] = work[r],
           Effective(new) = work[r0].attempts + 1
    PROVE  RowBounded(later, new, p, u, i)
<1> DEFINE t == Known(work, old, p, u, i)
           s == Known(later, new, p, u, i)
           n == work[r0].attempts
           e == Effective(old)
           d == Smaller(n, e)
<1>1. t \in Readings /\ s \in Readings
  BY KnownTyped
<1>2. n \in Nat /\ e \in Nat /\ MaxAttempts \in Nat /\ n < MaxAttempts
  BY AnswerFields, EffectiveTyped, Bounds
<1>3. Effective(new) = n + 1
  OBVIOUS
<1>4. t[r0] = d /\ s[r0] = n + 1
  BY DEF Known, Knows
<1>5. ASSUME NEW r \in Requests, r # r0
      PROVE  \/ /\ work[r].attempts \in Nat
                /\ t[r] = Smaller(work[r].attempts, e) /\ s[r] = Smaller(work[r].attempts, n + 1)
             \/ t[r] = e /\ s[r] = n + 1
  <2>1. CASE Answers(work[r], p, u, i)
    BY <1>5, <2>1, AnswerFields DEF Known, Knows
  <2>2. CASE ~Answers(work[r], p, u, i)
    BY <1>5, <2>2 DEF Known, Knows
  <2> QED
    BY <2>1, <2>2
<1> HIDE DEF t, s, n, e
<1>6. d \in Counts /\ d \in Nat /\ d <= n /\ d <= e
  BY <1>2 DEF Counts, Smaller
<1>7. ASSUME NEW r \in Requests
      PROVE  /\ s[r] <= d => t[r] <= d
             /\ \A j \in 0..(d - 1) : s[r] <= j <=> t[r] <= j
  <2>1. CASE r = r0
    <3> HIDE DEF d
    <3> QED
      BY <1>2, <1>4, <1>6, <2>1
  <2>2. CASE r # r0
    <3> HIDE DEF d
    <3>1. CASE t[r] = e /\ s[r] = n + 1
      BY <1>2, <1>6, <3>1
    <3>2. ASSUME NEW a \in Nat, t[r] = Smaller(a, e), s[r] = Smaller(a, n + 1)
          PROVE  /\ s[r] <= d => t[r] <= d
                 /\ \A j \in 0..(d - 1) : s[r] <= j <=> t[r] <= j
      BY <1>2, <1>6, <3>2 DEF Smaller
    <3> QED
      BY <1>5, <2>2, <3>1, <3>2
  <2> QED
    BY <2>1, <2>2
<1>8. Cardinality(Ahead(Outlook(s))) + 1 <= Cardinality(Ahead(Outlook(t)))
  <2>1. s[r0] > d
    BY <1>2, <1>4, <1>6
  <2> HIDE DEF d
  <2> QED
    BY <1>1, <1>4, <1>6, <1>7, <2>1, ReadingsSpent
<1>9. /\ Cardinality(Ahead(Outlook(s))) \in Nat /\ Cardinality(Ahead(Outlook(t))) \in Nat
      /\ Cardinality(Outlooks) \in Nat /\ old.misses \in Nat
  BY OutlooksFinite, EffectiveTyped
<1>10. old.misses + Cardinality(Ahead(Outlook(t))) < Cardinality(Outlooks)
  BY DEF RowBounded, t
<1>11. new.misses + Cardinality(Ahead(Outlook(s))) < Cardinality(Outlooks)
  BY <1>8, <1>9, <1>10
<1> QED
  BY <1>11 DEF RowBounded, s
-----------------------------------------------------------------------------
\* The entries of a table of lists after one of them is written over.
LEMMA EntriesThen ==
    ASSUME NEW A, NEW B, NEW S, NEW f \in [A -> [B -> Seq(S)]], NEW p \in A, NEW u \in B,
           NEW i \in 1..Len(f[p][u]), NEW c \in S, NEW g, g = [f EXCEPT ![p][u][i] = c]
    PROVE  \A x \in A, v \in B : \A j \in 1..Len(f[x][v]) :
               g[x][v][j] = IF x = p /\ v = u /\ j = i THEN c ELSE f[x][v][j]
<1> DEFINE s == [f[p][u] EXCEPT ![i] = c]
<1>1. f[p][u] \in Seq(S)
  OBVIOUS
<1>2. s \in Seq(S) /\ Len(s) = Len(f[p][u])
  BY <1>1
<1>3. \A j \in 1..Len(f[p][u]) : s[j] = IF j = i THEN c ELSE f[p][u][j]
  BY <1>1, LenProperties
<1>4. g = [f EXCEPT ![p][u] = s]
  OBVIOUS
<1> HIDE DEF s
<1>5. /\ g[p][u] = s
      /\ \A x \in A, v \in B : ~(x = p /\ v = u) => g[x][v] = f[x][v]
  BY <1>2, <1>4, CellWritten
<1> QED
  BY <1>3, <1>5

\* The codes that are there, before a step and after it.
LEMMA RowsThere ==
    ASSUME IdentityInv, IdentityInv'
    PROVE  /\ requests \in [Requests -> InFlight] /\ requests' \in [Requests -> InFlight]
           /\ \A p \in Phones, u \in Purposes :
                  /\ Latest(p, u) \in Nat /\ Latest(p, u)' \in Nat
                  /\ \A i \in 1..Latest(p, u) : challenges[p][u][i] \in Challenges
                  /\ \A i \in 1..Latest(p, u)' : challenges'[p][u][i] \in Challenges
<1>1. /\ requests \in [Requests -> InFlight] /\ requests' \in [Requests -> InFlight]
      /\ challenges \in [Phones -> [Purposes -> Seq(Challenges)]]
      /\ challenges' \in [Phones -> [Purposes -> Seq(Challenges)]]
  BY DEF IdentityInv, IdentityTypeOK
<1>2. ASSUME NEW p \in Phones, NEW u \in Purposes
      PROVE  /\ Latest(p, u) \in Nat /\ Latest(p, u)' \in Nat
             /\ \A i \in 1..Latest(p, u) : challenges[p][u][i] \in Challenges
             /\ \A i \in 1..Latest(p, u)' : challenges'[p][u][i] \in Challenges
  <2>1. challenges[p][u] \in Seq(Challenges) /\ challenges'[p][u] \in Seq(Challenges)
    BY <1>1
  <2> QED
    BY <2>1, LenProperties, ElementOfSeq DEF Latest
<1> QED
  BY <1>1, <1>2

\* One request goes on over the same codes and knows no less of any of them.
LEMMA OneGoesOn ==
    ASSUME IdentityInv, IdentityInv', BudgetInv, UNCHANGED challenges, NEW r \in Requests, NEW q,
           Goto(r, q),
           \A p \in Phones, u \in Purposes : \A i \in 1..Latest(p, u) :
               Knows(requests[r], challenges[p][u][i], p, u, i)
                   <= Knows(q, challenges[p][u][i], p, u, i)
    PROVE  BudgetInv'
<1> SUFFICES ASSUME NEW p \in Phones, NEW u \in Purposes, NEW i \in 1..Latest(p, u)'
             PROVE  RowBounded(requests', challenges'[p][u][i], p, u, i)
  BY DEF BudgetInv
<1>1. i \in 1..Latest(p, u) /\ challenges'[p][u][i] = challenges[p][u][i]
  BY DEF Latest
<1>2. /\ requests \in [Requests -> InFlight] /\ requests' \in [Requests -> InFlight]
      /\ challenges[p][u][i] \in Challenges
  BY <1>1, RowsThere
<1>3. requests'[r] = q /\ \A x \in Requests : x # r => requests'[x] = requests[x]
  BY <1>2 DEF Goto
<1>4. ASSUME NEW x \in Requests
      PROVE  Knows(requests[x], challenges[p][u][i], p, u, i)
                 <= Knows(requests'[x], challenges[p][u][i], p, u, i)
  <2>1. Knows(requests[x], challenges[p][u][i], p, u, i) \in 0..MaxAttempts
    BY <1>2, KnowsTyped
  <2> QED
    BY <1>1, <1>3, <2>1
<1>5. RowBounded(requests, challenges[p][u][i], p, u, i)
  BY <1>1 DEF BudgetInv
<1> QED
  BY <1>1, <1>2, <1>4, <1>5, RowKept

\* A request that holds no code would read the latest count.
LEMMA HoldsNone ==
    ASSUME IdentityInv, IdentityInv', BudgetInv, UNCHANGED challenges, NEW r \in Requests, NEW q,
           Goto(r, q), q.phase \notin {"missed", "verified", "changed"}
    PROVE  BudgetInv'
<1>1. ASSUME NEW p \in Phones, NEW u \in Purposes, NEW i \in 1..Latest(p, u)
      PROVE  Knows(requests[r], challenges[p][u][i], p, u, i)
                 <= Knows(q, challenges[p][u][i], p, u, i)
  <2>1. requests[r] \in InFlight /\ challenges[p][u][i] \in Challenges
    BY <1>1, RowsThere
  <2>2. Knows(q, challenges[p][u][i], p, u, i) = Effective(challenges[p][u][i])
    BY DEF Knows, Answers
  <2> QED
    BY <2>1, <2>2, KnowsTyped
<1> QED
  BY <1>1, OneGoesOn

\* A request that goes on with the code it holds knows what it knew.
LEMMA HoldsOn ==
    ASSUME IdentityInv, IdentityInv', BudgetInv, UNCHANGED challenges, NEW r \in Requests, NEW q,
           Goto(r, q), requests[r].phase \in {"missed", "verified", "changed"},
           q.phase \in {"missed", "verified", "changed"}, q.phone = requests[r].phone,
           q.purpose = requests[r].purpose, q.id = requests[r].id,
           q.attempts = requests[r].attempts
    PROVE  BudgetInv'
<1>1. ASSUME NEW p \in Phones, NEW u \in Purposes, NEW i \in 1..Latest(p, u)
      PROVE  Knows(requests[r], challenges[p][u][i], p, u, i)
                 <= Knows(q, challenges[p][u][i], p, u, i)
  <2>1. requests[r] \in InFlight /\ challenges[p][u][i] \in Challenges
    BY <1>1, RowsThere
  <2>2. Knows(q, challenges[p][u][i], p, u, i) = Knows(requests[r], challenges[p][u][i], p, u, i)
    BY DEF Knows, Answers
  <2> QED
    BY <2>1, <2>2, KnowsTyped
<1> QED
  BY <1>1, OneGoesOn

LEMMA VerifyBudget ==
    ASSUME IdentityInv, IdentityInv', BudgetInv, NEW r \in Requests, NEW p \in Phones,
           NEW u \in Purposes, NEW right, Verify(r, p, u, right)
    PROVE  BudgetInv'
<1> DEFINE last == challenges[p][u][Latest(p, u)]
           phase == IF right THEN "verified" ELSE "missed"
           q == [phase |-> phase, phone |-> p, purpose |-> u,
                 id |-> Latest(p, u), attempts |-> last.attempts, password |-> 0]
<1>1. /\ requests[r] = NoRequest /\ Latest(p, u) > 0 /\ Acceptable(last) /\ Goto(r, q)
      /\ UNCHANGED challenges
  BY DEF Verify
<1>2. q.phone = p /\ q.purpose = u /\ q.id = Latest(p, u) /\ q.attempts = last.attempts
  OBVIOUS
<1> HIDE DEF q, last
<1>3. ASSUME NEW x \in Phones, NEW v \in Purposes, NEW i \in 1..Latest(x, v)
      PROVE  Knows(requests[r], challenges[x][v][i], x, v, i)
                 <= Knows(q, challenges[x][v][i], x, v, i)
  <2>1. requests[r] \in InFlight /\ challenges[x][v][i] \in Challenges
    BY <1>3, RowsThere
  <2>2. /\ Effective(challenges[x][v][i]) \in 0..MaxAttempts
        /\ Knows(requests[r], challenges[x][v][i], x, v, i) \in 0..MaxAttempts
        /\ Knows(requests[r], challenges[x][v][i], x, v, i) <= Effective(challenges[x][v][i])
    BY <2>1, EffectiveTyped, KnowsTyped
  <2>3. Knows(q, challenges[x][v][i], x, v, i) = Effective(challenges[x][v][i])
    <3>1. CASE Answers(q, x, v, i)
      <4>1. challenges[x][v][i] = last
        BY <1>2, <3>1 DEF Answers, last
      <4>2. Effective(last) = last.attempts
        BY <1>1 DEF Effective, Acceptable
      <4>3. last.attempts \in Nat
        BY <2>2, <4>1, <4>2
      <4> QED
        BY <1>2, <3>1, <4>1, <4>2, <4>3 DEF Knows, Smaller
    <3>2. CASE ~Answers(q, x, v, i)
      BY <3>2 DEF Knows
    <3> QED
      BY <3>1, <3>2
  <2> QED
    BY <2>2, <2>3
<1> QED
  BY <1>1, <1>3, OneGoesOn

\* A row is saved, or ages: what is said of the codes then.
LEMMA OneRow ==
    ASSUME IdentityInv, IdentityInv', BudgetInv, NEW p \in Phones, NEW u \in Purposes,
           NEW i \in 1..Latest(p, u), NEW new \in Challenges,
           challenges' = [challenges EXCEPT ![p][u][i] = new],
           RowBounded(requests', new, p, u, i),
           \A x \in Phones, v \in Purposes : \A j \in 1..Latest(x, v) :
               ~(x = p /\ v = u /\ j = i) => RowBounded(requests', challenges[x][v][j], x, v, j)
    PROVE  BudgetInv'
<1>1. challenges \in [Phones -> [Purposes -> Seq(Challenges)]] /\ i \in 1..Len(challenges[p][u])
  BY DEF IdentityInv, IdentityTypeOK, Latest
<1>2. \A x \in Phones, v \in Purposes : Len(challenges'[x][v]) = Len(challenges[x][v])
  BY <1>1, EntryWritten
<1>3. \A x \in Phones, v \in Purposes : \A j \in 1..Len(challenges[x][v]) :
          challenges'[x][v][j] = IF x = p /\ v = u /\ j = i THEN new ELSE challenges[x][v][j]
  BY <1>1, EntriesThen
<1> QED
  BY <1>2, <1>3 DEF BudgetInv, Latest

LEMMA AgeBudget ==
    ASSUME IdentityInv, IdentityInv', BudgetInv, NEW p \in Phones, NEW u \in Purposes, Age(p, u)
    PROVE  BudgetInv'
<1> DEFINE i == Latest(p, u)
           old == challenges[p][u][i]
           new == [old EXCEPT !.age = IF @ = "cooling" THEN "live" ELSE "expired"]
<1>1. i \in 1..Latest(p, u)
  BY RowsThere DEF Age
<1>2. challenges' = [challenges EXCEPT ![p][u][i] = new] /\ UNCHANGED requests
  BY DEF Age, IdentityInv, IdentityTypeOK
<1>3. old \in Challenges /\ requests \in [Requests -> InFlight]
  BY <1>1, RowsThere
<1> HIDE DEF old
<1>4. /\ new \in Challenges /\ new.misses = old.misses
      /\ new.consumed = old.consumed /\ new.attempts = old.attempts
  BY <1>3 DEF Challenges, Ages
<1> HIDE DEF new, i
<1>5. ASSUME NEW r \in Requests
      PROVE  Knows(requests[r], old, p, u, i) <= Knows(requests[r], new, p, u, i)
  <2>1. Knows(requests[r], old, p, u, i) = Knows(requests[r], new, p, u, i)
    BY <1>4 DEF Knows, Effective
  <2>2. Knows(requests[r], old, p, u, i) \in 0..MaxAttempts
    BY <1>3, KnowsTyped
  <2> QED
    BY <2>1, <2>2
<1>6. RowBounded(requests, old, p, u, i)
  BY <1>1 DEF BudgetInv, old
<1>7. RowBounded(requests, new, p, u, i)
  BY <1>3, <1>4, <1>5, <1>6, RowKept
<1>8. \A x \in Phones, v \in Purposes : \A j \in 1..Latest(x, v) :
          RowBounded(requests', challenges[x][v][j], x, v, j)
  BY <1>2 DEF BudgetInv
<1> QED
  BY <1>1, <1>2, <1>4, <1>7, <1>8, OneRow
\* The rows that a request does not save, when it lets go of what it held.
LEMMA OtherRow ==
    ASSUME IdentityInv, IdentityInv', BudgetInv, NEW r \in Requests, NEW q, Goto(r, q),
           q.phase \notin {"missed", "verified", "changed"},
           NEW p \in Phones, NEW u \in Purposes, NEW i \in 1..Latest(p, u)
    PROVE  RowBounded(requests', challenges[p][u][i], p, u, i)
<1> DEFINE row == challenges[p][u][i]
<1>1. /\ requests \in [Requests -> InFlight] /\ requests' \in [Requests -> InFlight]
      /\ row \in Challenges
  BY RowsThere
<1>2. requests'[r] = q /\ \A x \in Requests : x # r => requests'[x] = requests[x]
  BY <1>1 DEF Goto
<1>3. RowBounded(requests, row, p, u, i)
  BY DEF BudgetInv
<1> HIDE DEF row
<1>4. ASSUME NEW x \in Requests
      PROVE  Knows(requests[x], row, p, u, i) <= Knows(requests'[x], row, p, u, i)
  <2>1. /\ Knows(requests[x], row, p, u, i) \in 0..MaxAttempts
        /\ Knows(requests[x], row, p, u, i) <= Effective(row)
    BY <1>1, KnowsTyped
  <2>2. x = r => Knows(requests'[x], row, p, u, i) = Effective(row)
    BY <1>2 DEF Knows, Answers
  <2> QED
    BY <1>2, <2>1, <2>2
<1>5. RowBounded(requests', row, p, u, i)
  BY <1>1, <1>3, <1>4, RowKept
<1> QED
  BY <1>5 DEF row

\* A new code has every outlook ahead of it but its own.
LEMMA NewRow ==
    ASSUME NEW work \in [Requests -> InFlight], NEW p, NEW u, NEW i
    PROVE  RowBounded(work, NewChallenge, p, u, i)
<1> DEFINE g == Outlook(Known(work, NewChallenge, p, u, i))
<1>1. NewChallenge \in Challenges /\ NewChallenge.misses = 0
  BY Bounds DEF NewChallenge, Challenges, Ages
<1>2. g \in Outlooks
  BY <1>1, KnownTyped, OutlookTyped
<1> HIDE DEF g
<1>3. Ahead(g) \cup {g} \subseteq Outlooks /\ g \notin Ahead(g)
  BY <1>2, NotBehindItself DEF Ahead
<1>4. /\ IsFiniteSet(Outlooks) /\ Cardinality(Outlooks) \in Nat
      /\ IsFiniteSet(Ahead(g)) /\ Cardinality(Ahead(g)) \in Nat
  BY OutlooksFinite
<1>5. Cardinality(Ahead(g) \cup {g}) = Cardinality(Ahead(g)) + 1
  BY <1>3, <1>4, FS_AddElement
<1>6. Cardinality(Ahead(g) \cup {g}) <= Cardinality(Outlooks)
  BY <1>3, <1>4, FS_Subset
<1> QED
  BY <1>1, <1>4, <1>5, <1>6 DEF RowBounded, g

LEMMA IssueBudget ==
    ASSUME IdentityInv, IdentityInv', BudgetInv, NEW r \in Requests, IssueOtp(r)
    PROVE  BudgetInv'
<1> DEFINE p == requests[r].phone
           u == requests[r].purpose
<1>1. /\ challenges' = [challenges EXCEPT ![p][u] = Append(@, NewChallenge)] /\ Goto(r, NoRequest)
      /\ p \in Phones /\ u \in Purposes
  <2>1. requests[r].phase = "asked" /\ requests[r] # NoRequest
    BY DEF IssueOtp, NoRequest
  <2> QED
    BY <2>1, RequestFields DEF IssueOtp, Finish, IdentityInv
<1> HIDE DEF p, u
<1>2. challenges \in [Phones -> [Purposes -> Seq(Challenges)]]
  BY DEF IdentityInv, IdentityTypeOK
<1> DEFINE s == Append(challenges[p][u], NewChallenge)
<1>3. challenges[p][u] \in Seq(Challenges) /\ NewChallenge \in Challenges
  <2>1. challenges[p][u] \in Seq(Challenges)
    BY <1>1, <1>2
  <2>2. NewChallenge \in Challenges
    BY Bounds DEF NewChallenge, Challenges, Ages
  <2> QED
    BY <2>1, <2>2
<1>4. /\ s \in Seq(Challenges) /\ Len(s) = Len(challenges[p][u]) + 1
      /\ \A i \in 1..Len(challenges[p][u]) : s[i] = challenges[p][u][i]
      /\ s[Len(challenges[p][u]) + 1] = NewChallenge
  BY <1>3, AppendProperties
<1>5. challenges' = [challenges EXCEPT ![p][u] = s]
  BY <1>1
<1> HIDE DEF s
<1>6. /\ challenges'[p][u] = s
      /\ \A x \in Phones, v \in Purposes : ~(x = p /\ v = u) => challenges'[x][v] = challenges[x][v]
  BY <1>1, <1>2, <1>4, <1>5, CellWritten
<1>7. \A x \in Phones, v \in Purposes : \A i \in 1..Latest(x, v) :
          RowBounded(requests', challenges[x][v][i], x, v, i)
  BY <1>1, OtherRow DEF NoRequest
<1>8. requests' \in [Requests -> InFlight] /\ Latest(p, u) \in Nat
  BY <1>1, RowsThere
<1> SUFFICES ASSUME NEW x \in Phones, NEW v \in Purposes, NEW i \in 1..Latest(x, v)'
             PROVE  RowBounded(requests', challenges'[x][v][i], x, v, i)
  BY DEF BudgetInv
<1>9. CASE x = p /\ v = u
  <2>1. i \in 1..Latest(p, u) \/ i = Latest(p, u) + 1
    BY <1>4, <1>6, <1>8, <1>9 DEF Latest
  <2>2. CASE i \in 1..Latest(p, u)
    BY <1>4, <1>6, <1>7, <1>9, <2>2 DEF Latest
  <2>3. CASE i = Latest(p, u) + 1
    BY <1>4, <1>6, <1>8, <1>9, <2>3, NewRow DEF Latest
  <2> QED
    BY <2>1, <2>2, <2>3
<1>10. CASE ~(x = p /\ v = u)
  BY <1>6, <1>7, <1>10 DEF Latest
<1> QED
  BY <1>9, <1>10

\* What a request saves over the row it has read.
LEMMA SavedRow ==
    ASSUME IdentityInv, NEW r \in Requests, requests[r].phase \in {"missed", "verified", "changed"},
           NEW attempts \in 0..MaxAttempts, NEW consumed \in BOOLEAN, NEW missed \in {0, 1},
           SaveChallenge(requests[r], attempts, consumed, missed)
    PROVE  LET q == requests[r]
               old == challenges[q.phone][q.purpose][q.id]
               new == [old EXCEPT !.attempts = attempts, !.consumed = consumed,
                                  !.misses = old.misses + missed]
           IN  /\ q.phone \in Phones /\ q.purpose \in Purposes
               /\ q.id \in 1..Latest(q.phone, q.purpose)
               /\ old \in Challenges /\ new \in Challenges
               /\ new.misses = old.misses + missed
               /\ Effective(new) = IF consumed THEN MaxAttempts ELSE attempts
               /\ challenges' = [challenges EXCEPT ![q.phone][q.purpose][q.id] = new]
<1> DEFINE q == requests[r]
           old == challenges[q.phone][q.purpose][q.id]
           misses == old.misses + missed
           new == [old EXCEPT !.attempts = attempts, !.consumed = consumed, !.misses = misses]
<1>1. q.phone \in Phones /\ q.purpose \in Purposes /\ q.id \in 1..MaxChallenges
  BY RequestFields DEF IdentityInv, NoRequest
<1>2. q.id <= Latest(q.phone, q.purpose)
  BY DEF IdentityInv, RequestRight
<1>3. Latest(q.phone, q.purpose) \in Nat /\ challenges[q.phone][q.purpose] \in Seq(Challenges)
  BY <1>1, AccountFields DEF IdentityInv
<1>4. q.id \in 1..Latest(q.phone, q.purpose)
  BY <1>1, <1>2, <1>3, Bounds
<1>5. old \in Challenges
  BY <1>3, <1>4 DEF Latest
<1>6. challenges' = [challenges EXCEPT ![q.phone][q.purpose][q.id] = new]
  BY DEF SaveChallenge
<1>7. misses \in Nat
  BY <1>5 DEF Challenges
<1> HIDE DEF misses, old
<1>8. /\ new \in Challenges /\ new.misses = misses /\ new.attempts = attempts
      /\ new.consumed = consumed
  BY <1>5, <1>7 DEF Challenges
<1> HIDE DEF new
<1>9. Effective(new) = IF consumed THEN MaxAttempts ELSE attempts
  BY <1>8 DEF Effective
<1> HIDE DEF q
<1> QED
  BY <1>1, <1>4, <1>5, <1>6, <1>8, <1>9 DEF misses, new, old, q
\* A wrong answer is counted over what was read.
LEMMA MissBudget ==
    ASSUME IdentityInv, IdentityInv', BudgetInv, NEW r \in Requests, RecordMiss(r)
    PROVE  BudgetInv'
<1> DEFINE q == requests[r]
           old == challenges[q.phone][q.purpose][q.id]
           new == [old EXCEPT !.attempts = q.attempts + 1, !.consumed = FALSE,
                              !.misses = old.misses + 1]
<1>1. q.phase = "missed" /\ SaveChallenge(q, q.attempts + 1, FALSE, 1) /\ Goto(r, NoRequest)
  BY DEF RecordMiss, Finish
<1>2. q.attempts < MaxAttempts /\ q.attempts \in Nat /\ q.attempts + 1 \in 0..MaxAttempts
  <2>1. q.attempts < MaxAttempts /\ q.attempts \in 0..MaxAttempts
    BY <1>1, RequestFields DEF IdentityInv, RequestRight
  <2> QED
    BY <2>1, Bounds
<1>3. /\ q.phone \in Phones /\ q.purpose \in Purposes
               /\ q.id \in 1..Latest(q.phone, q.purpose)
      /\ old \in Challenges /\ new \in Challenges /\ new.misses = old.misses + 1
      /\ Effective(new) = q.attempts + 1
      /\ challenges' = [challenges EXCEPT ![q.phone][q.purpose][q.id] = new]
  BY <1>1, <1>2, SavedRow
<1>4. requests \in [Requests -> InFlight] /\ requests' \in [Requests -> InFlight]
  BY RowsThere
<1>5. requests'[r] = NoRequest /\ \A x \in Requests : x # r => requests'[x] = requests[x]
  BY <1>1, <1>4 DEF Goto
<1>6. RowBounded(requests, old, q.phone, q.purpose, q.id)
  BY <1>3 DEF BudgetInv
<1>7. Answers(q, q.phone, q.purpose, q.id) /\ ~Answers(requests'[r], q.phone, q.purpose, q.id)
  BY <1>1, <1>5 DEF Answers, NoRequest
<1> HIDE DEF new, old
<1>8. RowBounded(requests', new, q.phone, q.purpose, q.id)
  BY <1>2, <1>3, <1>4, <1>5, <1>6, <1>7, RowMissed
<1>9. \A x \in Phones, v \in Purposes : \A j \in 1..Latest(x, v) :
          RowBounded(requests', challenges[x][v][j], x, v, j)
  BY <1>1, OtherRow DEF NoRequest
<1> HIDE DEF q
<1> QED
  BY <1>3, <1>8, <1>9, OneRow

\* A code that is consumed is closed: whoever still holds it knows what it knew.
LEMMA ConsumeBudget ==
    ASSUME IdentityInv, IdentityInv', BudgetInv, NEW r \in Requests, Consume(r)
    PROVE  BudgetInv'
<1> DEFINE q == requests[r]
           old == challenges[q.phone][q.purpose][q.id]
           new == [old EXCEPT !.attempts = q.attempts, !.consumed = TRUE, !.misses = old.misses + 0]
           next == IF q.purpose = "registration" THEN NoRequest
                   ELSE [phase |-> "spent", phone |-> q.phone, password |-> q.password]
<1>1. q.phase = "changed" /\ SaveChallenge(q, q.attempts, TRUE, 0) /\ Goto(r, next)
  BY DEF Consume
<1>2. next.phase \notin {"missed", "verified", "changed"}
  BY DEF NoRequest
<1>3. q.attempts \in 0..MaxAttempts
  BY <1>1, RequestFields DEF IdentityInv
<1>4. /\ q.phone \in Phones /\ q.purpose \in Purposes
               /\ q.id \in 1..Latest(q.phone, q.purpose)
      /\ old \in Challenges /\ new \in Challenges /\ new.misses = old.misses + 0
      /\ Effective(new) = MaxAttempts
      /\ challenges' = [challenges EXCEPT ![q.phone][q.purpose][q.id] = new]
  BY <1>1, <1>3, SavedRow
<1>5. requests \in [Requests -> InFlight] /\ requests' \in [Requests -> InFlight]
  BY RowsThere
<1>6. RowBounded(requests, old, q.phone, q.purpose, q.id)
  BY <1>4 DEF BudgetInv
<1> HIDE DEF next
<1>7. requests'[r] = next /\ \A x \in Requests : x # r => requests'[x] = requests[x]
  BY <1>1, <1>5 DEF Goto
<1>8. \A x \in Phones, v \in Purposes : \A j \in 1..Latest(x, v) :
          RowBounded(requests', challenges[x][v][j], x, v, j)
  BY <1>1, <1>2, OtherRow
<1> HIDE DEF q, old, new
<1>9. ASSUME NEW x \in Requests
      PROVE  Knows(requests[x], old, q.phone, q.purpose, q.id)
                 <= Knows(requests'[x], new, q.phone, q.purpose, q.id)
  <2>1. /\ Knows(requests[x], old, q.phone, q.purpose, q.id) \in 0..MaxAttempts
        /\ MaxAttempts \in Nat
    BY <1>4, <1>5, KnowsTyped, Bounds
  <2>2. CASE ~Answers(requests'[x], q.phone, q.purpose, q.id)
    BY <1>4, <2>1, <2>2 DEF Knows
  <2>3. CASE Answers(requests'[x], q.phone, q.purpose, q.id)
    <3>1. x # r
      BY <1>2, <1>7, <2>3 DEF Answers
    <3>2. requests'[x] = requests[x]
      BY <1>7, <3>1
    <3>3. requests[x].attempts \in 0..MaxAttempts /\ Effective(old) \in 0..MaxAttempts
      BY <1>4, <1>5, <2>3, <3>2, AnswerFields, EffectiveTyped
    <3> QED
      BY <1>4, <2>1, <2>3, <3>2, <3>3 DEF Knows, Smaller
  <2> QED
    BY <2>2, <2>3
<1>10. new.misses = old.misses
  BY <1>4, EffectiveTyped
<1>11. RowBounded(requests', new, q.phone, q.purpose, q.id)
  BY <1>4, <1>5, <1>6, <1>9, <1>10, RowKept
<1> QED
  BY <1>4, <1>8, <1>11, OneRow

LEMMA BudgetStep ==
    ASSUME IdentityInv, IdentityInv', BudgetInv, [IdentityNext]_identityVars
    PROVE  BudgetInv'
<1>1. Dialled \subseteq Phones /\ {"registration", "password_reset"} \subseteq Purposes
  BY DEF Dialled, Spellings, Purposes
<1>2. ASSUME NEW r \in Requests, NEW p \in Phones, NEW u \in Purposes, RequestOtp(r, p, u)
      PROVE  BudgetInv'
  BY <1>2, HoldsNone DEF RequestOtp
<1>3. ASSUME NEW r \in Requests, NEW p \in Phones, Authenticate(r, p)
      PROVE  BudgetInv'
  BY <1>3, HoldsNone DEF Authenticate
<1>4. ASSUME NEW r \in Requests,
             RequestOtpView(r) \/ RegisterView(r) \/ PasswordResetView(r) \/ LoginView(r)
      PROVE  BudgetInv'
  BY <1>1, <1>2, <1>3, <1>4, VerifyBudget
  DEF RequestOtpView, RegisterView, PasswordResetView, LoginView
<1>5. ASSUME NEW r \in Requests,
             \/ UserAlreadyExists(r) \/ RevokeAll(r) \/ IssueTokens(r) \/ Crash(r)
             \/ \E left \in Tokens : DieRevoking(r, left)
      PROVE  BudgetInv'
  <2>1. Goto(r, NoRequest) /\ UNCHANGED challenges
    BY <1>5 DEF UserAlreadyExists, RevokeAll, IssueTokens, Crash, DieRevoking, Finish
  <2>2. NoRequest.phase \notin {"missed", "verified", "changed"}
    BY DEF NoRequest
  <2> QED
    BY <2>1, <2>2, HoldsNone
<1>6. ASSUME NEW r \in Requests, CreateUser(r) \/ SetPassword(r)
      PROVE  BudgetInv'
  <2> DEFINE q == requests[r]
             password == accounts[q.phone].password + 1
  <2>1. q.phase = "verified" /\ UNCHANGED challenges
    BY <1>6 DEF CreateUser, SetPassword
  <2>2. q \in [phase : {"missed", "verified", "changed"}, phone : Phones, purpose : Purposes,
               id : 1..MaxChallenges, attempts : 0..MaxAttempts, password : 0..MaxPassword]
    BY <2>1, RequestFields DEF IdentityInv
  <2>3. \/ Goto(r, [q EXCEPT !.phase = "changed"])
        \/ Goto(r, [q EXCEPT !.phase = "changed", !.password = password])
    BY <1>6 DEF CreateUser, SetPassword
  <2>4. ASSUME NEW n, Goto(r, [q EXCEPT !.phase = "changed", !.password = n])
        PROVE  BudgetInv'
    <3> DEFINE next == [q EXCEPT !.phase = "changed", !.password = n]
    <3>1. /\ next.phase = "changed" /\ next.phone = q.phone /\ next.purpose = q.purpose
          /\ next.id = q.id /\ next.attempts = q.attempts
      BY <2>2
    <3> HIDE DEF next
    <3>2. Goto(r, next)
      BY <2>4 DEF next
    <3> QED
      BY <2>1, <3>1, <3>2, HoldsOn
  <2>5. [q EXCEPT !.phase = "changed"] = [q EXCEPT !.phase = "changed", !.password = q.password]
    BY <2>2
  <2> QED
    BY <2>3, <2>4, <2>5
<1>7. ASSUME LogoutView \/ UserAdminView \/ UNCHANGED identityVars
      PROVE  BudgetInv'
  <2>1. UNCHANGED <<challenges, requests>>
    BY <1>7 DEF LogoutView, UserAdminView, Logout, AdminCreateUser, identityVars
  <2> QED
    BY <2>1 DEF BudgetInv, Latest
<1> QED
  BY <1>4, <1>5, <1>6, <1>7, IssueBudget, MissBudget, ConsumeBudget, AgeBudget DEF IdentityNext

\* However requests race over a code, read it without a lock and write it back whole, rewind
\* its count or even its consumption, and whichever of them die: the wrong answers that a
\* code takes are fewer than the outlooks of its requests.
THEOREM MissesAreBounded == IdentitySpec => []MissesBounded
<1>1. IdentityInit => IdentityInv /\ BudgetInv
  <2>1. IdentityInit => IdentityInv
    BY IdentityInitInv
  <2>2. IdentityInit => BudgetInv
    BY DEF IdentityInit, BudgetInv, Latest
  <2> QED
    BY <2>1, <2>2
<1>2. IdentityInv /\ BudgetInv /\ [IdentityNext]_identityVars => IdentityInv' /\ BudgetInv'
  BY IdentityStep, BudgetStep
<1>3. IdentityInv /\ BudgetInv => MissesBounded
  <2> SUFFICES ASSUME IdentityInv, BudgetInv, NEW challenge \in Rows
               PROVE  challenge.misses < Cardinality(Outlooks)
    BY DEF MissesBounded
  <2>1. PICK p \in Phones, u \in Purposes :
            \E i \in 1..Latest(p, u) : challenge = challenges[p][u][i]
    BY DEF Rows
  <2>2. PICK i \in 1..Latest(p, u) : challenge = challenges[p][u][i]
    BY <2>1
  <2>3. challenges[p][u] \in Seq(Challenges)
    BY DEF IdentityInv, IdentityTypeOK
  <2>4. challenge \in Challenges
    BY <2>2, <2>3, ElementOfSeq DEF Latest
  <2>5. RowBounded(requests, challenge, p, u, i)
    BY <2>2 DEF BudgetInv
  <2> QED
    BY <2>4, <2>5, EffectiveTyped, OutlooksFinite DEF RowBounded
<1> QED
  BY <1>1, <1>2, <1>3, PTL DEF IdentitySpec

\* One request has one outlook for each count it can have read, and one for a closed code.
LEMMA OutlooksOfOne ==
    ASSUME Cardinality(Requests) = 1
    PROVE  Cardinality(Outlooks) <= MaxAttempts + 1
<1> DEFINE Opens(f, k) == \A j \in Counts : f[j] = IF j < k THEN 0 ELSE 1
           F == [f \in Outlooks |-> CHOOSE k \in 0..MaxAttempts : Opens(f, k)]
<1>0. MaxAttempts \in Nat /\ Counts \in SUBSET Nat /\ Counts = 0..(MaxAttempts - 1)
  BY CountsNumbers DEF Counts
<1>1. ASSUME NEW f \in Outlooks PROVE \E k \in 0..MaxAttempts : Opens(f, k)
  <2> DEFINE D == {j \in Counts : f[j] = 1} \cup {MaxAttempts}
  <2>1. \A j \in Counts : f[j] = 0 \/ f[j] = 1
    <3>1. \A j \in Counts : f[j] \in 0..1
      BY OutlookFields
    <3> QED
      BY <3>1
  <2>2. PICK k \in D : \A j \in D : k <= j
    <3>1. D \in SUBSET Nat /\ D # {}
      BY <1>0
    <3> HIDE DEF D
    <3> QED
      BY <3>1, LeastNatural
  <2>3. k \in 0..MaxAttempts
    BY <1>0
  <2>4. ASSUME NEW j \in Counts PROVE f[j] = IF j < k THEN 0 ELSE 1
    <3>1. j \in Nat /\ k \in Nat
      BY <1>0, <2>3
    <3>2. CASE j < k
      BY <2>1, <2>2, <3>1, <3>2
    <3>3. CASE k <= j
      <4>1. k \in Counts /\ f[k] = 1
        BY <1>0, <3>1, <3>3
      <4>2. f[k] <= f[j]
        BY <3>3, <4>1 DEF Outlooks, Counts
      <4> QED
        BY <2>1, <3>1, <3>3, <4>1, <4>2
    <3> QED
      BY <3>1, <3>2, <3>3
  <2> QED
    BY <2>3, <2>4
<1>2. \A f \in Outlooks : F[f] \in 0..MaxAttempts /\ Opens(f, F[f])
  BY <1>1
<1>3. F \in [Outlooks -> 0..MaxAttempts]
  BY <1>2
<1>4. ASSUME NEW f \in Outlooks, NEW g \in Outlooks, F[f] = F[g] PROVE f = g
  <2>1. \A j \in Counts : f[j] = g[j]
    <3> HIDE DEF F
    <3> QED
      BY <1>2, <1>4
  <2> QED
    BY <2>1, OutlookFields
<1> HIDE DEF F
<1>5. F \in Injection(Outlooks, 0..MaxAttempts)
  BY <1>3, <1>4 DEF Injection, IsInjective
<1>6. IsFiniteSet(0..MaxAttempts) /\ Cardinality(0..MaxAttempts) = MaxAttempts + 1
  BY <1>0, FS_Interval
<1> QED
  BY <1>5, <1>6, FS_Injection

\* With one request at a time a code takes no more wrong answers than its budget.
THEOREM MissesOfOne ==
    ASSUME Cardinality(Requests) = 1
    PROVE  IdentitySpec => [](\A challenge \in Rows : challenge.misses <= MaxAttempts)
<1>1. IdentityTypeOK /\ MissesBounded => \A challenge \in Rows : challenge.misses <= MaxAttempts
  <2> SUFFICES ASSUME IdentityTypeOK, MissesBounded, NEW challenge \in Rows
               PROVE  challenge.misses <= MaxAttempts
    OBVIOUS
  <2>1. challenge.misses < Cardinality(Outlooks)
    BY DEF MissesBounded
  <2>2. PICK p \in Phones, u \in Purposes :
            \E i \in 1..Latest(p, u) : challenge = challenges[p][u][i]
    BY DEF Rows
  <2>3. PICK i \in 1..Latest(p, u) : challenge = challenges[p][u][i]
    BY <2>2
  <2>4. challenges[p][u] \in Seq(Challenges)
    BY DEF IdentityTypeOK
  <2>5. challenge \in Challenges
    BY <2>3, <2>4, ElementOfSeq DEF Latest
  <2> QED
    BY <2>1, <2>5, OutlooksOfOne, OutlooksFinite, EffectiveTyped, Bounds
<1> QED
  BY <1>1, AccountsTyped, MissesAreBounded, PTL
-----------------------------------------------------------------------------
(* The lists that are replaced as a whole. *)

\* A replacement past its lock holds the row of its owner, and what its DELETE saw is the
\* list as it still is: nobody else replaces a list of that owner meanwhile.
EditHolds(e) ==
    LET edit == edits[e] IN
    /\ edit.phase \in {"locked", "cleared"} => owners[edit.list.owner] = e
    /\ edit.phase = "cleared" => edit.seen = ToSet(lists[edit.list])

ListsInv ==
    /\ ListsTypeOK
    /\ edits = [e \in Editors |-> edits[e]] /\ lists = [l \in Lists |-> lists[l]]
    /\ \A e \in Editors : EditHolds(e)

\* A list of which the DELETE saw every row keeps none.
LEMMA NothingUnseen ==
    ASSUME NEW S, NEW list \in Seq(S), NEW seen, \A i \in 1..Len(list) : list[i] \in seen
    PROVE  Unseen(list, seen) = <<>>
<1> DEFINE Step(f) == [i \in 0..Len(list) |->
                          IF i = 0 THEN <<>>
                          ELSE IF list[i] \in seen THEN f[i - 1] ELSE Append(f[i - 1], list[i])]
           upto == CHOOSE f : f = Step(f)
<1>1. Unseen(list, seen) = upto[Len(list)] /\ Len(list) \in Nat
  BY DEF Unseen
<1>2. upto = Step(upto)
  <2> DEFINE empty == [i \in 0..Len(list) |-> <<>>]
  <2>1. \A i \in 1..Len(list) : i - 1 \in 0..Len(list)
    BY <1>1
  <2>2. empty = Step(empty)
    BY <1>1, <2>1
  <2> QED
    BY <2>2
<1> HIDE DEF upto
<1>3. \A i \in 0..Len(list) : upto[i] = IF i = 0 THEN <<>> ELSE upto[i - 1]
  <2>1. \A i \in 0..Len(list) : upto[i] = Step(upto)[i]
    BY <1>2
  <2>2. \A i \in 0..Len(list) : i # 0 => list[i] \in seen
    BY <1>1
  <2> QED
    BY <2>1, <2>2
<1> DEFINE T == {n \in 0..Len(list) : upto[n] # <<>>}
<1>4. CASE T = {}
  BY <1>1, <1>4
<1>5. CASE T # {}
  <2>1. T \in SUBSET Nat
    BY <1>1
  <2>2. PICK n \in T : \A m \in T : n <= m
    <3> HIDE DEF T
    <3> QED
      BY <1>5, <2>1, LeastNatural
  <2>3. n \in 1..Len(list) /\ upto[n] = upto[n - 1]
    BY <1>1, <1>3
  <2>4. n - 1 \in T
    BY <1>1, <2>3
  <2> QED
    BY <2>1, <2>2, <2>4
<1> QED
  BY <1>4, <1>5

\* Whose row an edit locks.
LEMMA EditFields ==
    ASSUME ListsTypeOK, NEW e \in Editors, edits[e] # NoEdit
    PROVE  /\ IsEdit(edits[e]) /\ edits[e].list \in Lists /\ edits[e].list.owner \in Owners
           /\ IsListOf(lists[edits[e].list], edits[e].list.kind)
           /\ IsListOf(edits[e].entries, edits[e].list.kind)
<1>1. IsEdit(edits[e])
  BY DEF ListsTypeOK
<1>2. edits[e].list \in Lists /\ IsListOf(edits[e].entries, edits[e].list.kind)
  BY <1>1 DEF IsEdit
<1>3. edits[e].list.owner \in Owners
  BY <1>2 DEF Lists, Owners
<1> QED
  BY <1>1, <1>2, <1>3 DEF ListsTypeOK

\* A request that is well formed goes on.
LEMMA ReplaceInv ==
    ASSUME ListsInv, NEW e \in Editors, NEW list \in Lists, NEW entries,
           IsListOf(entries, list.kind), Replace(e, list, entries)
    PROVE  ListsInv'
<1> DEFINE edit == [phase |-> "read", list |-> list, entries |-> entries, seen |-> {}]
<1>1. edits' = [edits EXCEPT ![e] = edit] /\ UNCHANGED <<lists, collected, owners>>
  BY DEF Replace
<1>2. IsEdit(edit) /\ edit.phase = "read"
  BY DEF IsEdit
<1> HIDE DEF edit
<1>3. edits' = [x \in Editors |-> edits'[x]] /\ DOMAIN edits' = Editors
      /\ edits'[e] = edit /\ \A x \in Editors : x # e => edits'[x] = edits[x]
  BY <1>1 DEF ListsInv
<1>4. ListsTypeOK'
  BY <1>1, <1>2, <1>3 DEF ListsInv, ListsTypeOK
<1>5. \A x \in Editors : EditHolds(x)'
  BY <1>1, <1>2, <1>3 DEF ListsInv, EditHolds
<1> QED
  BY <1>1, <1>3, <1>4, <1>5 DEF ListsInv

LEMMA LockOwnerInv ==
    ASSUME ListsInv, NEW e \in Editors, LockOwner(e)
    PROVE  ListsInv'
<1> DEFINE edit == [edits[e] EXCEPT !.phase = "locked"]
           o == edits[e].list.owner
<1>1. /\ edits' = [edits EXCEPT ![e] = edit] /\ UNCHANGED <<lists, collected>>
      /\ owners[o] = NoEditor /\ owners' = [owners EXCEPT ![o] = e] /\ edits[e].phase = "read"
  BY DEF LockOwner, OwnerOf
<1>2. edits[e] # NoEdit
  BY <1>1 DEF NoEdit
<1>3. IsEdit(edits[e]) /\ o \in Owners
  BY <1>2, EditFields DEF ListsInv
<1>4. IsEdit(edit) /\ edit.phase = "locked" /\ edit.list.owner = o
  BY <1>1, <1>3 DEF IsEdit
<1> HIDE DEF edit, o
<1>5. edits' = [x \in Editors |-> edits'[x]] /\ DOMAIN edits' = Editors
      /\ edits'[e] = edit /\ \A x \in Editors : x # e => edits'[x] = edits[x]
  BY <1>1 DEF ListsInv
<1>6. owners' \in [Owners -> Editors \cup {NoEditor}] /\ owners'[o] = e
      /\ \A x \in Owners : x # o => owners'[x] = owners[x]
  BY <1>1, <1>3 DEF ListsInv, ListsTypeOK
<1>7. ListsTypeOK'
  BY <1>1, <1>4, <1>5, <1>6 DEF ListsInv, ListsTypeOK
<1>8. ASSUME NEW x \in Editors PROVE EditHolds(x)'
  <2>1. CASE x = e
    BY <1>4, <1>5, <1>6, <2>1 DEF EditHolds
  <2>2. CASE x # e
    <3>1. EditHolds(x) /\ edits'[x] = edits[x]
      BY <1>5, <2>2 DEF ListsInv
    <3>2. edits[x].phase \in {"locked", "cleared"} =>
              edits[x].list.owner \in Owners /\ edits[x].list.owner # o
      BY <1>1, <3>1, EditFields, ListsAssumption DEF ListsInv, EditHolds, NoEdit
    <3> QED
      BY <1>1, <1>6, <3>1, <3>2 DEF EditHolds
  <2> QED
    BY <2>1, <2>2
<1> QED
  BY <1>1, <1>5, <1>7, <1>8 DEF ListsInv

LEMMA DeleteRowsInv ==
    ASSUME ListsInv, NEW e \in Editors, DeleteRows(e)
    PROVE  ListsInv'
<1> DEFINE seen == ToSet(lists[edits[e].list])
           edit == [edits[e] EXCEPT !.phase = "cleared", !.seen = seen]
<1>1. /\ edits' = [edits EXCEPT ![e] = edit] /\ UNCHANGED <<lists, collected, owners>>
      /\ edits[e].phase = "locked"
  BY DEF DeleteRows
<1>2. edits[e] # NoEdit
  BY <1>1 DEF NoEdit
<1>3. /\ IsEdit(edits[e])
      /\ IsListOf(lists[edits[e].list], edits[e].list.kind)
  BY <1>2, EditFields DEF ListsInv
<1>4. seen \subseteq Entries(edits[e].list.kind)
  BY <1>3 DEF IsListOf, ToSet
<1>5. owners[edits[e].list.owner] = e
  BY <1>1 DEF ListsInv, EditHolds
<1> HIDE DEF seen
<1>6. /\ IsEdit(edit) /\ edit.phase = "cleared" /\ edit.list = edits[e].list
      /\ edit.seen = seen
  BY <1>1, <1>3, <1>4 DEF IsEdit
<1> HIDE DEF edit
<1>7. edits' = [x \in Editors |-> edits'[x]] /\ DOMAIN edits' = Editors
      /\ edits'[e] = edit /\ \A x \in Editors : x # e => edits'[x] = edits[x]
  BY <1>1 DEF ListsInv
<1>8. ListsTypeOK'
  BY <1>1, <1>6, <1>7 DEF ListsInv, ListsTypeOK
<1>9. ASSUME NEW x \in Editors PROVE EditHolds(x)'
  <2>1. CASE x = e
    BY <1>1, <1>5, <1>6, <1>7, <2>1 DEF EditHolds, seen
  <2>2. CASE x # e
    BY <1>1, <1>7, <2>2 DEF ListsInv, EditHolds
  <2> QED
    BY <2>1, <2>2
<1> QED
  BY <1>1, <1>7, <1>8, <1>9 DEF ListsInv

\* An edit that ends gives back its row, and leaves the others theirs.
LEMMA EditEnds ==
    ASSUME ListsInv, NEW e \in Editors, owners' = Released(e),
           edits' = [edits EXCEPT ![e] = NoEdit],
           UNCHANGED collected
    PROVE  /\ edits' = [x \in Editors |-> edits'[x]] /\ DOMAIN edits' = Editors
           /\ owners' \in [Owners -> Editors \cup {NoEditor}]
           /\ edits'[e] = NoEdit /\ \A x \in Editors : x # e => edits'[x] = edits[x]
           /\ \A x \in Editors : edits'[x] = NoEdit \/ IsEdit(edits'[x])
           /\ \A o \in Owners : owners[o] # e => owners'[o] = owners[o]
<1>1. edits' = [x \in Editors |-> edits'[x]] /\ DOMAIN edits' = Editors
      /\ edits'[e] = NoEdit /\ \A x \in Editors : x # e => edits'[x] = edits[x]
  BY DEF ListsInv
<1>2. /\ owners' \in [Owners -> Editors \cup {NoEditor}]
      /\ \A o \in Owners : owners[o] # e => owners'[o] = owners[o]
  BY DEF ListsInv, ListsTypeOK, Released
<1> QED
  BY <1>1, <1>2 DEF ListsInv, ListsTypeOK

LEMMA EditFailsInv ==
    ASSUME ListsInv, NEW e \in Editors, EditFails(e)
    PROVE  ListsInv'
<1>1. /\ owners' = Released(e) /\ edits' = [edits EXCEPT ![e] = NoEdit]
      /\ UNCHANGED <<lists, collected>>
  BY DEF EditFails
<1>2. ListsTypeOK'
  BY <1>1, EditEnds DEF ListsInv, ListsTypeOK
<1>3. ASSUME NEW x \in Editors PROVE EditHolds(x)'
  <2>1. CASE x = e
    BY <1>1, <2>1, EditEnds DEF EditHolds, NoEdit
  <2>2. CASE x # e
    <3>1. EditHolds(x) /\ edits'[x] = edits[x]
      BY <1>1, <2>2, EditEnds DEF ListsInv
    <3>2. edits[x].phase \in {"locked", "cleared"} => edits[x].list.owner \in Owners
      BY EditFields DEF ListsInv, NoEdit
    <3> QED
      BY <1>1, <2>2, <3>1, <3>2, EditEnds DEF EditHolds
  <2> QED
    BY <2>1, <2>2
<1> QED
  BY <1>1, <1>2, <1>3, EditEnds DEF ListsInv

\* What a replacement commits is what its request asked for.
LEMMA Committed ==
    ASSUME ListsInv, NEW e \in Editors, CommitReplace(e)
    PROVE  /\ edits[e] # NoEdit /\ edits[e].list \in Lists
           /\ lists' = [lists EXCEPT ![edits[e].list] = edits[e].entries]
           /\ owners[edits[e].list.owner] = e /\ edits[e].list.owner \in Owners
<1> DEFINE l == edits[e].list
           entries == edits[e].entries
           kept == Unseen(lists[l], edits[e].seen)
<1>1. edits[e].phase = "cleared" /\ lists' = [lists EXCEPT ![l] = kept \o entries]
  BY DEF CommitReplace
<1>2. edits[e] # NoEdit
  BY <1>1 DEF NoEdit
<1>3. /\ l \in Lists /\ l.owner \in Owners /\ lists[l] \in Seq(Entries(l.kind))
      /\ entries \in Seq(Entries(l.kind))
  BY <1>2, EditFields DEF ListsInv, IsListOf
<1>4. edits[e].seen = ToSet(lists[l]) /\ owners[l.owner] = e
  BY <1>1 DEF ListsInv, EditHolds
<1>5. \A i \in 1..Len(lists[l]) : lists[l][i] \in edits[e].seen
  BY <1>3, <1>4 DEF ToSet
<1>6. kept = <<>>
  BY <1>3, <1>5, NothingUnseen
<1> HIDE DEF kept, entries, l
<1>7. kept \o entries = entries
  BY <1>3, <1>6
<1> QED
  BY <1>1, <1>2, <1>3, <1>4, <1>7 DEF l, entries

LEMMA CommitReplaceInv ==
    ASSUME ListsInv, NEW e \in Editors, CommitReplace(e)
    PROVE  ListsInv'
<1> DEFINE l == edits[e].list
<1>1. /\ owners' = Released(e) /\ edits' = [edits EXCEPT ![e] = NoEdit]
      /\ UNCHANGED collected
  BY DEF CommitReplace
<1>2. /\ edits[e] # NoEdit /\ l \in Lists /\ lists' = [lists EXCEPT ![l] = edits[e].entries]
      /\ owners[l.owner] = e
  BY Committed
<1>3. IsListOf(edits[e].entries, l.kind)
  BY <1>2, EditFields DEF ListsInv
<1>4. lists' = [x \in Lists |-> lists'[x]] /\ DOMAIN lists' = Lists
      /\ lists'[l] = edits[e].entries /\ \A x \in Lists : x # l => lists'[x] = lists[x]
  BY <1>2 DEF ListsInv
<1>5. ListsTypeOK'
  BY <1>1, <1>3, <1>4, EditEnds DEF ListsInv, ListsTypeOK
<1>6. ASSUME NEW x \in Editors PROVE EditHolds(x)'
  <2>1. CASE x = e
    BY <1>1, <2>1, EditEnds DEF EditHolds, NoEdit
  <2>2. CASE x # e
    <3>1. EditHolds(x) /\ edits'[x] = edits[x]
      BY <1>1, <2>2, EditEnds DEF ListsInv
    <3>2. edits[x].phase \in {"locked", "cleared"} =>
              edits[x].list \in Lists /\ edits[x].list.owner \in Owners
      BY EditFields DEF ListsInv, NoEdit
    <3>3. edits[x].phase \in {"locked", "cleared"} =>
              owners[edits[x].list.owner] = x /\ edits[x].list # l
      BY <1>2, <2>2, <3>1 DEF EditHolds
    <3> HIDE DEF l
    <3> QED
      BY <1>1, <1>4, <2>2, <3>1, <3>2, <3>3, EditEnds DEF EditHolds
  <2> QED
    BY <2>1, <2>2
<1> QED
  BY <1>1, <1>4, <1>5, <1>6, EditEnds DEF ListsInv
-----------------------------------------------------------------------------
(* What the views ask for are lists of their kind. *)

LEMMA CategoriesAsked ==
    ASSUME ListsInv, NEW e \in Editors, ProductCategoriesView(e) \/ CollectionProductsView(e)
    PROVE  ListsInv'
<1>1. \A S : \A s \in SeqOf(S, MaxEntries) : s \in Seq(S)
  BY ListsAssumption DEF SeqOf
<1>2. /\ \A p \in Products : [kind |-> "categories", owner |-> p] \in Lists
      /\ \A c \in Collections : [kind |-> "products", owner |-> c] \in Lists
  BY DEF Lists
<1>3. Entries("categories") = Categories /\ Entries("products") = Products
  BY DEF Entries, CategoryLinks, CollectionLinks
<1>4. CASE ProductCategoriesView(e)
  <2>1. PICK p \in Products, categories \in SeqOf(Categories, MaxEntries) :
            SetProductCategories(e, p, categories)
    BY <1>4 DEF ProductCategoriesView
  <2>2. IsListOf(categories, "categories")
    BY <1>1, <1>3, <2>1 DEF SetProductCategories, RejectDuplicates, IsListOf
  <2> QED
    BY <1>2, <2>1, <2>2, ReplaceInv DEF SetProductCategories
<1>5. CASE CollectionProductsView(e)
  <2>1. PICK c \in Collections, products \in SeqOf(Products, MaxEntries) :
            SetCollectionProducts(e, c, products)
    BY <1>5 DEF CollectionProductsView
  <2>2. IsListOf(products, "products")
    BY <1>1, <1>3, <2>1 DEF SetCollectionProducts, RejectDuplicates, IsListOf
  <2> QED
    BY <1>2, <2>1, <2>2, ReplaceInv DEF SetCollectionProducts
<1> QED
  BY <1>4, <1>5

LEMMA RuleAsked ==
    ASSUME ListsInv, NEW e \in Editors, CollectionRuleView(e)
    PROVE  ListsInv'
<1>1. PICK c \in Collections, conditions \in SeqOf(RawConditions, MaxEntries) :
          SetCollectionRule(e, c, conditions)
  BY DEF CollectionRuleView
<1> DEFINE rule == [i \in DOMAIN conditions |-> RuleCondition(conditions[i])]
<1>2. PICK m \in 0..MaxEntries : conditions \in [1..m -> RawConditions]
  BY <1>1 DEF SeqOf
<1>3. ASSUME NEW raw \in RawConditions, IsCondition(raw)
      PROVE  RuleCondition(raw) \in Conditions
  <2> DEFINE value == Operand[raw.value]
             values == {Operand[s] : s \in DOMAIN Operand}
  <2>1. raw \in [attribute : Attributes, operator : Comparisons, value : DOMAIN Operand]
    BY DEF RawConditions
  <2>2. value \in values /\ raw.operator \in RuleOperators
    BY <1>3, <2>1 DEF IsCondition
  <2>3. RuleCondition(raw) = [raw EXCEPT !.value = value]
    BY DEF RuleCondition
  <2>4. Conditions = [attribute : Attributes, operator : RuleOperators, value : values]
    BY DEF Conditions
  <2> HIDE DEF value, values
  <2> QED
    BY <2>1, <2>2, <2>3, <2>4
<1>4. /\ \A i \in DOMAIN conditions : IsCondition(conditions[i])
      /\ RejectDuplicates(rule) /\ Replace(e, [kind |-> "rule", owner |-> c], rule)
  BY <1>1 DEF SetCollectionRule
<1>5. rule \in [1..m -> Conditions] /\ m \in Nat
  BY <1>2, <1>3, <1>4, ListsAssumption
<1> HIDE DEF rule
<1>6. IsListOf(rule, "rule")
  BY <1>4, <1>5 DEF IsListOf, RejectDuplicates, Entries
<1>7. [kind |-> "rule", owner |-> c] \in Lists
  BY DEF Lists
<1> QED
  BY <1>4, <1>6, <1>7, ReplaceInv

\* A finite set as a sequence: each member once.
LEMMA OrderedSet ==
    ASSUME NEW S, IsFiniteSet(S)
    PROVE  SetToSeq(S) \in Seq(S) /\ IsInjective(SetToSeq(S))
<1>1. Cardinality(S) \in Nat /\ ExistsBijection(1..Cardinality(S), S)
  BY FS_CardinalityType
<1>2. \E f \in [1..Cardinality(S) -> S] : IsInjective(f)
  BY <1>1 DEF ExistsBijection, Bijection, Injection
<1>3. SetToSeq(S) \in [1..Cardinality(S) -> S] /\ IsInjective(SetToSeq(S))
  BY <1>2 DEF SetToSeq
<1> QED
  BY <1>1, <1>3

LEMMA PricesAsked ==
    ASSUME ListsInv, NEW e \in Editors, VariantPricesView(e)
    PROVE  ListsInv'
<1> DEFINE RawPrices == [channel : Outlets, amount : Sums]
<1>1. PICK v \in Variants, prices \in SeqOf(RawPrices, MaxEntries) :
          SetVariantPrices(e, v, prices)
  BY DEF VariantPricesView
<1> DEFINE asked == {ChannelPrice(prices[i]) : i \in DOMAIN prices}
<1>2. PICK m \in 0..MaxEntries : prices \in [1..m -> RawPrices]
  BY <1>1 DEF SeqOf
<1>3. \A raw \in RawPrices : ChannelPrice(raw) \in Prices
  BY ListsAssumption DEF ChannelPrice, Prices
<1>4. asked \subseteq Prices
  BY <1>2, <1>3
<1>5. IsFiniteSet(asked)
  <2> DEFINE f == [i \in 1..m |-> ChannelPrice(prices[i])]
  <2>1. IsFiniteSet(1..m)
    BY FS_Interval, ListsAssumption
  <2>2. f \in [1..m -> asked] /\ asked = {f[i] : i \in 1..m}
    BY <1>2
  <2>3. f \in Surjection(1..m, asked)
    BY <2>2 DEF Surjection
  <2> QED
    BY <2>1, <2>3, FS_Surjection
<1> HIDE DEF asked
<1>6. SetToSeq(asked) \in Seq(Prices) /\ IsInjective(SetToSeq(asked))
  BY <1>4, <1>5, OrderedSet
<1>7. IsListOf(SetToSeq(asked), "prices")
  BY <1>6 DEF IsListOf, Entries
<1>8. [kind |-> "prices", owner |-> v] \in Lists
  BY DEF Lists
<1>9. Replace(e, [kind |-> "prices", owner |-> v], SetToSeq(asked))
  BY <1>1 DEF SetVariantPrices, asked
<1> QED
  BY <1>7, <1>8, <1>9, ReplaceInv

LEMMA CollectionInv ==
    ASSUME ListsInv, CollectionListCreateView \/ UNCHANGED listVars
    PROVE  ListsInv'
<1>1. UNCHANGED <<lists, owners, edits>> /\ collected' \subseteq Collections
  BY DEF CollectionListCreateView, CreateCollection, listVars, ListsInv, ListsTypeOK
<1>2. \A e \in Editors : EditHolds(e)'
  BY <1>1 DEF ListsInv, EditHolds
<1> QED
  BY <1>1, <1>2 DEF ListsInv, ListsTypeOK

LEMMA ListsInitInv ==
    ASSUME ListsInit
    PROVE  ListsInv
<1>1. \A kind : IsListOf(<<>>, kind)
  BY DEF IsListOf, IsInjective
<1>2. ListsTypeOK
  BY <1>1 DEF ListsInit, ListsTypeOK
<1>3. \A e \in Editors : EditHolds(e)
  BY DEF ListsInit, EditHolds, NoEdit
<1> QED
  BY <1>2, <1>3 DEF ListsInit, ListsInv

\* A step that changes a list leaves what one request asked for.
ListStep ==
    \A l \in Lists : lists'[l] # lists[l] =>
        \E e \in Editors : edits[e] # NoEdit /\ edits[e].list = l /\ lists'[l] = edits[e].entries

LEMMA ListsStep ==
    ASSUME ListsInv, [ListsNext]_listVars
    PROVE  ListsInv' /\ ListStep
<1>1. ASSUME NEW e \in Editors, CommitReplace(e)
      PROVE  ListsInv' /\ ListStep
  BY <1>1, Committed, CommitReplaceInv DEF ListStep, ListsInv, ListsTypeOK
<1>2. ASSUME NEW e \in Editors, LockOwner(e) \/ DeleteRows(e) \/ EditFails(e)
      PROVE  ListsInv' /\ UNCHANGED lists
  BY <1>2, LockOwnerInv, DeleteRowsInv, EditFailsInv DEF LockOwner, DeleteRows, EditFails
<1>3. ASSUME NEW e \in Editors,
             \/ ProductCategoriesView(e) \/ CollectionProductsView(e)
             \/ CollectionRuleView(e) \/ VariantPricesView(e)
      PROVE  ListsInv' /\ UNCHANGED lists
  <2>1. UNCHANGED lists
    BY <1>3 DEF ProductCategoriesView, SetProductCategories, CollectionProductsView,
       SetCollectionProducts, CollectionRuleView, SetCollectionRule, VariantPricesView,
       SetVariantPrices, Replace
  <2> QED
    BY <1>3, <2>1, CategoriesAsked, RuleAsked, PricesAsked
<1>4. ASSUME CollectionListCreateView \/ UNCHANGED listVars
      PROVE  ListsInv' /\ UNCHANGED lists
  BY <1>4, CollectionInv DEF CollectionListCreateView, CreateCollection, listVars
<1> QED
  BY <1>1, <1>2, <1>3, <1>4 DEF ListsNext, ListStep

\* Every list is a list of its kind, and so is what every request asks for.
THEOREM ListsTyped == ListsSpec => []ListsTypeOK
<1>1. ListsInv /\ [ListsNext]_listVars => ListsInv'
  BY ListsStep
<1>2. ListsInv => ListsTypeOK
  BY DEF ListsInv
<1> QED
  BY <1>1, <1>2, ListsInitInv, PTL DEF ListsSpec

\* A list is replaced as a whole: a step that changes a list leaves in it what one request
\* asked for, in its order, never what two requests did together.
THEOREM ListsAlwaysWhole == ListsSpec => ListsWhole
<1>1. ListsInit => ListsInv
  BY ListsInitInv
<1>2. ListsInv /\ [ListsNext]_listVars => ListsInv' /\ [ListStep]_listVars
  BY ListsStep
<1> QED
  BY <1>1, <1>2, PTL DEF ListsSpec, ListsWhole, ListStep
-----------------------------------------------------------------------------
(* What the storefront shows. *)

\* One price for a channel, and no price below zero.
Priced(list) ==
    /\ \A x, y \in ToSet(list) : x.channel = y.channel => x = y
    /\ \A x \in ToSet(list) : x.amount \in Nat

PricesInv ==
    /\ \A l \in Lists : l.kind = "prices" => Priced(lists[l])
    /\ \A e \in Editors : edits[e] # NoEdit /\ edits[e].list.kind = "prices"
                              => Priced(edits[e].entries)

\* What is asked for a variant names a channel once.
LEMMA AskedPriced ==
    ASSUME ListsInv, NEW e \in Editors, NEW v \in Variants, NEW m \in Nat,
           NEW prices \in [1..m -> [channel : Outlets, amount : Sums]],
           SetVariantPrices(e, v, prices)
    PROVE  Priced(SetToSeq({ChannelPrice(prices[i]) : i \in DOMAIN prices}))
<1> DEFINE asked == {ChannelPrice(prices[i]) : i \in 1..m}
<1>1. IsFiniteSet(asked)
  <2> DEFINE f == [i \in 1..m |-> ChannelPrice(prices[i])]
  <2>1. IsFiniteSet(1..m)
    BY FS_Interval
  <2>2. f \in [1..m -> asked] /\ asked = {f[i] : i \in 1..m}
    OBVIOUS
  <2>3. f \in Surjection(1..m, asked)
    BY <2>2 DEF Surjection
  <2> QED
    BY <2>1, <2>3, FS_Surjection
<1>2. ToSet(SetToSeq(asked)) \subseteq asked
  <2> HIDE DEF asked
  <2> DEFINE list == SetToSeq(asked)
  <2>1. list \in Seq(asked)
    BY <1>1, OrderedSet
  <2> HIDE DEF list
  <2>2. \A i \in 1..Len(list) : list[i] \in asked
    BY <2>1, ElementOfSeq
  <2>3. DOMAIN list = 1..Len(list)
    BY <2>1
  <2>4. ToSet(list) \subseteq asked
    BY <2>2, <2>3 DEF ToSet
  <2> QED
    BY <2>4 DEF list
<1>3. ASSUME NEW i \in 1..m
      PROVE  /\ ChannelPrice(prices[i]).channel = prices[i].channel
             /\ ChannelPrice(prices[i]).amount = prices[i].amount
             /\ prices[i].amount \in Nat
  <2>1. prices[i].amount \in Int /\ prices[i].amount > 0
    BY StorefrontAssumption DEF SetVariantPrices, IsMoney
  <2> QED
    BY <2>1 DEF ChannelPrice
<1>4. \A i, j \in 1..m : prices[i].channel = prices[j].channel => i = j
  BY DEF SetVariantPrices, RejectDuplicates, IsInjective
<1>5. \A x, y \in asked : x.channel = y.channel => x = y
  BY <1>3, <1>4
<1>6. \A x \in asked : x.amount \in Nat
  BY <1>3
<1>7. {ChannelPrice(prices[i]) : i \in DOMAIN prices} = asked
  OBVIOUS
<1> HIDE DEF asked
<1> QED
  BY <1>2, <1>5, <1>6, <1>7 DEF Priced

\* What a request asks for, it asks for until it ends.
LEMMA EditsPriced ==
    ASSUME ListsInv, PricesInv, [ListsNext]_listVars, NEW x \in Editors, edits'[x] # NoEdit,
           edits'[x].list.kind = "prices"
    PROVE  Priced(edits'[x].entries)
<1>0. DOMAIN edits = Editors /\ edits = [e \in Editors |-> edits[e]]
  BY DEF ListsInv, ListsTypeOK
<1>1. edits'[x] = edits[x] => Priced(edits'[x].entries)
  BY DEF PricesInv
<1>2. ASSUME NEW e \in Editors, NEW list, NEW entries, Replace(e, list, entries),
             list.kind = "prices" => Priced(entries)
      PROVE  Priced(edits'[x].entries)
  <2> DEFINE edit == [phase |-> "read", list |-> list, entries |-> entries, seen |-> {}]
  <2>1. edits' = [edits EXCEPT ![e] = edit] /\ edit.list = list /\ edit.entries = entries
    BY <1>2 DEF Replace
  <2> HIDE DEF edit
  <2> QED
    BY <1>0, <1>1, <1>2, <2>1
<1>3. ASSUME NEW e \in Editors, LockOwner(e) \/ DeleteRows(e)
      PROVE  Priced(edits'[x].entries)
  <2>1. PICK edit : /\ edits' = [edits EXCEPT ![e] = edit]
                    /\ edit.list = edits[e].list /\ edit.entries = edits[e].entries
                    /\ edits[e] # NoEdit
    <3>1. edits[e] # NoEdit
      BY <1>3 DEF LockOwner, DeleteRows, NoEdit
    <3>2. IsEdit(edits[e])
      BY <3>1, EditFields DEF ListsInv
    <3>3. CASE LockOwner(e)
      <4> DEFINE new == [edits[e] EXCEPT !.phase = "locked"]
      <4>1. edits' = [edits EXCEPT ![e] = new]
        BY <3>3 DEF LockOwner
      <4>2. new.list = edits[e].list /\ new.entries = edits[e].entries
        OBVIOUS
      <4> HIDE DEF new
      <4> QED
        BY <3>1, <4>1, <4>2
    <3>4. CASE DeleteRows(e)
      <4> DEFINE seen == ToSet(lists[edits[e].list])
                 new == [edits[e] EXCEPT !.phase = "cleared", !.seen = seen]
      <4>1. edits' = [edits EXCEPT ![e] = new]
        BY <3>4 DEF DeleteRows
      <4> HIDE DEF seen
      <4>2. new.list = edits[e].list /\ new.entries = edits[e].entries
        OBVIOUS
      <4> HIDE DEF new
      <4> QED
        BY <3>1, <4>1, <4>2
    <3> QED
      BY <1>3, <3>3, <3>4
  <2>2. CASE x = e
    BY <1>0, <2>1, <2>2 DEF PricesInv
  <2>3. CASE x # e
    BY <1>0, <1>1, <2>1, <2>3
  <2> QED
    BY <2>2, <2>3
<1>4. ASSUME NEW e \in Editors, CommitReplace(e) \/ EditFails(e)
      PROVE  Priced(edits'[x].entries)
  BY <1>0, <1>1, <1>4 DEF CommitReplace, EditFails
<1>5. ASSUME NEW e \in Editors,
             ProductCategoriesView(e) \/ CollectionProductsView(e) \/ CollectionRuleView(e)
      PROVE  Priced(edits'[x].entries)
  <2>1. PICK list, entries : Replace(e, list, entries) /\ list.kind # "prices"
    <3>1. CASE ProductCategoriesView(e)
      BY <3>1 DEF ProductCategoriesView, SetProductCategories
    <3>2. CASE CollectionProductsView(e)
      BY <3>2 DEF CollectionProductsView, SetCollectionProducts
    <3>3. CASE CollectionRuleView(e)
      BY <3>3 DEF CollectionRuleView, SetCollectionRule
    <3> QED
      BY <1>5, <3>1, <3>2, <3>3
  <2> QED
    BY <1>2, <2>1
<1>6. ASSUME NEW e \in Editors, VariantPricesView(e)
      PROVE  Priced(edits'[x].entries)
  <2>1. PICK v \in Variants, prices \in SeqOf([channel : Outlets, amount : Sums], MaxEntries) :
            SetVariantPrices(e, v, prices)
    BY <1>6 DEF VariantPricesView
  <2>2. PICK m \in 0..MaxEntries : prices \in [1..m -> [channel : Outlets, amount : Sums]]
    BY <2>1 DEF SeqOf
  <2>3. m \in Nat
    BY ListsAssumption
  <2> DEFINE entries == SetToSeq({ChannelPrice(prices[i]) : i \in DOMAIN prices})
  <2>4. Priced(entries)
    BY <2>1, <2>2, <2>3, AskedPriced
  <2>5. Replace(e, [kind |-> "prices", owner |-> v], entries)
    BY <2>1 DEF SetVariantPrices
  <2> HIDE DEF entries
  <2> QED
    BY <1>2, <2>4, <2>5
<1>7. ASSUME CollectionListCreateView \/ UNCHANGED listVars
      PROVE  Priced(edits'[x].entries)
  BY <1>1, <1>7 DEF CollectionListCreateView, CreateCollection, listVars
<1> QED
  BY <1>3, <1>4, <1>5, <1>6, <1>7 DEF ListsNext

LEMMA PricesStep ==
    ASSUME ListsInv, PricesInv, [ListsNext]_listVars
    PROVE  PricesInv'
<1>1. \A l \in Lists : l.kind = "prices" => Priced(lists'[l])
  BY ListsStep DEF ListStep, PricesInv
<1>2. \A x \in Editors : edits'[x] # NoEdit /\ edits'[x].list.kind = "prices"
                             => Priced(edits'[x].entries)
  BY EditsPriced
<1> QED
  BY <1>1, <1>2 DEF PricesInv, Priced

LEMMA PricesInitInv ==
    ASSUME ListsInit
    PROVE  PricesInv
<1>1. Priced(<<>>)
  BY DEF Priced, ToSet
<1> QED
  BY <1>1 DEF ListsInit, PricesInv
-----------------------------------------------------------------------------
(* The prices of a product. *)

\* The price of a variant in a channel is the one row that it has there.
LEMMA VariantShown ==
    ASSUME ListsInv, PricesInv, NEW v \in Variants, NEW channel
    PROVE  /\ \A row \in Links("prices", v) : row.amount \in Nat
           /\ \A row \in Links("prices", v) :
                  row.channel = channel => VariantPrice(v, channel) = row.amount
           /\ (\A row \in Links("prices", v) : row.channel # channel)
                  => VariantPrice(v, channel) = Anything
<1> DEFINE l == [kind |-> "prices", owner |-> v]
<1>1. l \in Lists /\ l.kind = "prices"
  BY DEF Lists
<1>2. Priced(lists[l]) /\ Links("prices", v) = ToSet(lists[l])
  BY <1>1 DEF PricesInv, Links
<1> HIDE DEF l
<1>3. /\ \A x, y \in Links("prices", v) : x.channel = y.channel => x = y
      /\ \A x \in Links("prices", v) : x.amount \in Nat
  BY <1>2 DEF Priced
<1>4. ASSUME NEW row \in Links("prices", v), row.channel = channel
      PROVE  VariantPrice(v, channel) = row.amount
  <2> DEFINE some == CHOOSE r \in Links("prices", v) : r.channel = channel
  <2>1. some \in Links("prices", v) /\ some.channel = channel
    BY <1>4
  <2>2. some = row
    BY <1>3, <1>4, <2>1
  <2>3. VariantPrice(v, channel) = some.amount
    BY <1>4 DEF VariantPrice
  <2> QED
    BY <2>2, <2>3
<1>5. (\A row \in Links("prices", v) : row.channel # channel)
          => VariantPrice(v, channel) = Anything
  BY DEF VariantPrice
<1> QED
  BY <1>3, <1>4, <1>5

Amounts(p, channel) == {row.amount : row \in PriceRows(p, channel)}

\* What the page of a product shows are the amounts of its rows in the channel.
LEMMA ShownAmounts ==
    ASSUME ListsInv, PricesInv, NEW p \in Products, NEW channel
    PROVE  /\ Amounts(p, channel) \in SUBSET Nat
           /\ {ProductPage(p, channel)[v] : v \in DOMAIN ProductPage(p, channel)} \ {Anything}
                  = Amounts(p, channel)
           /\ PriceRows(p, channel) = {} <=> Amounts(p, channel) = {}
<1>1. VariantsOf[p] \in SUBSET Variants
  BY StorefrontAssumption
<1>2. \A row : row \in PriceRows(p, channel)
          <=> \E v \in VariantsOf[p] : row \in Links("prices", v) /\ row.channel = channel
  BY DEF PriceRows
<1>3. Amounts(p, channel) \in SUBSET Nat
  BY <1>1, <1>2, VariantShown DEF Amounts
<1>4. Anything \notin Nat
  BY StorefrontAssumption
<1> DEFINE page == ProductPage(p, channel)
           shown == {page[v] : v \in DOMAIN page} \ {Anything}
<1>5. DOMAIN page = VariantsOf[p] /\ \A v \in VariantsOf[p] : page[v] = VariantPrice(v, channel)
  BY DEF ProductPage
<1>6. ASSUME NEW a \in shown PROVE a \in Amounts(p, channel)
  <2>1. PICK v \in VariantsOf[p] : a = VariantPrice(v, channel) /\ a # Anything
    BY <1>5, <1>6
  <2>2. PICK row \in Links("prices", v) : row.channel = channel
    BY <1>1, <2>1, VariantShown
  <2>3. a = row.amount /\ row \in PriceRows(p, channel)
    BY <1>1, <1>2, <2>1, <2>2, VariantShown
  <2> QED
    BY <2>3 DEF Amounts
<1>7. ASSUME NEW a \in Amounts(p, channel) PROVE a \in shown
  <2>1. PICK row \in PriceRows(p, channel) : a = row.amount
    BY DEF Amounts
  <2>2. PICK v \in VariantsOf[p] : row \in Links("prices", v) /\ row.channel = channel
    BY <1>2, <2>1
  <2>3. a = page[v]
    BY <1>1, <1>5, <2>1, <2>2, VariantShown
  <2>4. a # Anything
    BY <1>3, <1>4
  <2> QED
    BY <1>5, <2>2, <2>3, <2>4
<1>8. PriceRows(p, channel) = {} <=> Amounts(p, channel) = {}
  BY DEF Amounts
<1> HIDE DEF page, shown
<1>9. shown = Amounts(p, channel)
  BY <1>6, <1>7
<1> QED
  BY <1>3, <1>8, <1>9 DEF shown, page

\* The least of a set of numbers.
LEMMA MinOfNaturals ==
    ASSUME NEW S \in SUBSET Nat, S # {}
    PROVE  Min(S) \in S /\ \A x \in S : Min(S) <= x
BY LeastNatural DEF Min

\* The "from" price is the lowest price on the page of the product.
LEMMA FromIsLowest ==
    ASSUME ListsInv, PricesInv, NEW p \in Products, NEW channel
    PROVE  /\ FromPrice(p, channel) = LowestShown(p, channel)
           /\ PriceRows(p, channel) = {} => LowestShown(p, channel) = Anything
           /\ PriceRows(p, channel) # {} =>
                  /\ LowestShown(p, channel) \in Amounts(p, channel)
                  /\ \A a \in Amounts(p, channel) : LowestShown(p, channel) <= a
<1>1. LowestShown(p, channel) = IF Amounts(p, channel) = {} THEN Anything
                                ELSE Min(Amounts(p, channel))
  BY ShownAmounts DEF LowestShown
<1>2. FromPrice(p, channel) = IF PriceRows(p, channel) = {} THEN Anything
                              ELSE Min(Amounts(p, channel))
  BY DEF FromPrice, Amounts
<1> QED
  BY <1>1, <1>2, ShownAmounts, MinOfNaturals

\* The filter by price means the lowest price on the page.
LEMMA RangeIsWithin ==
    ASSUME ListsInv, PricesInv, NEW p \in Products, NEW q \in Queries
    PROVE  InPriceRange(p, q) <=> Within(LowestShown(p, q.channel), q)
<1> DEFINE lowest == LowestShown(p, q.channel)
           rows == PriceRows(p, q.channel)
           In(a) == (q.min = Anything \/ a >= q.min) /\ (q.max = Anything \/ a <= q.max)
           bounded == q.channel # Anything /\ ~ (q.min = Anything /\ q.max = Anything)
<1>1. InPriceRange(p, q) <=>
          \/ ~ bounded
          \/ \E row \in rows : (\A other \in rows : row.amount <= other.amount) /\ In(row.amount)
  BY DEF InPriceRange
<1>2. Within(lowest, q) <=> ~ bounded \/ (lowest # Anything /\ In(lowest))
  BY DEF Within
<1>3. CASE rows = {}
  <2>1. lowest = Anything
    BY <1>3, FromIsLowest
  <2> QED
    BY <1>1, <1>2, <1>3, <2>1
<1>4. CASE rows # {}
  <2>1. /\ Amounts(p, q.channel) \in SUBSET Nat
        /\ lowest \in Amounts(p, q.channel) /\ \A a \in Amounts(p, q.channel) : lowest <= a
    BY <1>4, FromIsLowest, ShownAmounts
  <2>2. PICK row \in rows : row.amount = lowest
    BY <2>1 DEF Amounts
  <2>3. \A other \in rows : other.amount \in Nat /\ lowest <= other.amount
    BY <2>1 DEF Amounts
  <2>4. lowest \in Nat /\ lowest # Anything
    BY <2>1, StorefrontAssumption
  <2>5. \A other \in rows : (\A third \in rows : other.amount <= third.amount)
            => other.amount = lowest
    BY <2>2, <2>3, <2>4
  <2> HIDE DEF lowest, rows, bounded
  <2>6. (\E other \in rows : (\A third \in rows : other.amount <= third.amount) /\ In(other.amount))
            <=> In(lowest)
    <3>1. \A other \in rows : row.amount <= other.amount
      BY <2>2, <2>3
    <3> HIDE DEF In
    <3> QED
      BY <2>2, <2>5, <3>1
  <2>7. InPriceRange(p, q) <=> ~ bounded \/ In(lowest)
    BY <1>1, <2>6
  <2>8. Within(lowest, q) <=> ~ bounded \/ In(lowest)
    BY <1>2, <2>4
  <2> QED
    BY <2>7, <2>8 DEF lowest
<1> QED
  BY <1>3, <1>4

\* A search finds what its shopper understands by it.
LEMMA FilteredAsExpected ==
    ASSUME ListsInv, PricesInv, NEW published \in SUBSET Products, NEW q \in Queries
    PROVE  Filtered(published, q) = Expected(published, q)
<1>1. \A p \in published : InPriceRange(p, q) <=> Within(LowestShown(p, q.channel), q)
  BY RangeIsWithin
<1> QED
  BY <1>1 DEF Filtered, Expected

\* What can be bought has a price.
LEMMA AvailableIsPriced ==
    ASSUME ListsInv, PricesInv, NEW p \in Products, NEW channel
    PROVE  Available(p, channel, Variants) <=> FromPrice(p, channel) # Anything
<1>1. VariantsOf[p] \in SUBSET Variants
  BY StorefrontAssumption
<1>2. Available(p, channel, Variants) <=> PriceRows(p, channel) # {}
  BY <1>1 DEF Available, PriceRows
<1>3. PriceRows(p, channel) # {} => FromPrice(p, channel) # Anything
  BY FromIsLowest, ShownAmounts, StorefrontAssumption
<1>4. PriceRows(p, channel) = {} => FromPrice(p, channel) = Anything
  BY DEF FromPrice
<1> QED
  BY <1>2, <1>3, <1>4
-----------------------------------------------------------------------------
(* The pages of a search. *)

\* How many members of a set come before a number.
Place(S, p) == Cardinality({x \in S : x < p})

\* The members of a finite set of numbers have the places from 0, in their order.
LEMMA Places ==
    ASSUME NEW S \in SUBSET Int, IsFiniteSet(S)
    PROVE  /\ Cardinality(S) \in Nat
           /\ \A p \in S : Place(S, p) \in 0..(Cardinality(S) - 1)
           /\ \A p, r \in S : p < r => Place(S, p) < Place(S, r)
<1>1. Cardinality(S) \in Nat
  BY FS_CardinalityType
<1>2. \A p \in S : IsFiniteSet({x \in S : x < p}) /\ Place(S, p) \in Nat
  <2> SUFFICES ASSUME NEW p \in S
               PROVE  IsFiniteSet({x \in S : x < p}) /\ Cardinality({x \in S : x < p}) \in Nat
    BY DEF Place
  <2>1. IsFiniteSet({x \in S : x < p})
    BY FS_Subset
  <2> QED
    BY <2>1, FS_CardinalityType
<1>3. ASSUME NEW p \in S, NEW T \in SUBSET S, IsFiniteSet(T), p \in T,
             \A x \in S : x < p => x \in T
      PROVE  Place(S, p) < Cardinality(T)
  <2> DEFINE U == {x \in S : x < p}
  <2>1. U \in SUBSET T /\ p \notin U
    <3>1. p \in Int
      OBVIOUS
    <3>2. ~ (p < p)
      BY <3>1
    <3> QED
      BY <1>3, <3>2
  <2>2. Cardinality(T) \in Nat /\ Cardinality(U) \in Nat
    BY <1>2, <1>3, FS_CardinalityType DEF Place
  <2> HIDE DEF U
  <2>3. Cardinality(U) <= Cardinality(T) /\ (Cardinality(T) = Cardinality(U) => T = U)
    BY <1>3, <2>1, FS_Subset
  <2>4. Cardinality(U) # Cardinality(T)
    BY <1>3, <2>1, <2>3
  <2> QED
    BY <2>2, <2>3, <2>4 DEF Place, U
<1>4. ASSUME NEW p \in S PROVE Place(S, p) \in 0..(Cardinality(S) - 1)
  <2>1. Place(S, p) < Cardinality(S)
    BY <1>3
  <2>2. Place(S, p) \in Nat
    BY <1>2
  <2> QED
    BY <1>1, <2>1, <2>2
<1>5. ASSUME NEW p \in S, NEW r \in S, p < r PROVE Place(S, p) < Place(S, r)
  <2>1. \A x \in S : x < p => x < r
    BY <1>5
  <2> QED
    BY <1>2, <1>3, <1>5, <2>1 DEF Place
<1> QED
  BY <1>1, <1>4, <1>5

\* Each place has its member, which Nth finds, and later places have greater members.
LEMMA NthInOrder ==
    ASSUME NEW S \in SUBSET Int, IsFiniteSet(S)
    PROVE  /\ \A n \in 0..(Cardinality(S) - 1) : Nth(S, n) \in S
           /\ \A p \in S : Nth(S, Place(S, p)) = p
           /\ \A m, n \in 0..(Cardinality(S) - 1) : m < n => Nth(S, m) < Nth(S, n)
<1> DEFINE c == Cardinality(S)
           T == 0..(c - 1)
           place == [p \in S |-> Place(S, p)]
<1>0. c \in Nat
  BY Places
<1>1. place \in [S -> T]
  BY Places
<1>2. \A p, r \in S : place[p] = place[r] => p = r
  <2> SUFFICES ASSUME NEW p \in S, NEW r \in S, p # r PROVE place[p] # place[r]
    OBVIOUS
  <2>1. p < r \/ r < p
    OBVIOUS
  <2>2. Place(S, p) \in 0..(c - 1) /\ Place(S, r) \in 0..(c - 1)
    BY Places
  <2> QED
    BY <2>1, <2>2, Places
<1>3. IsFiniteSet(T) /\ Cardinality(T) = c
  <2>1. c - 1 \in Int /\ (0 > c - 1 => c = 0)
    BY <1>0
  <2> QED
    BY <1>0, <2>1, FS_Interval
<1> HIDE DEF T
<1>4. place \in Injection(S, T)
  <2> HIDE DEF place
  <2> QED
    BY <1>1, <1>2 DEF Injection, IsInjective
<1>5. place \in Surjection(S, T)
  BY <1>3, <1>4, FS_Injection
<1>6. \A n \in T : \E p \in S : Place(S, p) = n
  BY <1>5 DEF Surjection
<1>7. ASSUME NEW n \in T PROVE Nth(S, n) \in S /\ Place(S, Nth(S, n)) = n
  <2>1. \E p \in S : Cardinality({x \in S : x < p}) = n
    BY <1>6 DEF Place
  <2> QED
    BY <2>1 DEF Nth, Place
<1>8. ASSUME NEW p \in S PROVE Nth(S, Place(S, p)) = p
  <2>1. Place(S, p) \in T
    BY Places DEF T
  <2> QED
    BY <1>2, <1>7, <2>1
<1>9. ASSUME NEW m \in T, NEW n \in T, m < n PROVE Nth(S, m) < Nth(S, n)
  <2>1. Nth(S, m) \in S /\ Nth(S, n) \in S /\ Place(S, Nth(S, m)) = m /\ Place(S, Nth(S, n)) = n
    BY <1>7
  <2>2. m \in Int /\ n \in Int
    BY DEF T
  <2> DEFINE a == Nth(S, m)
             b == Nth(S, n)
  <2>3. a \in S /\ b \in S /\ Place(S, a) = m /\ Place(S, b) = n /\ a \in Int /\ b \in Int
    BY <2>1
  <2> HIDE DEF a, b
  <2>4. \A p, r \in S : p < r => Place(S, p) < Place(S, r)
    BY Places
  <2>5. ~ (b < a)
    BY <1>9, <2>2, <2>3, <2>4
  <2>6. a # b
    BY <1>9, <2>2, <2>3
  <2>7. a < b
    BY <2>3, <2>5, <2>6
  <2> QED
    BY <2>7 DEF a, b
<1> QED
  BY <1>7, <1>8, <1>9 DEF T

\* Each number is on one page of a given size, and earlier pages come before it.
LEMMA Paged ==
    ASSUME NEW limit \in Nat, limit > 0
    PROVE  /\ \A k \in Nat : \E i \in 1..(k + 1), j \in 1..limit : (i - 1) * limit + j - 1 = k
           /\ \A i, k \in Nat : i < k => i * limit <= (k - 1) * limit
<1>1. ASSUME NEW k \in Nat
      PROVE  \E i \in 1..(k + 1), j \in 1..limit : (i - 1) * limit + j - 1 = k
  <2> DEFINE T == {n \in Nat : k < n * limit}
  <2>1. k + 1 \in T
    <3>1. (k + 1) * limit = k * limit + limit
      OBVIOUS
    <3>2. k * limit >= k
      <4>1. PICK d \in Nat : limit = d + 1
        <5>1. limit - 1 \in Nat
          OBVIOUS
        <5> QED
          BY <5>1
      <4>2. k * (d + 1) = k * d + k /\ k * d \in Nat
        OBVIOUS
      <4> QED
        BY <4>1, <4>2
    <3>3. k * limit \in Nat
      OBVIOUS
    <3> QED
      BY <3>1, <3>2, <3>3
  <2>2. PICK i \in T : \A n \in T : i <= n
    <3>1. T \in SUBSET Nat /\ T # {}
      BY <2>1
    <3> HIDE DEF T
    <3> QED
      BY <3>1, LeastNatural
  <2>3. i \in Nat /\ k < i * limit /\ i <= k + 1
    BY <2>1, <2>2
  <2>4. i # 0
    BY <2>3
  <2>5. i - 1 \in Nat /\ ~ (i - 1 \in T)
    BY <2>2, <2>3, <2>4
  <2>6. (i - 1) * limit \in Nat /\ (i - 1) * limit <= k
    <3>1. (i - 1) * limit \in Nat
      BY <2>5
    <3> QED
      BY <2>5, <3>1
  <2>7. i * limit = (i - 1) * limit + limit
    <3>1. PICK d \in Nat : i = d + 1 /\ i - 1 = d
      BY <2>3, <2>5
    <3>2. (d + 1) * limit = d * limit + limit
      OBVIOUS
    <3> QED
      BY <3>1, <3>2
  <2> DEFINE a == (i - 1) * limit
             j == k - a + 1
  <2>8. a \in Nat /\ a <= k /\ k < a + limit
    BY <2>3, <2>6, <2>7
  <2> HIDE DEF a
  <2>9. j \in 1..limit /\ a + j - 1 = k
    BY <2>8
  <2>10. i \in 1..(k + 1)
    BY <2>3, <2>4
  <2> QED
    BY <2>9, <2>10 DEF a
<1>2. ASSUME NEW i \in Nat, NEW k \in Nat, i < k
      PROVE  i * limit <= (k - 1) * limit
  <2>1. PICK d \in Nat : k - 1 = i + d
    <3>1. k - 1 - i \in Nat /\ k - 1 = i + (k - 1 - i)
      BY <1>2
    <3> QED
      BY <3>1
  <2>2. (i + d) * limit = i * limit + d * limit /\ d * limit \in Nat /\ i * limit \in Nat
    OBVIOUS
  <2> QED
    BY <2>1, <2>2
<1> QED
  BY <1>1, <1>2

\* What the pages of a search hold: the card at a place, and where the card of a code is.
LEMMA PagesHold ==
    ASSUME NEW published \in SUBSET Products, NEW q \in Queries, NEW limit \in 1..MaxLimit
    PROVE  LET S     == Filtered(published, q)
               pages == Leafed(published, q, limit)
               at(i, j) == (i - 1) * limit + j - 1
           IN
           /\ S \in SUBSET Int /\ IsFiniteSet(S)
           /\ DOMAIN pages \in SUBSET (Nat \ {0})
           /\ \A i \in DOMAIN pages : DOMAIN pages[i] \in SUBSET (1..limit)
           /\ \A i \in DOMAIN pages : \A j \in DOMAIN pages[i] :
                  /\ at(i, j) \in 0..(Cardinality(S) - 1)
                  /\ pages[i][j].code = Nth(S, at(i, j))
                  /\ pages[i][j].from = FromPrice(Nth(S, at(i, j)), q.channel)
                  /\ pages[i][j].available = Available(Nth(S, at(i, j)), q.channel, Variants)
           /\ \A n \in 0..(Cardinality(S) - 1) :
                  \E i \in DOMAIN pages : \E j \in DOMAIN pages[i] : at(i, j) = n
<1> DEFINE S == Filtered(published, q)
           c == Cardinality(S)
           pages == Leafed(published, q, limit)
           P == Cardinality(Products)
<1>1. limit \in Nat /\ limit > 0
  BY StorefrontAssumption
<1>2. /\ S \in SUBSET Products /\ S \in SUBSET Int /\ IsFiniteSet(S)
      /\ P \in Nat /\ c \in Nat /\ c <= P
  <2>1. S \in SUBSET Products
    BY DEF Filtered
  <2>2. IsFiniteSet(Products) /\ Products \in SUBSET Int
    BY StorefrontAssumption
  <2> HIDE DEF S
  <2> QED
    BY <2>1, <2>2, FS_Subset, FS_CardinalityType
<1>3. /\ DOMAIN pages = 1..(P + 1)
      /\ \A i \in DOMAIN pages : pages[i] = Cards(published, Variants, q, limit, (i - 1) * limit)
  BY DEF Leafed
<1>4. ASSUME NEW i \in 1..(P + 1)
      PROVE  LET offset == (i - 1) * limit IN
             /\ offset \in Nat
             /\ DOMAIN pages[i] = {n \in 1..limit : offset + n <= c}
             /\ \A j \in DOMAIN pages[i] :
                    LET p == Nth(S, offset + j - 1) IN
                    pages[i][j] = [code |-> p, from |-> FromPrice(p, q.channel),
                                   available |-> Available(p, q.channel, Variants)]
  <2>1. i - 1 \in Nat
    BY <1>2
  <2>2. (i - 1) * limit \in Nat
    BY <1>1, <2>1
  <2>3. pages[i] = Cards(published, Variants, q, limit, (i - 1) * limit)
    BY <1>3
  <2> HIDE DEF pages
  <2> QED
    BY <2>2, <2>3 DEF Cards, SearchPage
<1> HIDE DEF pages, S
<1>5. ASSUME NEW i \in DOMAIN pages, NEW j \in DOMAIN pages[i]
      PROVE  /\ j \in 1..limit /\ (i - 1) * limit + j - 1 \in 0..(c - 1)
             /\ pages[i][j].code = Nth(S, (i - 1) * limit + j - 1)
             /\ pages[i][j].from = FromPrice(Nth(S, (i - 1) * limit + j - 1), q.channel)
             /\ pages[i][j].available
                    = Available(Nth(S, (i - 1) * limit + j - 1), q.channel, Variants)
  <2> DEFINE offset == (i - 1) * limit
  <2>1. offset \in Nat /\ j \in 1..limit /\ offset + j <= c
    BY <1>3, <1>4
  <2>2. pages[i][j] = [code |-> Nth(S, offset + j - 1),
                       from |-> FromPrice(Nth(S, offset + j - 1), q.channel),
                       available |-> Available(Nth(S, offset + j - 1), q.channel, Variants)]
    BY <1>3, <1>4
  <2> HIDE DEF offset
  <2>3. offset + j - 1 \in 0..(c - 1)
    BY <1>1, <1>2, <2>1
  <2> QED
    BY <2>1, <2>2, <2>3 DEF offset
<1>6. ASSUME NEW n \in 0..(c - 1)
      PROVE  \E i \in DOMAIN pages : \E j \in DOMAIN pages[i] : (i - 1) * limit + j - 1 = n
  <2>1. n \in Nat /\ n < c
    BY <1>2
  <2>2. PICK i \in 1..(n + 1), j \in 1..limit : (i - 1) * limit + j - 1 = n
    BY <1>1, <2>1, Paged
  <2>3. i \in 1..(P + 1)
    BY <1>2, <2>1
  <2> DEFINE offset == (i - 1) * limit
  <2>4. offset \in Nat /\ DOMAIN pages[i] = {m \in 1..limit : offset + m <= c}
    BY <1>4, <2>3
  <2> HIDE DEF offset
  <2>5. offset + j - 1 = n
    BY <2>2 DEF offset
  <2>6. j \in DOMAIN pages[i]
    BY <1>1, <1>2, <2>1, <2>4, <2>5
  <2> QED
    BY <1>3, <2>2, <2>3, <2>6
<1>7. DOMAIN pages \in SUBSET (Nat \ {0})
  BY <1>2, <1>3
<1> QED
  BY <1>2, <1>5, <1>6, <1>7 DEF S, pages

LEMMA PagesAgree ==
    ASSUME ListsInv, PricesInv, NEW published \in SUBSET Products, NEW q \in Queries,
           NEW limit \in 1..MaxLimit
    PROVE  LET pages == Leafed(published, q, limit) IN
           /\ UNION {{pages[i][j].code : j \in DOMAIN pages[i]} : i \in DOMAIN pages}
                  = Expected(published, q)
           /\ InOrder(pages)
           /\ \A i \in DOMAIN pages : \A j \in DOMAIN pages[i] :
                  /\ pages[i][j].from = LowestShown(pages[i][j].code, q.channel)
                  /\ pages[i][j].available <=> pages[i][j].from # Anything
<1> DEFINE S == Filtered(published, q)
           last == Cardinality(S) - 1
           pages == Leafed(published, q, limit)
           at(i, j) == (i - 1) * limit + j - 1
           codes == UNION {{pages[i][j].code : j \in DOMAIN pages[i]} : i \in DOMAIN pages}
<1>1. /\ S \in SUBSET Int /\ IsFiniteSet(S)
      /\ DOMAIN pages \in SUBSET (Nat \ {0})
      /\ \A i \in DOMAIN pages : DOMAIN pages[i] \in SUBSET (1..limit)
      /\ \A i \in DOMAIN pages : \A j \in DOMAIN pages[i] :
             /\ at(i, j) \in 0..last
             /\ pages[i][j].code = Nth(S, at(i, j))
             /\ pages[i][j].from = FromPrice(Nth(S, at(i, j)), q.channel)
             /\ pages[i][j].available = Available(Nth(S, at(i, j)), q.channel, Variants)
      /\ \A n \in 0..last : \E i \in DOMAIN pages : \E j \in DOMAIN pages[i] : at(i, j) = n
  BY PagesHold
<1>2. S = Expected(published, q) /\ S \in SUBSET Products
  BY FilteredAsExpected DEF Filtered
<1>3. limit \in Nat /\ limit > 0
  BY StorefrontAssumption
<1> HIDE DEF S, pages
<1>4. ASSUME NEW code \in codes PROVE code \in S
  <2>1. PICK i \in DOMAIN pages : \E j \in DOMAIN pages[i] : code = pages[i][j].code
    OBVIOUS
  <2>2. PICK j \in DOMAIN pages[i] : code = pages[i][j].code
    BY <2>1
  <2>3. code = Nth(S, at(i, j)) /\ at(i, j) \in 0..last
    BY <1>1, <2>2
  <2> HIDE DEF at
  <2> QED
    BY <1>1, <2>3, NthInOrder
<1>5. ASSUME NEW code \in S PROVE code \in codes
  <2>1. Place(S, code) \in 0..last /\ Nth(S, Place(S, code)) = code
    BY <1>1, Places, NthInOrder
  <2>2. PICK i \in DOMAIN pages : \E j \in DOMAIN pages[i] : at(i, j) = Place(S, code)
    BY <1>1, <2>1
  <2>3. PICK j \in DOMAIN pages[i] : at(i, j) = Place(S, code)
    BY <2>2
  <2>4. pages[i][j].code = Nth(S, at(i, j))
    BY <1>1
  <2>5. pages[i][j].code = code
    BY <2>1, <2>3, <2>4
  <2> QED
    BY <2>5
<1>6. codes = Expected(published, q)
  BY <1>2, <1>4, <1>5
<1>7. ASSUME NEW i \in DOMAIN pages, NEW k \in DOMAIN pages,
             NEW j \in DOMAIN pages[i], NEW l \in DOMAIN pages[k], i < k \/ (i = k /\ j < l)
      PROVE  pages[i][j].code < pages[k][l].code
  <2>1. i \in Nat /\ k \in Nat /\ i > 0 /\ k > 0 /\ j \in 1..limit /\ l \in 1..limit
    BY <1>1
  <2> DEFINE a == (i - 1) * limit
             b == (k - 1) * limit
             m == i * limit
  <2>2. a \in Nat /\ b \in Nat /\ m = a + limit
    <3>1. PICK d \in Nat : i = d + 1 /\ i - 1 = d
      <4>1. i - 1 \in Nat /\ i = (i - 1) + 1
        BY <2>1
      <4> QED
        BY <4>1
    <3>2. (d + 1) * limit = d * limit + limit /\ d * limit \in Nat
      BY <1>3
    <3>3. k - 1 \in Nat
      BY <2>1
    <3>4. (k - 1) * limit \in Nat
      BY <1>3, <3>3
    <3> QED
      BY <3>1, <3>2, <3>4
  <2>3. i < k => m <= b
    BY <1>3, <2>1, Paged
  <2>4. i = k => a = b
    OBVIOUS
  <2> HIDE DEF a, b, m
  <2>5. a + j - 1 < b + l - 1
    BY <1>3, <1>7, <2>1, <2>2, <2>3, <2>4
  <2>6. at(i, j) < at(k, l)
    BY <2>5 DEF a, b
  <2>7. /\ at(i, j) \in 0..last /\ pages[i][j].code = Nth(S, at(i, j))
        /\ at(k, l) \in 0..last /\ pages[k][l].code = Nth(S, at(k, l))
    BY <1>1
  <2> HIDE DEF at
  <2> QED
    BY <1>1, <2>6, <2>7, NthInOrder
<1>8. InOrder(pages)
  BY <1>7 DEF InOrder
<1>9. ASSUME NEW i \in DOMAIN pages, NEW j \in DOMAIN pages[i]
      PROVE  /\ pages[i][j].from = LowestShown(pages[i][j].code, q.channel)
             /\ pages[i][j].available <=> pages[i][j].from # Anything
  <2>1. /\ pages[i][j].from = FromPrice(pages[i][j].code, q.channel)
        /\ pages[i][j].available = Available(pages[i][j].code, q.channel, Variants)
    BY <1>1
  <2>2. pages[i][j].code \in Products
    BY <1>2, <1>4
  <2> QED
    BY <2>1, <2>2, FromIsLowest, AvailableIsPriced
<1> HIDE DEF codes
<1> QED
  BY <1>6, <1>8, <1>9 DEF pages, codes

\* The queries behind the storefront agree in every state, with replacements in flight or not:
\* the pages of a search hold what a shopper expects, once and in the order of the codes, and
\* their cards show the lowest price of the page of each product.
THEOREM StorefrontIsSound == ListsSpec => []StorefrontSound
<1>1. ListsInit => ListsInv /\ PricesInv
  BY ListsInitInv, PricesInitInv
<1>2. ListsInv /\ PricesInv /\ [ListsNext]_listVars => ListsInv' /\ PricesInv'
  BY ListsStep, PricesStep
<1>3. ListsInv /\ PricesInv => StorefrontSound
  <2> SUFFICES ASSUME ListsInv, PricesInv PROVE QueriesAgree
    BY DEF StorefrontSound
  <2>1. \A limit \in Limits : IsWindow(limit, 0) => limit \in 1..MaxLimit
    BY DEF IsWindow
  <2> QED
    BY <2>1, PagesAgree DEF QueriesAgree
<1> QED
  BY <1>1, <1>2, <1>3, PTL DEF ListsSpec
-----------------------------------------------------------------------------
(* The catalog: values. *)

\* A value in normal form is a word, is its own normal form, and is not blank.
LEMMA NormalOfNormal ==
    ASSUME NEW definition \in AttributeRows, NEW raw \in DOMAIN Word,
           NEW v, v = NormalizeOne(definition, raw), v # Malformed
    PROVE  v \in DOMAIN Word /\ NormalizeOne(definition, v) = v /\ Word[v] # Blank
<1>1. \A w \in Words : w \in DOMAIN Word /\ Word[w] = w
  BY WordAssumption DEF Words
<1>2. Word[raw] \in Words
  BY DEF Words
<1>3. CASE definition.type = "plain_text"
  <2>1. \A x : NormalizeOne(definition, x) = NormalizeText(x)
    BY <1>3 DEF NormalizeOne
  <2> QED
    BY <1>1, <1>2, <2>1 DEF NormalizeText
<1>4. CASE definition.type = "number"
  <2>1. \A x : NormalizeOne(definition, x) = NormalizeNumber(x)
    BY <1>4 DEF NormalizeOne
  <2>2. v = Decimal[Word[raw]] /\ v \in Words \ {Blank} /\ Decimal[v] = v
    BY <1>2, <2>1, WordAssumption DEF NormalizeNumber
  <2> QED
    BY <1>1, <2>1, <2>2 DEF NormalizeNumber
<1>5. CASE definition.type = "boolean"
  <2>1. \A x : NormalizeOne(definition, x) = NormalizeBoolean(x)
    BY <1>5 DEF NormalizeOne
  <2>2. v = Lower[Word[raw]] /\ v \in {"true", "false"}
    BY <2>1 DEF NormalizeBoolean
  <2>3. v \in Words /\ Lower[v] = v /\ v # Blank
    BY <1>2, <2>2, WordAssumption
  <2> QED
    BY <1>1, <2>1, <2>2, <2>3 DEF NormalizeBoolean
<1>6. CASE definition.type = "dropdown"
  <2>1. \A x : NormalizeOne(definition, x) = NormalizeChoice(definition, x)
    BY <1>6 DEF NormalizeOne
  <2>2. v = Word[raw] /\ v \in definition.choices
    BY <2>1 DEF NormalizeChoice
  <2>3. v \in Words /\ v # Blank
    BY <1>2, <2>2 DEF AttributeRows
  <2> QED
    BY <1>1, <2>1, <2>2, <2>3 DEF NormalizeChoice
<1> QED
  BY <1>3, <1>4, <1>5, <1>6 DEF AttributeRows, InputTypes

\* Definitions of assigned attributes.
AreDefinitions(definitions) ==
    DOMAIN definitions \subseteq Codes("attribute")
        /\ \A a \in DOMAIN definitions : definitions[a] \in AttributeRows

\* Values that conform are stored in their normal form.
LEMMA NormalizedInForm ==
    ASSUME NEW definitions, AreDefinitions(definitions), NEW values \in GivenValues,
           Conform(definitions, values)
    PROVE  /\ Normalized(definitions, values) \in GivenValues
           /\ InNormalForm(definitions, Normalized(definitions, values))
<1> DEFINE stored == Normalized(definitions, values)
<1>1. ASSUME NEW a \in DOMAIN values
      PROVE  /\ a \in DOMAIN definitions /\ definitions[a] \in AttributeRows
             /\ values[a] \in DOMAIN Word
             /\ NormalizeOne(definitions[a], values[a]) # Malformed
  BY DEF Conform, AreDefinitions, GivenValues
<1>2. DOMAIN stored = DOMAIN values /\ DOMAIN values \subseteq Codes("attribute")
      /\ \A a \in DOMAIN values : stored[a] = NormalizeOne(definitions[a], values[a])
  BY DEF Normalized, GivenValues
<1>3. ASSUME NEW a \in DOMAIN values
      PROVE  /\ stored[a] \in DOMAIN Word
             /\ NormalizeOne(definitions[a], stored[a]) = stored[a]
             /\ stored[a] # Malformed
  BY <1>1, <1>2, NormalOfNormal
<1>4. stored \in [DOMAIN values -> DOMAIN Word]
  BY <1>3 DEF Normalized
<1>5. stored \in GivenValues
  BY <1>2, <1>4 DEF GivenValues
<1>6. InNormalForm(definitions, stored)
  <2> HIDE DEF stored
  <2> QED
    BY <1>1, <1>2, <1>3 DEF InNormalForm, Conform
<1> QED
  BY <1>5, <1>6

\* What is stored is not blank once it is trimmed.
LEMMA StoredNotBlank ==
    ASSUME NEW definitions, AreDefinitions(definitions), NEW values \in GivenValues,
           InNormalForm(definitions, values), NEW a \in DOMAIN values
    PROVE  Word[values[a]] # Blank
<1>1. /\ a \in DOMAIN definitions /\ definitions[a] \in AttributeRows
      /\ values[a] \in DOMAIN Word
      /\ NormalizeOne(definitions[a], values[a]) # Malformed
      /\ NormalizeOne(definitions[a], values[a]) = values[a]
  BY DEF InNormalForm, Conform, AreDefinitions, GivenValues
<1> QED
  BY <1>1, NormalOfNormal
-----------------------------------------------------------------------------
(* The catalog: tables and requests in flight. *)

\* A row that fits the rest of the catalog.
FittingRow(t, c, row) ==
    /\ row \in RowsOf(t)
    /\ t = "type" => \A a \in row.attributes \cup row.variantAttributes : Taken("attribute", a)
    /\ t = "product" =>
           /\ Taken("type", row.type)
           /\ \A g \in row.categories : Taken("category", g)
           /\ InNormalForm(DefinitionsOf(catalog["type"][row.type].attributes), row.values)
    /\ t = "variant" =>
           /\ Taken("product", row.product)
           /\ InNormalForm(DefinitionsOf(VariantAttributes(row.product)), row.values)
    /\ t = "category" => ParentKnown(c, row)

TablesOK ==
    /\ DOMAIN catalog = Tables
    /\ \A t \in Tables : \A c \in DOMAIN catalog[t] :
           c \in Codes(t) /\ FittingRow(t, c, catalog[t][c])

ImportItems == [code : Codes("product"), row : ProductRows]

Importing == [phase : {"importing"}, written : Nat, items : Seq(ImportItems)]

\* What a request in flight was checked against still holds.
FittingDesk(d) ==
    \/ d = AtRest
    \/ /\ d.phase = "checked" /\ d.table \in Tables /\ d.code \in Codes(d.table)
       /\ FittingRow(d.table, d.code, d.row)
    \/ /\ d \in Importing /\ d.written <= Len(d.items)
       /\ \A i \in DOMAIN d.items : FittingRow("product", d.items[i].code, d.items[i].row)
       /\ \A i, j \in DOMAIN d.items : d.items[i].code = d.items[j].code => i = j

DesksOK == DOMAIN desks = Staff /\ \A s \in Staff : FittingDesk(desks[s])

\* The codes that the imports in flight hold are in no table and in one import.
PendingFresh == \A s \in Staff : Pending(s) \cap DOMAIN catalog["product"] = {}

PendingApart == \A s, o \in Staff : s # o => Pending(s) \cap Pending(o) = {}

Forest ==
    \A slugs \in SUBSET DOMAIN catalog["category"] :
        slugs # {} => \E c \in slugs : catalog["category"][c] \notin slugs

CatalogInv == TablesOK /\ DesksOK /\ PendingFresh /\ PendingApart /\ Forest

\* Rows stay, and what a product's row says stays except whether it is published.
CatalogGrows ==
    /\ DOMAIN catalog' = DOMAIN catalog
    /\ \A t \in Tables : \A c \in DOMAIN catalog[t] :
           /\ c \in DOMAIN catalog'[t]
           /\ t # "product" => catalog'[t][c] = catalog[t][c]
           /\ t = "product" => /\ catalog'[t][c].type = catalog[t][c].type
                               /\ catalog'[t][c].categories = catalog[t][c].categories
                               /\ catalog'[t][c].values = catalog[t][c].values
-----------------------------------------------------------------------------
\* The attributes of a product type are defined.
LEMMA TypeDefined ==
    ASSUME TablesOK, NEW x, Taken("type", x)
    PROVE  /\ catalog["type"][x] \in TypeRows
           /\ \A a \in catalog["type"][x].attributes \cup catalog["type"][x].variantAttributes :
                  Taken("attribute", a)
BY DEF TablesOK, Tables, Taken, FittingRow, RowsOf

\* Definitions of defined attributes are definitions, and never change.
LEMMA DefinitionsKept ==
    ASSUME TablesOK, CatalogGrows, NEW codes, \A a \in codes : Taken("attribute", a)
    PROVE  DefinitionsOf(codes)' = DefinitionsOf(codes)
BY DEF CatalogGrows, DefinitionsOf, Taken, Tables

LEMMA DefinitionsTyped ==
    ASSUME TablesOK, NEW codes, \A a \in codes : Taken("attribute", a)
    PROVE  AreDefinitions(DefinitionsOf(codes))
BY DEF TablesOK, Tables, Taken, FittingRow, RowsOf, AreDefinitions, DefinitionsOf

\* The variant level of a product's type.
LEMMA VariantLevel ==
    ASSUME TablesOK, NEW p, Taken("product", p)
    PROVE  /\ Taken("type", catalog["product"][p].type)
           /\ \A a \in VariantAttributes(p) : Taken("attribute", a)
<1>1. Taken("type", catalog["product"][p].type)
  BY DEF TablesOK, Tables, Taken, FittingRow
<1> QED
  BY <1>1, TypeDefined DEF VariantAttributes

\* A row that fits goes on fitting as the catalog grows.
LEMMA FittingKept ==
    ASSUME TablesOK, CatalogGrows, NEW t \in Tables, NEW c, NEW row, FittingRow(t, c, row)
    PROVE  FittingRow(t, c, row)'
<1>1. \A u \in Tables : \A x : Taken(u, x) => Taken(u, x)'
  BY DEF CatalogGrows, Taken
<1>2. CASE t = "product"
  <2>1. Taken("type", row.type) /\ row \in RowsOf(t)
    BY <1>2 DEF FittingRow
  <2>2. catalog'["type"][row.type] = catalog["type"][row.type]
    BY <2>1 DEF CatalogGrows, Taken, Tables
  <2>3. DefinitionsOf(catalog["type"][row.type].attributes)'
            = DefinitionsOf(catalog["type"][row.type].attributes)
    <3>1. PICK codes : codes = catalog["type"][row.type].attributes
      OBVIOUS
    <3>2. DefinitionsOf(codes)' = DefinitionsOf(codes)
      BY <2>1, <3>1, TypeDefined, DefinitionsKept
    <3> QED
      BY <2>2, <3>1, <3>2 DEF DefinitionsOf
  <2> QED
    BY <1>1, <1>2, <2>1, <2>3 DEF FittingRow, Tables
<1>3. CASE t = "variant"
  <2>1. Taken("product", row.product)
    BY <1>3 DEF FittingRow
  <2>2. VariantAttributes(row.product)' = VariantAttributes(row.product)
    BY <2>1, VariantLevel DEF CatalogGrows, Taken, Tables, VariantAttributes
  <2>3. DefinitionsOf(VariantAttributes(row.product))'
            = DefinitionsOf(VariantAttributes(row.product))
    <3>1. PICK codes : codes = VariantAttributes(row.product)
      OBVIOUS
    <3>2. DefinitionsOf(codes)' = DefinitionsOf(codes)
      BY <2>1, <3>1, VariantLevel, DefinitionsKept
    <3> QED
      BY <2>2, <3>1, <3>2 DEF DefinitionsOf
  <2> QED
    BY <1>1, <1>3, <2>1, <2>3 DEF FittingRow, Tables
<1>4. CASE t \in {"attribute", "type", "category"}
  BY <1>1, <1>4 DEF FittingRow, Tables, ParentKnown
<1> QED
  BY <1>2, <1>3, <1>4 DEF Tables

LEMMA DeskKept ==
    ASSUME TablesOK, CatalogGrows, NEW d, FittingDesk(d)
    PROVE  FittingDesk(d)'
BY FittingKept DEF FittingDesk, Tables
-----------------------------------------------------------------------------
(* The catalog: steps on the tables. *)

\* What is in a table after rows were added.
LEMMA RowsAdded ==
    ASSUME TablesOK, NEW t \in Tables, NEW rows,
           catalog' = [catalog EXCEPT ![t] = WithRows(@, rows)]
    PROVE  /\ DOMAIN catalog' = DOMAIN catalog
           /\ DOMAIN catalog'[t] = DOMAIN rows \cup DOMAIN catalog[t]
           /\ \A c \in DOMAIN rows : catalog'[t][c] = rows[c]
           /\ \A c \in DOMAIN catalog[t] \ DOMAIN rows : catalog'[t][c] = catalog[t][c]
           /\ \A u \in Tables \ {t} : catalog'[u] = catalog[u]
<1>1. catalog'[t] = WithRows(catalog[t], rows) /\ DOMAIN catalog' = DOMAIN catalog
      /\ \A u \in Tables \ {t} : catalog'[u] = catalog[u]
  BY DEF TablesOK
<1>2. /\ DOMAIN WithRows(catalog[t], rows) = DOMAIN rows \cup DOMAIN catalog[t]
      /\ \A c \in DOMAIN rows : WithRows(catalog[t], rows)[c] = rows[c]
      /\ \A c \in DOMAIN catalog[t] \ DOMAIN rows :
             WithRows(catalog[t], rows)[c] = catalog[t][c]
  BY DEF WithRows
<1> QED
  BY <1>1, <1>2

\* Fresh rows that fit.
FreshRows(t, rows) ==
    /\ DOMAIN rows \cap DOMAIN catalog[t] = {}
    /\ \A c \in DOMAIN rows : c \in Codes(t) /\ FittingRow(t, c, rows[c])

\* Adding fresh rows that fit keeps every table in order.
LEMMA Extended ==
    ASSUME TablesOK, NEW t \in Tables, NEW rows, FreshRows(t, rows),
           catalog' = [catalog EXCEPT ![t] = WithRows(@, rows)]
    PROVE  CatalogGrows /\ TablesOK'
<1>1. /\ DOMAIN catalog' = DOMAIN catalog
      /\ DOMAIN catalog'[t] = DOMAIN rows \cup DOMAIN catalog[t]
      /\ \A c \in DOMAIN rows : catalog'[t][c] = rows[c]
      /\ \A c \in DOMAIN catalog[t] : catalog'[t][c] = catalog[t][c]
      /\ \A u \in Tables \ {t} : catalog'[u] = catalog[u]
  BY RowsAdded DEF FreshRows
<1>2. CatalogGrows
  BY <1>1 DEF CatalogGrows
<1>3. ASSUME NEW u \in Tables, NEW c \in DOMAIN catalog'[u]
      PROVE  c \in Codes(u) /\ FittingRow(u, c, catalog[u][c])'
  <2>1. PICK row : row = catalog'[u][c]
    OBVIOUS
  <2>2. c \in Codes(u) /\ FittingRow(u, c, row)
    BY <1>1, <2>1 DEF FreshRows, TablesOK
  <2>3. FittingRow(u, c, row)'
    BY <1>2, <2>2, FittingKept
  <2> QED
    BY <2>1, <2>2, <2>3 DEF FittingRow
<1> QED
  BY <1>1, <1>2, <1>3 DEF TablesOK

\* A new category has a parent that was there, so the categories stay a forest.
LEMMA ForestExtended ==
    ASSUME TablesOK, Forest, NEW c \in Codes("category"), ~Taken("category", c), NEW row,
           ParentKnown(c, row),
           catalog' = [catalog EXCEPT !["category"] = WithRows(@, [x \in {c} |-> row])]
    PROVE  Forest'
<1> DEFINE old == catalog["category"]
           new == catalog'["category"]
<1>1. "category" \in Tables
  BY DEF Tables
<1>2. /\ DOMAIN new = {c} \cup DOMAIN old /\ new[c] = row
      /\ \A x \in DOMAIN old : new[x] = old[x]
  <2>1. PICK rows : rows = [x \in {c} |-> row]
    OBVIOUS
  <2>2. DOMAIN rows = {c} /\ rows[c] = row
    BY <2>1
  <2>3. catalog' = [catalog EXCEPT !["category"] = WithRows(@, rows)]
    BY <2>1
  <2>4. /\ DOMAIN new = DOMAIN rows \cup DOMAIN old
        /\ \A x \in DOMAIN rows : new[x] = rows[x]
        /\ \A x \in DOMAIN old \ DOMAIN rows : new[x] = old[x]
    BY <1>1, <2>3, RowsAdded
  <2> QED
    BY <2>2, <2>4 DEF Taken
<1>3. \A x \in DOMAIN old : old[x] # c
  BY <1>1, CodeAssumption DEF TablesOK, FittingRow, ParentKnown, Taken
<1>4. ASSUME NEW slugs \in SUBSET DOMAIN new, slugs # {}
      PROVE  \E x \in slugs : new[x] \notin slugs
  <2>1. CASE slugs \ {c} = {}
    <3>1. slugs = {c} /\ row # c
      BY <1>4, <2>1 DEF ParentKnown
    <3> QED
      BY <1>2, <3>1
  <2>2. CASE slugs \ {c} # {}
    <3>1. PICK x \in slugs \ {c} : old[x] \notin slugs \ {c}
      BY <1>2, <2>2 DEF Forest
    <3> QED
      BY <1>2, <1>3, <3>1
  <2> QED
    BY <2>1, <2>2
<1> QED
  BY <1>4 DEF Forest

\* Nothing in the catalog changes.
LEMMA CatalogStill ==
    ASSUME TablesOK, UNCHANGED catalog
    PROVE  CatalogGrows /\ TablesOK'
BY DEF CatalogGrows, TablesOK, FittingRow, Taken, DefinitionsOf, VariantAttributes, ParentKnown
-----------------------------------------------------------------------------
(* The catalog: steps on the requests in flight. *)

\* The request of one member of staff changes, to one that fits.
LEMMA DeskStep ==
    ASSUME DesksOK, TablesOK, CatalogGrows, NEW s \in Staff, NEW d, FittingDesk(d)',
           desks' = [desks EXCEPT ![s] = d]
    PROVE  DesksOK'
<1>1. DOMAIN desks' = Staff /\ desks'[s] = d
      /\ \A o \in Staff \ {s} : desks'[o] = desks[o]
  BY DEF DesksOK
<1>2. ASSUME NEW o \in Staff
      PROVE  FittingDesk(desks[o])'
  <2>1. PICK e : e = desks'[o]
    OBVIOUS
  <2>2. FittingDesk(e)'
    BY <1>1, <2>1, DeskKept DEF DesksOK
  <2> QED
    BY <2>1, <2>2 DEF FittingDesk
<1> QED
  BY <1>1, <1>2 DEF DesksOK

\* The requests stay as they are.
LEMMA DesksKept ==
    ASSUME DesksOK, TablesOK, CatalogGrows, UNCHANGED desks
    PROVE  DesksOK'
<1>1. ASSUME NEW s \in Staff
      PROVE  FittingDesk(desks[s])'
  <2>1. PICK d : d = desks[s]
    OBVIOUS
  <2>2. FittingDesk(d)'
    BY <2>1, DeskKept DEF DesksOK
  <2> QED
    BY <2>1, <2>2 DEF FittingDesk
<1> QED
  BY <1>1 DEF DesksOK

\* A request at rest, or on its way to a single insert, holds no codes.
LEMMA PendingOf ==
    ASSUME DesksOK, NEW s \in Staff
    PROVE  /\ desks[s].phase # "importing" => Pending(s) = {}
           /\ desks[s] = AtRest => Pending(s) = {}
BY DEF Pending, AtRest

\* The codes of a request that writes nothing by this step stay apart from all others, when
\* the step adds no code that an import holds.
LEMMA PendingLess ==
    ASSUME PendingFresh, PendingApart, DesksOK, NEW s \in Staff, NEW d,
           desks' = [desks EXCEPT ![s] = d], Pending(s)' = {},
           \A o \in Staff \ {s} :
               Pending(o) \cap (DOMAIN catalog'["product"] \ DOMAIN catalog["product"]) = {}
    PROVE  PendingFresh' /\ PendingApart'
<1>1. \A o \in Staff \ {s} : Pending(o)' = Pending(o)
  BY DEF Pending, DesksOK
<1> QED
  BY <1>1 DEF PendingFresh, PendingApart

\* A request that leaves fits.
LEMMA LeaveStep ==
    ASSUME CatalogInv, CatalogGrows, NEW s \in Staff, Leave(s),
           \A o \in Staff \ {s} :
               Pending(o) \cap (DOMAIN catalog'["product"] \ DOMAIN catalog["product"]) = {}
    PROVE  DesksOK' /\ PendingFresh' /\ PendingApart'
<1>1. FittingDesk(AtRest)'
  BY DEF FittingDesk, AtRest
<1>2. desks' = [desks EXCEPT ![s] = AtRest]
  BY DEF Leave
<1>3. DesksOK'
  BY <1>1, <1>2, DeskStep DEF CatalogInv
<1>4. Pending(s)' = {}
  BY <1>2 DEF Pending, AtRest, CatalogInv, DesksOK
<1> QED
  BY <1>2, <1>3, <1>4, PendingLess DEF CatalogInv

\* A request that passed its checks fits.
LEMMA CheckedStep ==
    ASSUME CatalogInv, NEW s \in Staff, NEW t \in Tables, NEW code \in Codes(t), NEW row,
           FittingRow(t, code, row), Checked(s, t, code, row)
    PROVE  CatalogInv'
<1>1. PICK d : d = [phase |-> "checked", table |-> t, code |-> code, row |-> row]
  OBVIOUS
<1>2. desks' = [desks EXCEPT ![s] = d] /\ UNCHANGED catalog
  BY <1>1 DEF Checked
<1>3. CatalogGrows /\ TablesOK'
  BY <1>2, CatalogStill DEF CatalogInv
<1>4. FittingDesk(d)
  BY <1>1 DEF FittingDesk
<1>5. DesksOK'
  BY <1>2, <1>3, <1>4, DeskKept, DeskStep DEF CatalogInv
<1>6. Pending(s)' = {}
  BY <1>1, <1>2 DEF Pending, CatalogInv, DesksOK
<1>7. PendingFresh' /\ PendingApart'
  BY <1>2, <1>6, PendingLess DEF CatalogInv
<1> QED
  BY <1>2, <1>3, <1>5, <1>7 DEF CatalogInv, Forest

\* A request that leaves without writing.
LEMMA GivenUp ==
    ASSUME CatalogInv, NEW s \in Staff, Leave(s), UNCHANGED catalog
    PROVE  CatalogInv'
<1>1. CatalogGrows /\ TablesOK'
  BY CatalogStill DEF CatalogInv
<1> QED
  BY <1>1, LeaveStep DEF CatalogInv, Forest
-----------------------------------------------------------------------------
(* The catalog: actions. *)

\* The row of a product whose values conform to its type fits.
LEMMA NewProductFits ==
    ASSUME TablesOK, NEW type \in Codes("type"), NEW values \in GivenValues,
           NEW published \in BOOLEAN, NEW categories \in SUBSET Codes("category"),
           ProductValues(type, values), \A g \in categories : Taken("category", g), NEW c
    PROVE  FittingRow("product", c, NewProduct(type, values, published, categories))
<1>1. PICK row : row = NewProduct(type, values, published, categories)
  OBVIOUS
<1>2. PICK definitions : definitions = DefinitionsOf(catalog["type"][type].attributes)
  OBVIOUS
<1>3. AreDefinitions(definitions) /\ Conform(definitions, values)
  BY <1>2, TypeDefined, DefinitionsTyped DEF ProductValues
<1>4. /\ Normalized(definitions, values) \in GivenValues
      /\ InNormalForm(definitions, Normalized(definitions, values))
  BY <1>3, NormalizedInForm
<1>5. /\ row.type = type /\ row.published = published /\ row.categories = categories
      /\ row.values = Normalized(definitions, values)
      /\ row = [type |-> type, published |-> published, categories |-> categories,
                values |-> Normalized(definitions, values)]
  BY <1>1, <1>2 DEF NewProduct
<1>6. row \in ProductRows
  BY <1>4, <1>5, Zenon DEF ProductRows
<1>7. Taken("type", type)
  BY DEF ProductValues
<1>8. row \in RowsOf("product")
  BY <1>6 DEF RowsOf
<1>9. FittingRow("product", c, row)
  BY <1>2, <1>4, <1>5, <1>7, <1>8 DEF FittingRow
<1> QED
  BY <1>1, <1>9

LEMMA VariantFits ==
    ASSUME TablesOK, NEW product \in Codes("product"), NEW values \in GivenValues,
           Taken("product", product),
           Conform(DefinitionsOf(VariantAttributes(product)), values), NEW c
    PROVE  FittingRow("variant", c,
               [product |-> product,
                values |-> Normalized(DefinitionsOf(VariantAttributes(product)), values)])
<1>1. PICK definitions : definitions = DefinitionsOf(VariantAttributes(product))
  OBVIOUS
<1>2. AreDefinitions(definitions) /\ Conform(definitions, values)
  BY <1>1, VariantLevel, DefinitionsTyped
<1>3. PICK row : row = [product |-> product, values |-> Normalized(definitions, values)]
  OBVIOUS
<1>4. row.product = product /\ row.values = Normalized(definitions, values)
  BY <1>3
<1>5. row.values \in GivenValues /\ InNormalForm(definitions, row.values)
  BY <1>2, <1>4, NormalizedInForm
<1>6. row \in VariantRows
  BY <1>3, <1>4, <1>5 DEF VariantRows
<1>7. row \in RowsOf("variant")
  BY <1>6 DEF RowsOf
<1>8. FittingRow("variant", c, row)
  BY <1>1, <1>4, <1>5, <1>7 DEF FittingRow
<1> QED
  BY <1>1, <1>3, <1>8

\* The code of a spelling, unless it is malformed.
LEMMA CodeOf ==
    ASSUME NEW t \in Tables, NEW spelling \in DOMAIN Code[t], Code[t][spelling] # Malformed
    PROVE  Code[t][spelling] \in Codes(t)
BY DEF Codes

\* The endpoints that check a request of one row.
LEMMA EndpointsCheck ==
    ASSUME CatalogInv, NEW s \in Staff,
           \/ AttributeListCreateView(s) \/ ProductTypeListCreateView(s)
           \/ ProductListCreateView(s) \/ ProductVariantListCreateView(s)
           \/ CategoryListCreateView(s)
    PROVE  CatalogInv' /\ UNCHANGED catalog
<1>1. CASE AttributeListCreateView(s)
  <2> PICK spelling \in DOMAIN Code["attribute"] :
          \E definition \in Definitions[spelling] :
              CreateAttribute(s, Code["attribute"][spelling], definition)
    BY <1>1 DEF AttributeListCreateView
  <2>1. PICK definition \in Definitions[spelling] :
            CreateAttribute(s, Code["attribute"][spelling], definition)
    OBVIOUS
  <2>2. PICK code : code = Code["attribute"][spelling]
    OBVIOUS
  <2>3. Checked(s, "attribute", code, definition)
    BY <2>1, <2>2 DEF CreateAttribute
  <2>4. code \in Codes("attribute")
    BY <2>2, <2>3, CodeOf DEF Checked, Tables
  <2>5. FittingRow("attribute", code, definition)
    BY <2>1, CatalogAssumption DEF FittingRow, RowsOf
  <2> QED
    BY <2>3, <2>4, <2>5, CheckedStep DEF Checked, Tables
<1>2. CASE ProductTypeListCreateView(s)
  <2>1. PICK spelling \in DOMAIN Code["type"], template \in Templates :
            CreateProductType(s, Code["type"][spelling], template)
    BY <1>2 DEF ProductTypeListCreateView
  <2>2. PICK code : code = Code["type"][spelling]
    OBVIOUS
  <2>3. Checked(s, "type", code, template)
    BY <2>1, <2>2 DEF CreateProductType
  <2>4. code \in Codes("type")
    BY <2>2, <2>3, CodeOf DEF Checked, Tables
  <2>5. FittingRow("type", code, template)
    BY <2>1, CatalogAssumption DEF FittingRow, RowsOf, CreateProductType
  <2> QED
    BY <2>3, <2>4, <2>5, CheckedStep DEF Checked, Tables
<1>3. CASE ProductListCreateView(s)
  <2>1. PICK spelling \in DOMAIN Code["product"], type \in Codes("type"),
            values \in GivenValues : CreateProduct(s, Code["product"][spelling], type, values)
    BY <1>3 DEF ProductListCreateView
  <2>2. PICK code : code = Code["product"][spelling]
    OBVIOUS
  <2>3. PICK row : row = NewProduct(type, values, FALSE, {})
    OBVIOUS
  <2>4. ProductValues(type, values) /\ Checked(s, "product", code, row)
    BY <2>1, <2>2, <2>3 DEF CreateProduct
  <2>5. code \in Codes("product")
    BY <2>2, <2>4, CodeOf DEF Checked, Tables
  <2>6. FittingRow("product", code, row)
    BY <2>3, <2>4, NewProductFits DEF CatalogInv
  <2> QED
    BY <2>4, <2>5, <2>6, CheckedStep DEF Checked, Tables
<1>4. CASE ProductVariantListCreateView(s)
  <2>1. PICK sku \in DOMAIN Code["variant"], product \in Codes("product"),
            values \in GivenValues : CreateVariant(s, Code["variant"][sku], product, values)
    BY <1>4 DEF ProductVariantListCreateView
  <2>2. PICK code : code = Code["variant"][sku]
    OBVIOUS
  <2>3. PICK row : row = [product |-> product,
                          values |-> Normalized(DefinitionsOf(VariantAttributes(product)),
                                                values)]
    OBVIOUS
  <2>4. /\ Taken("product", product)
        /\ Conform(DefinitionsOf(VariantAttributes(product)), values)
        /\ Checked(s, "variant", code, row)
    BY <2>1, <2>2, <2>3 DEF CreateVariant
  <2>5. code \in Codes("variant")
    BY <2>2, <2>4, CodeOf DEF Checked, Tables
  <2>6. FittingRow("variant", code, row)
    BY <2>3, <2>4, VariantFits DEF CatalogInv
  <2> QED
    BY <2>4, <2>5, <2>6, CheckedStep DEF Checked, Tables
<1>5. CASE CategoryListCreateView(s)
  <2>1. PICK spelling \in DOMAIN Code["category"], parent \in CategoryRows :
            CreateCategory(s, Code["category"][spelling], parent)
    BY <1>5 DEF CategoryListCreateView
  <2>2. PICK code : code = Code["category"][spelling]
    OBVIOUS
  <2>3. ParentKnown(code, parent) /\ Checked(s, "category", code, parent)
    BY <2>1, <2>2 DEF CreateCategory
  <2>4. code \in Codes("category")
    BY <2>2, <2>3, CodeOf DEF Checked, Tables
  <2>5. FittingRow("category", code, parent)
    BY <2>3 DEF FittingRow, RowsOf
  <2> QED
    BY <2>3, <2>4, <2>5, CheckedStep DEF Checked, Tables
<1> QED
  BY <1>1, <1>2, <1>3, <1>4, <1>5

\* A request that is about to insert its row.
LEMMA AddStep ==
    ASSUME CatalogInv, NEW s \in Staff, NEW t \in Tables, Add(s, t),
           t = "product" => ~Held(s, desks[s].code)
    PROVE  CatalogInv' /\ CatalogGrows
<1> DEFINE q == desks[s]
<1>1. /\ q.phase = "checked" /\ q.table = t /\ q.code \in Codes(t)
      /\ FittingRow(t, q.code, q.row) /\ q.code \notin DOMAIN catalog[t] /\ Leave(s)
  BY DEF Add, CatalogInv, DesksOK, FittingDesk, AtRest, Importing, Taken
<1>2. PICK rows : rows = [c \in {q.code} |-> q.row]
  OBVIOUS
<1>3. DOMAIN rows = {q.code} /\ rows[q.code] = q.row
  BY <1>2
<1>4. catalog' = [catalog EXCEPT ![t] = WithRows(@, rows)]
  BY <1>2 DEF Add
<1>5. FreshRows(t, rows)
  BY <1>1, <1>3 DEF FreshRows
<1>6. CatalogGrows /\ TablesOK'
  BY <1>4, <1>5, Extended DEF CatalogInv
<1>7. /\ DOMAIN catalog'[t] = DOMAIN rows \cup DOMAIN catalog[t]
      /\ \A u \in Tables \ {t} : catalog'[u] = catalog[u]
  BY <1>4, RowsAdded DEF CatalogInv
<1>8. \A o \in Staff \ {s} :
          Pending(o) \cap (DOMAIN catalog'["product"] \ DOMAIN catalog["product"]) = {}
  BY <1>3, <1>7 DEF Held, Tables
<1>9. DesksOK' /\ PendingFresh' /\ PendingApart'
  BY <1>1, <1>6, <1>8, LeaveStep
<1>10. Forest'
  <2>1. CASE t = "category"
    BY <1>1, <1>2, <1>4, <2>1, ForestExtended DEF CatalogInv, FittingRow, Taken
  <2>2. CASE t # "category"
    BY <1>7, <2>2 DEF CatalogInv, Forest, Tables
  <2> QED
    BY <2>1, <2>2
<1> QED
  BY <1>6, <1>9, <1>10 DEF CatalogInv

\* Publishing a product changes nothing that anything else depends on.
LEMMA PublishStep ==
    ASSUME CatalogInv, ProductPublicationView
    PROVE  /\ CatalogInv' /\ CatalogGrows
           /\ \A t \in Tables : DOMAIN catalog'[t] = DOMAIN catalog[t]
<1>1. PICK code \in Codes("product"), published \in BOOLEAN :
          SetProductPublished(code, published)
  BY DEF ProductPublicationView
<1> DEFINE old == catalog["product"]
           new == catalog'["product"]
<1>2. /\ catalog' = [catalog EXCEPT !["product"][code].published = published]
      /\ code \in DOMAIN old /\ UNCHANGED desks
  BY <1>1 DEF SetProductPublished, Taken
<1>3. DOMAIN catalog = Tables /\ "product" \in Tables
  BY DEF CatalogInv, TablesOK, Tables
<1>4. /\ DOMAIN catalog' = Tables /\ \A t \in Tables \ {"product"} : catalog'[t] = catalog[t]
      /\ new = [old EXCEPT ![code].published = published]
  BY <1>2, <1>3
<1>5. DOMAIN new = DOMAIN old /\ \A c \in DOMAIN old \ {code} : new[c] = old[c]
  BY <1>4
<1>6. new[code] = [old[code] EXCEPT !.published = published]
  BY <1>2, <1>4
<1>7. old[code] \in ProductRows
  BY <1>2, <1>3 DEF CatalogInv, TablesOK, FittingRow, RowsOf
<1>8. /\ new[code] \in ProductRows /\ new[code].type = old[code].type
      /\ new[code].categories = old[code].categories /\ new[code].values = old[code].values
  BY <1>6, <1>7, Zenon DEF ProductRows
<1>9. \A t \in Tables : DOMAIN catalog'[t] = DOMAIN catalog[t]
  BY <1>4, <1>5
<1>10. CatalogGrows
  BY <1>2, <1>3, <1>4, <1>5, <1>8 DEF CatalogGrows
<1>11. ASSUME NEW t \in Tables, NEW c \in DOMAIN catalog'[t]
       PROVE  c \in Codes(t) /\ FittingRow(t, c, catalog[t][c])'
  <2>1. PICK row, was : row = catalog'[t][c] /\ was = catalog[t][c]
    OBVIOUS
  <2>2. c \in Codes(t) /\ FittingRow(t, c, was)
    BY <1>9, <1>11, <2>1 DEF CatalogInv, TablesOK
  <2>3. FittingRow(t, c, was)'
    BY <1>10, <2>2, FittingKept DEF CatalogInv
  <2>4. CASE t # "product" \/ c # code
    BY <1>4, <1>5, <2>1, <2>2, <2>3, <2>4, <1>11 DEF FittingRow
  <2>5. CASE t = "product" /\ c = code
    <3>1. /\ row \in ProductRows /\ row.type = was.type /\ row.categories = was.categories
          /\ row.values = was.values
      BY <1>8, <2>1, <2>5
    <3>2. row \in RowsOf(t)
      BY <2>5, <3>1 DEF RowsOf
    <3>3. FittingRow(t, c, row)'
      BY <2>3, <2>5, <3>1, <3>2 DEF FittingRow
    <3> QED
      BY <2>1, <2>2, <3>3 DEF FittingRow
  <2> QED
    BY <2>4, <2>5
<1>12. TablesOK'
  BY <1>4, <1>11 DEF TablesOK
<1>13. DesksOK'
  BY <1>2, <1>10, DesksKept DEF CatalogInv
<1>14. PendingFresh' /\ PendingApart'
  <2>1. \A s \in Staff : Pending(s)' = Pending(s)
    BY <1>2 DEF Pending
  <2> QED
    BY <1>5, <2>1 DEF CatalogInv, PendingFresh, PendingApart
<1>15. Forest'
  BY <1>4 DEF CatalogInv, Forest, Tables
<1> QED
  BY <1>9, <1>10, <1>12, <1>13, <1>14, <1>15 DEF CatalogInv

\* The rows that an import decodes carry values.
LEMMA DecodedTyped ==
    ASSUME NEW line \in SheetLines, NEW row, row = DecodedRow(line)
    PROVE  /\ row.code \in DOMAIN Code["product"] /\ row.type \in Codes("type")
           /\ row.published \in BOOLEAN /\ row.categories \in SUBSET Codes("category")
           /\ row.values \in GivenValues
<1>1. /\ row.code = line.code /\ row.type = line.type /\ row.published = line.published
      /\ row.categories = line.categories /\ row.values = DecodedValues(line.cells)
  BY DEF DecodedRow
<1>2. /\ line.code \in DOMAIN Code["product"] /\ line.type \in Codes("type")
      /\ line.published \in BOOLEAN /\ line.categories \in SUBSET Codes("category")
      /\ line.cells \in GivenValues
  BY Zenon DEF SheetLines
<1>3. DecodedValues(line.cells) \in GivenValues
  <2>1. PICK codes \in SUBSET Codes("attribute") : line.cells \in [codes -> DOMAIN Word]
    BY <1>2 DEF GivenValues
  <2>2. PICK given : given = {b \in codes : Word[line.cells[b]] # Blank}
    OBVIOUS
  <2>3. DecodedValues(line.cells) = [a \in given |-> line.cells[a]]
    BY <2>1, <2>2 DEF DecodedValues
  <2>4. DecodedValues(line.cells) \in [given -> DOMAIN Word]
    BY <2>1, <2>2, <2>3
  <2>5. given \in SUBSET Codes("attribute")
    BY <2>1, <2>2
  <2> QED
    BY <2>4, <2>5 DEF GivenValues
<1> QED
  BY <1>1, <1>2, <1>3, Zenon

\* A validated import holds rows that fit, each with a code of its own.
LEMMA ImportStep ==
    ASSUME CatalogInv, NEW s \in Staff, ProductImportView(s)
    PROVE  CatalogInv' /\ UNCHANGED catalog
<1>1. PICK sheet \in Sheets :
          ImportCatalogProducts(s, [i \in DOMAIN sheet |-> DecodedRow(sheet[i])])
  BY DEF ProductImportView
<1>2. PICK rows : rows = [i \in DOMAIN sheet |-> DecodedRow(sheet[i])]
  OBVIOUS
<1>3. PICK items : items = [i \in DOMAIN rows |-> ImportItem(rows[i])]
  OBVIOUS
<1>4. PICK d : d = [phase |-> "importing", written |-> 0, items |-> items]
  OBVIOUS
<1>5. ValidSheet(rows) /\ desks' = [desks EXCEPT ![s] = d] /\ UNCHANGED catalog
  BY <1>1, <1>2, <1>3, <1>4 DEF ImportCatalogProducts
<1>6. sheet \in Seq(SheetLines)
  BY CatalogAssumption
<1>7. DOMAIN rows = 1..Len(sheet) /\ DOMAIN items = 1..Len(sheet) /\ Len(sheet) \in Nat
  BY <1>2, <1>3, <1>6
<1>8. ASSUME NEW i \in 1..Len(sheet)
      PROVE  /\ items[i] \in ImportItems
             /\ FittingRow("product", items[i].code, items[i].row)
             /\ items[i].code = Code["product"][rows[i].code]
  <2>1. sheet[i] \in SheetLines /\ rows[i] = DecodedRow(sheet[i])
    BY <1>2, <1>6, <1>7
  <2>2. PICK row : row = rows[i]
    OBVIOUS
  <2>3. /\ row.code \in DOMAIN Code["product"] /\ row.type \in Codes("type")
        /\ row.published \in BOOLEAN /\ row.categories \in SUBSET Codes("category")
        /\ row.values \in GivenValues
    BY <2>1, <2>2, DecodedTyped
  <2>4. ValidRow(row)
    BY <1>5, <1>7, <2>2 DEF ValidSheet
  <2>5. PICK new : new = NewProduct(row.type, row.values, row.published, row.categories)
    OBVIOUS
  <2>6. items[i] = [code |-> Code["product"][row.code], row |-> new]
    BY <1>3, <1>7, <2>2, <2>5 DEF ImportItem
  <2>7. Code["product"][row.code] \in Codes("product")
    BY <2>3, <2>4, CodeOf DEF ValidRow, Tables
  <2>8. \A c : FittingRow("product", c, new)
    BY <2>3, <2>4, <2>5, NewProductFits DEF ValidRow, CatalogInv
  <2>9. new \in ProductRows
    BY <2>8 DEF FittingRow, RowsOf
  <2>10. items[i] \in ImportItems
    BY <2>6, <2>7, <2>9 DEF ImportItems
  <2> QED
    BY <2>2, <2>6, <2>8, <2>10
<1>9. items \in Seq(ImportItems) /\ Len(items) = Len(sheet)
  <2>1. items = [i \in 1..Len(sheet) |-> items[i]]
    BY <1>3, <1>7
  <2>2. items \in [1..Len(sheet) -> ImportItems]
    BY <1>8, <2>1
  <2> QED
    BY <1>7, <2>2
<1>10. FittingDesk(d)
  <2>1. d.phase = "importing" /\ d.written = 0 /\ d.items = items
    BY <1>4
  <2>2. d \in Importing
    BY <1>4, <1>9 DEF Importing
  <2>3. \A i, j \in DOMAIN items : items[i].code = items[j].code => i = j
    BY <1>5, <1>7, <1>8 DEF ValidSheet
  <2>4. d.written <= Len(d.items)
    BY <1>7, <1>9, <2>1
  <2> QED
    BY <1>7, <1>8, <2>1, <2>2, <2>3, <2>4 DEF FittingDesk
<1>11. CatalogGrows /\ TablesOK'
  BY <1>5, CatalogStill DEF CatalogInv
<1>12. DesksOK'
  BY <1>5, <1>10, <1>11, DeskKept, DeskStep DEF CatalogInv
<1>13. Pending(s)' = {}
  <2>1. desks'[s] = d /\ d.written = 0 /\ d.phase = "importing"
    BY <1>4, <1>5 DEF CatalogInv, DesksOK
  <2>2. 1..0 = {}
    OBVIOUS
  <2> QED
    BY <2>1, <2>2 DEF Pending
<1>14. PendingFresh' /\ PendingApart'
  BY <1>5, <1>13, PendingLess DEF CatalogInv
<1> QED
  BY <1>5, <1>11, <1>12, <1>14 DEF CatalogInv, Forest

\* An import in flight.
LEMMA ImportInFlight ==
    ASSUME CatalogInv, NEW s \in Staff, desks[s].phase = "importing"
    PROVE  /\ desks[s] \in Importing
           /\ desks[s].written \in Nat /\ desks[s].items \in Seq(ImportItems)
           /\ Len(desks[s].items) \in Nat /\ DOMAIN desks[s].items = 1..Len(desks[s].items)
           /\ desks[s].written <= Len(desks[s].items)
           /\ \A i \in DOMAIN desks[s].items :
                  FittingRow("product", desks[s].items[i].code, desks[s].items[i].row)
           /\ \A i, j \in DOMAIN desks[s].items :
                  desks[s].items[i].code = desks[s].items[j].code => i = j
<1>1. desks[s] # AtRest
  BY DEF AtRest
<1>2. FittingDesk(desks[s])
  BY DEF CatalogInv, DesksOK
<1>3. desks[s] \in Importing
  BY <1>1, <1>2 DEF FittingDesk
<1>4. desks[s].written \in Nat /\ desks[s].items \in Seq(ImportItems)
  BY <1>3 DEF Importing
<1> QED
  BY <1>1, <1>2, <1>3, <1>4 DEF FittingDesk

\* The next row waits for everyone who holds its code, so its code becomes this import's.
LEMMA ImportRowStep ==
    ASSUME CatalogInv, NEW s \in Staff, ImportRow(s)
    PROVE  CatalogInv' /\ UNCHANGED catalog
<1>1. /\ desks[s].phase = "importing" /\ desks[s].written < Len(desks[s].items)
      /\ ~Held(s, NextCode(s)) /\ ~Taken("product", NextCode(s))
      /\ desks' = [desks EXCEPT ![s].written = @ + 1] /\ UNCHANGED catalog
  BY DEF ImportRow, RowsLeft
<1>2. PICK old : old = desks[s]
  OBVIOUS
<1>3. PICK d : d = [old EXCEPT !.written = old.written + 1]
  OBVIOUS
<1>4. desks' = [desks EXCEPT ![s] = d]
  BY <1>1, <1>2, <1>3
<1>5. /\ old \in Importing /\ old.written \in Nat /\ old.items \in Seq(ImportItems)
      /\ Len(old.items) \in Nat /\ DOMAIN old.items = 1..Len(old.items)
      /\ \A i \in DOMAIN old.items :
             FittingRow("product", old.items[i].code, old.items[i].row)
      /\ \A i, j \in DOMAIN old.items : old.items[i].code = old.items[j].code => i = j
  BY <1>1, <1>2, ImportInFlight
<1>6. d.phase = "importing" /\ d.written = old.written + 1 /\ d.items = old.items
  BY <1>3, <1>5 DEF Importing
<1>7. d \in Importing
  BY <1>3, <1>5 DEF Importing
<1>8. d.written <= Len(d.items)
  BY <1>1, <1>2, <1>5, <1>6
<1>9. FittingDesk(d)
  BY <1>5, <1>6, <1>7, <1>8 DEF FittingDesk
<1>10. CatalogGrows /\ TablesOK'
  BY <1>1, CatalogStill DEF CatalogInv
<1>11. DesksOK'
  BY <1>4, <1>9, <1>10, DeskKept, DeskStep DEF CatalogInv
<1>12. desks'[s] = d /\ \A o \in Staff \ {s} : Pending(o)' = Pending(o)
  BY <1>4 DEF CatalogInv, DesksOK, Pending
<1>13. Pending(s)' = Pending(s) \cup {NextCode(s)}
  <2>1. 1..d.written = (1..old.written) \cup {old.written + 1}
    BY <1>5, <1>6
  <2>2. Pending(s) = {old.items[i].code : i \in 1..old.written}
    BY <1>1, <1>2 DEF Pending
  <2>3. Pending(s)' = {old.items[i].code : i \in 1..d.written}
    BY <1>6, <1>12 DEF Pending
  <2>4. NextCode(s) = old.items[old.written + 1].code
    BY <1>2 DEF NextCode
  <2> QED
    BY <2>1, <2>2, <2>3, <2>4
<1>14. PendingFresh' /\ PendingApart'
  BY <1>1, <1>12, <1>13 DEF CatalogInv, PendingFresh, PendingApart, Held, Taken
<1> QED
  BY <1>1, <1>10, <1>11, <1>14 DEF CatalogInv, Forest

\* The commit writes the rows of the whole sheet.
LEMMA CommitStep ==
    ASSUME CatalogInv, NEW s \in Staff, CommitImport(s)
    PROVE  /\ CatalogInv' /\ CatalogGrows
           /\ desks[s].phase = "importing"
           /\ Pending(s) = {desks[s].items[i].code : i \in DOMAIN desks[s].items}
           /\ \A t \in Tables : DOMAIN catalog'[t] \ DOMAIN catalog[t]
                                    \in {{}, IF t = "product" THEN Pending(s) ELSE {}}
<1>1. PICK items : items = desks[s].items
  OBVIOUS
<1>2. PICK rows : rows = [c \in Pending(s) |->
                             items[CHOOSE i \in DOMAIN items : items[i].code = c].row]
  OBVIOUS
<1>3. /\ desks[s].phase = "importing" /\ ~(desks[s].written < Len(items)) /\ Leave(s)
      /\ catalog' = [catalog EXCEPT !["product"] = WithRows(@, rows)]
  BY <1>1, <1>2 DEF CommitImport, RowsLeft
<1>4. /\ desks[s].written \in Nat /\ items \in Seq(ImportItems)
      /\ Len(items) \in Nat /\ DOMAIN items = 1..Len(items)
      /\ desks[s].written <= Len(items)
      /\ \A i \in DOMAIN items : FittingRow("product", items[i].code, items[i].row)
  BY <1>1, <1>3, ImportInFlight
<1>5. Pending(s) = {items[i].code : i \in DOMAIN items}
  <2>1. desks[s].written = Len(items)
    BY <1>3, <1>4
  <2> QED
    BY <1>1, <1>3, <1>4, <2>1 DEF Pending
<1>6. "product" \in Tables
  BY DEF Tables
<1>7. FreshRows("product", rows)
  <2>1. DOMAIN rows = Pending(s)
    BY <1>2
  <2>2. ASSUME NEW c \in Pending(s)
        PROVE  c \in Codes("product") /\ FittingRow("product", c, rows[c])
    <3>1. PICK i : i = CHOOSE j \in DOMAIN items : items[j].code = c
      OBVIOUS
    <3>2. i \in DOMAIN items /\ items[i].code = c
      BY <1>5, <3>1
    <3>3. rows[c] = items[i].row
      BY <1>2, <3>1
    <3>4. items[i] \in ImportItems
      BY <1>4, <3>2
    <3> QED
      BY <1>4, <3>2, <3>3, <3>4 DEF ImportItems
  <2> QED
    BY <2>1, <2>2 DEF FreshRows, CatalogInv, PendingFresh
<1>8. CatalogGrows /\ TablesOK'
  BY <1>3, <1>6, <1>7, Extended DEF CatalogInv
<1>9. /\ DOMAIN catalog'["product"] = Pending(s) \cup DOMAIN catalog["product"]
      /\ \A u \in Tables \ {"product"} : catalog'[u] = catalog[u]
  <2>1. DOMAIN rows = Pending(s)
    BY <1>2
  <2>2. /\ DOMAIN catalog'["product"] = DOMAIN rows \cup DOMAIN catalog["product"]
        /\ \A u \in Tables \ {"product"} : catalog'[u] = catalog[u]
    BY <1>3, <1>6, RowsAdded DEF CatalogInv
  <2> QED
    BY <2>1, <2>2
<1>10. DesksOK' /\ PendingFresh' /\ PendingApart'
  <2>1. \A o \in Staff \ {s} :
            Pending(o) \cap (DOMAIN catalog'["product"] \ DOMAIN catalog["product"]) = {}
    BY <1>9 DEF CatalogInv, PendingApart
  <2> QED
    BY <1>3, <1>8, <2>1, LeaveStep
<1>11. Forest'
  BY <1>9 DEF CatalogInv, Forest, Tables
<1>12. \A t \in Tables : DOMAIN catalog'[t] \ DOMAIN catalog[t]
                             \in {{}, IF t = "product" THEN Pending(s) ELSE {}}
  BY <1>9 DEF CatalogInv, PendingFresh
<1> QED
  BY <1>1, <1>3, <1>5, <1>8, <1>10, <1>11, <1>12 DEF CatalogInv
-----------------------------------------------------------------------------
(* The catalog: theorems. *)

\* The rows that a step adds: one checked row, or all the rows of one import.
AddedWhole ==
    \A t \in Tables :
        LET new == DOMAIN catalog'[t] \ DOMAIN catalog[t] IN
        new = {} \/ \E s \in Staff :
            \/ desks[s].phase = "checked" /\ new = {desks[s].code}
            \/ /\ desks[s].phase = "importing"
               /\ new = {desks[s].items[i].code : i \in DOMAIN desks[s].items}

LEMMA CatalogStepInv ==
    ASSUME CatalogInv, [CatalogNext]_catalogVars
    PROVE  CatalogInv' /\ CatalogGrows /\ AddedWhole
<1>1. UNCHANGED catalog => CatalogGrows /\ AddedWhole
  BY CatalogStill DEF CatalogInv, AddedWhole
<1>2. CASE UNCHANGED catalogVars
  <2>1. UNCHANGED catalog /\ UNCHANGED desks
    BY <1>2 DEF catalogVars
  <2>2. CatalogGrows /\ TablesOK'
    BY <2>1, CatalogStill DEF CatalogInv
  <2>3. DesksOK'
    BY <2>1, <2>2, DesksKept DEF CatalogInv
  <2>4. \A s \in Staff : Pending(s)' = Pending(s)
    BY <2>1 DEF Pending
  <2> QED
    BY <1>1, <2>1, <2>2, <2>3, <2>4 DEF CatalogInv, PendingFresh, PendingApart, Forest
<1>3. CASE ProductPublicationView
  BY <1>3, PublishStep DEF AddedWhole
<1>4. ASSUME NEW s \in Staff,
             \/ AttributeListCreateView(s) \/ ProductTypeListCreateView(s)
             \/ ProductListCreateView(s) \/ ProductVariantListCreateView(s)
             \/ CategoryListCreateView(s) \/ ProductImportView(s)
      PROVE  CatalogInv' /\ CatalogGrows /\ AddedWhole
  BY <1>1, <1>4, EndpointsCheck, ImportStep
<1>5. ASSUME NEW s \in Staff,
             \/ AddAttribute(s) \/ AddProductType(s) \/ AddProduct(s) \/ AddVariant(s)
             \/ AddCategory(s)
      PROVE  CatalogInv' /\ CatalogGrows /\ AddedWhole
  <2>1. PICK t \in Tables : Add(s, t) /\ (t = "product" => ~Held(s, desks[s].code))
    BY <1>5 DEF AddAttribute, AddProductType, AddProduct, AddVariant, AddCategory, Tables
  <2>2. CatalogInv' /\ CatalogGrows
    BY <2>1, AddStep
  <2>3. PICK rows : rows = [c \in {desks[s].code} |-> desks[s].row]
    OBVIOUS
  <2>4. /\ desks[s].phase = "checked"
        /\ catalog' = [catalog EXCEPT ![t] = WithRows(@, rows)]
    BY <2>1, <2>3 DEF Add
  <2>5. DOMAIN rows = {desks[s].code}
    BY <2>3
  <2>6. /\ DOMAIN catalog'[t] = DOMAIN rows \cup DOMAIN catalog[t]
        /\ \A u \in Tables \ {t} : catalog'[u] = catalog[u]
    BY <2>4, RowsAdded DEF CatalogInv
  <2>7. ASSUME NEW u \in Tables
        PROVE  \/ DOMAIN catalog'[u] \ DOMAIN catalog[u] = {}
               \/ DOMAIN catalog'[u] \ DOMAIN catalog[u] = {desks[s].code}
    BY <2>5, <2>6
  <2>8. AddedWhole
    BY <2>4, <2>7 DEF AddedWhole
  <2> QED
    BY <2>2, <2>8
<1>6. ASSUME NEW s \in Staff, AlreadyExists(s) \/ ImportRaceLost(s) \/ ImportDeadlocked(s)
                                  \/ CatalogCrash(s)
      PROVE  CatalogInv' /\ CatalogGrows /\ AddedWhole
  BY <1>1, <1>6, GivenUp DEF AlreadyExists, ImportRaceLost, ImportDeadlocked, CatalogCrash
<1>7. ASSUME NEW s \in Staff, ImportRow(s)
      PROVE  CatalogInv' /\ CatalogGrows /\ AddedWhole
  BY <1>1, <1>7, ImportRowStep
<1>8. ASSUME NEW s \in Staff, CommitImport(s)
      PROVE  CatalogInv' /\ CatalogGrows /\ AddedWhole
  <2>1. /\ CatalogInv' /\ CatalogGrows
        /\ desks[s].phase = "importing"
        /\ Pending(s) = {desks[s].items[i].code : i \in DOMAIN desks[s].items}
        /\ \A t \in Tables : DOMAIN catalog'[t] \ DOMAIN catalog[t]
                                 \in {{}, IF t = "product" THEN Pending(s) ELSE {}}
    BY <1>8, CommitStep
  <2>2. ASSUME NEW t \in Tables
        PROVE  \/ DOMAIN catalog'[t] \ DOMAIN catalog[t] = {}
               \/ DOMAIN catalog'[t] \ DOMAIN catalog[t] = Pending(s)
    BY <2>1
  <2>3. AddedWhole
    BY <2>1, <2>2 DEF AddedWhole
  <2> QED
    BY <2>1, <2>3
<1> QED
  BY <1>2, <1>3, <1>4, <1>5, <1>6, <1>7, <1>8 DEF CatalogNext

LEMMA CatalogInitInv == CatalogInit => CatalogInv
<1> SUFFICES ASSUME CatalogInit
             PROVE  CatalogInv
  OBVIOUS
<1>1. \A t \in Tables : DOMAIN catalog[t] = {}
  BY DEF CatalogInit
<1>2. \A s \in Staff : Pending(s) = {} /\ desks[s] = AtRest
  BY DEF CatalogInit, Pending, AtRest
<1>3. TablesOK /\ Forest
  BY <1>1 DEF CatalogInit, TablesOK, Forest, Tables
<1> QED
  BY <1>2, <1>3 DEF CatalogInit, CatalogInv, DesksOK, FittingDesk, PendingFresh, PendingApart

LEMMA CatalogInvariant == CatalogSpec => []CatalogInv
<1>1. CatalogInv /\ [CatalogNext]_catalogVars => CatalogInv'
  BY CatalogStepInv
<1> QED
  BY <1>1, CatalogInitInv, PTL DEF CatalogSpec

\* The rows of every table are rows of that table, and a code is a code of it.
THEOREM CatalogTyped == CatalogSpec => []CatalogTypeOK
<1>1. CatalogInv => CatalogTypeOK
  <2> SUFFICES ASSUME CatalogInv
               PROVE  CatalogTypeOK
    OBVIOUS
  <2>1. ASSUME NEW s \in Staff
        PROVE  desks[s].phase \in {"idle", "checked", "importing"}
    <3>1. FittingDesk(desks[s])
      BY DEF CatalogInv, DesksOK
    <3>2. desks[s] \in Importing => desks[s].phase = "importing"
      BY DEF Importing
    <3> QED
      BY <3>1, <3>2 DEF FittingDesk, AtRest
  <2> QED
    BY <2>1 DEF CatalogTypeOK, CatalogInv, TablesOK, FittingRow
<1> QED
  BY <1>1, CatalogInvariant, PTL

\* Values fit the definitions of their product type and the categories form a forest, for
\* every catalog and every number of people at work (CreateProduct and its likes check
\* against unlocked reads).
THEOREM CatalogAlwaysSound == CatalogSpec => []CatalogSound
<1>1. CatalogInv => CatalogSound
  <2> SUFFICES ASSUME CatalogInv
               PROVE  CatalogSound
    OBVIOUS
  <2>1. ASSUME NEW c \in DOMAIN catalog["product"]
        PROVE  InNormalForm(DefinitionsOf(catalog["type"][catalog["product"][c].type].attributes),
                            catalog["product"][c].values)
    BY DEF CatalogInv, TablesOK, FittingRow, Tables
  <2>2. ASSUME NEW k \in DOMAIN catalog["variant"]
        PROVE  InNormalForm(DefinitionsOf(VariantAttributes(catalog["variant"][k].product)),
                            catalog["variant"][k].values)
    BY DEF CatalogInv, TablesOK, FittingRow, Tables
  <2> QED
    BY <2>1, <2>2 DEF CatalogSound, CatalogInv, Forest, VariantAttributes
<1> QED
  BY <1>1, CatalogInvariant, PTL

\* What a step adds is one row or one whole import, and what is there stays
\* (DjangoCatalogImportWriter.create_products).
THEOREM ImportsAlwaysWhole == CatalogSpec => ImportWhole
<1>1. ASSUME CatalogInv, CatalogGrows, NEW c \in DOMAIN catalog["product"], CatalogInv'
      PROVE  [catalog'["product"][c] EXCEPT !.published = TRUE]
                 = [catalog["product"][c] EXCEPT !.published = TRUE]
  <2>1. PICK new, old : new = catalog'["product"][c] /\ old = catalog["product"][c]
    OBVIOUS
  <2>2. /\ c \in DOMAIN catalog'["product"] /\ "product" \in Tables
        /\ new.type = old.type /\ new.categories = old.categories /\ new.values = old.values
    BY <1>1, <2>1 DEF CatalogGrows, Tables
  <2>3. new \in ProductRows /\ old \in ProductRows
    BY <1>1, <2>1, <2>2 DEF CatalogInv, TablesOK, FittingRow, RowsOf
  <2>4. ASSUME NEW row \in ProductRows
        PROVE  [row EXCEPT !.published = TRUE] =
                   [type |-> row.type, published |-> TRUE, categories |-> row.categories,
                    values |-> row.values]
    <3>1. PICK e : e = [row EXCEPT !.published = TRUE]
      OBVIOUS
    <3>2. e \in ProductRows
      BY <3>1 DEF ProductRows
    <3>3. /\ e.type = row.type /\ e.published = TRUE /\ e.categories = row.categories
          /\ e.values = row.values
      BY <3>1 DEF ProductRows
    <3>4. e = [type |-> e.type, published |-> e.published, categories |-> e.categories,
               values |-> e.values]
      BY <3>2, Zenon DEF ProductRows
    <3> QED
      BY <3>1, <3>3, <3>4, Zenon
  <2>5. [new EXCEPT !.published = TRUE] = [old EXCEPT !.published = TRUE]
    <3>1. [new EXCEPT !.published = TRUE] =
              [type |-> new.type, published |-> TRUE, categories |-> new.categories,
               values |-> new.values]
      BY <2>3, <2>4
    <3>2. [old EXCEPT !.published = TRUE] =
              [type |-> old.type, published |-> TRUE, categories |-> old.categories,
               values |-> old.values]
      BY <2>3, <2>4
    <3> QED
      BY <2>2, <3>1, <3>2, Zenon
  <2> QED
    BY <2>1, <2>5
<1> DEFINE Whole ==
        \A t \in Tables :
            LET new == DOMAIN catalog'[t] \ DOMAIN catalog[t] IN
            /\ \A c \in DOMAIN catalog[t] :
                   /\ c \in DOMAIN catalog'[t]
                   /\ t = "product" => [catalog'[t][c] EXCEPT !.published = TRUE]
                                          = [catalog[t][c] EXCEPT !.published = TRUE]
                   /\ t # "product" => catalog'[t][c] = catalog[t][c]
            /\ new = {} \/ \E s \in Staff :
                   \/ desks[s].phase = "checked" /\ new = {desks[s].code}
                   \/ /\ desks[s].phase = "importing"
                      /\ new = {desks[s].items[i].code : i \in DOMAIN desks[s].items}
<1>2. CatalogInv /\ [CatalogNext]_catalogVars => Whole
  <2> SUFFICES ASSUME CatalogInv, [CatalogNext]_catalogVars
               PROVE  Whole
    OBVIOUS
  <2>1. CatalogInv' /\ CatalogGrows /\ AddedWhole
    BY CatalogStepInv
  <2> QED
    BY <1>1, <2>1 DEF AddedWhole, CatalogGrows
<1>3. CatalogInv /\ [CatalogNext]_catalogVars => [Whole]_catalogVars
  BY <1>2
<1> QED
  BY <1>3, CatalogInvariant, PTL DEF CatalogSpec, ImportWhole

\* The values decoded from an exported line are those of the product.
LEMMA ExportedValues ==
    ASSUME CatalogInv, NEW c \in DOMAIN catalog["product"], NEW values,
           values = catalog["product"][c].values
    PROVE  DecodedValues([a \in Columns |-> IF a \in DOMAIN values THEN values[a] ELSE Blank])
               = values
<1>1. PICK definitions :
          definitions = DefinitionsOf(catalog["type"][catalog["product"][c].type].attributes)
  OBVIOUS
<1>2. /\ FittingRow("product", c, catalog["product"][c])
      /\ catalog["product"][c] \in ProductRows
  BY DEF CatalogInv, TablesOK, Tables, FittingRow, RowsOf
<1>3. Taken("type", catalog["product"][c].type) /\ InNormalForm(definitions, values)
  BY <1>1, <1>2 DEF FittingRow
<1>4. AreDefinitions(definitions)
  BY <1>1, <1>3, TypeDefined, DefinitionsTyped DEF CatalogInv
<1>5. values \in GivenValues
  BY <1>2 DEF ProductRows
<1>6. \A a \in DOMAIN values : Word[values[a]] # Blank
  BY <1>3, <1>4, <1>5, StoredNotBlank
<1>7. Word[Blank] = Blank
  BY WordAssumption DEF Words
<1>8. PICK cells : cells = [a \in Columns |-> IF a \in DOMAIN values THEN values[a] ELSE Blank]
  OBVIOUS
<1>9. DOMAIN values \subseteq Columns
  BY DEF Columns
<1>10. /\ DOMAIN cells = Columns
       /\ \A a \in DOMAIN values : cells[a] = values[a]
       /\ \A a \in Columns \ DOMAIN values : cells[a] = Blank
  BY <1>8, <1>9
<1>11. {a \in DOMAIN cells : Word[cells[a]] # Blank} = DOMAIN values
  BY <1>6, <1>7, <1>9, <1>10
<1>12. DecodedValues(cells) = [a \in DOMAIN values |-> values[a]]
  BY <1>10, <1>11 DEF DecodedValues
<1>13. values = [a \in DOMAIN values |-> values[a]]
  BY <1>5 DEF GivenValues
<1> QED
  BY <1>8, <1>12, <1>13

\* Normalising the values of a product again changes nothing.
LEMMA NormalizedAgain ==
    ASSUME NEW definitions, NEW values \in GivenValues, InNormalForm(definitions, values)
    PROVE  Normalized(definitions, values) = values
<1>1. values = [a \in DOMAIN values |-> values[a]]
  BY DEF GivenValues
<1>2. \A a \in DOMAIN values : NormalizeOne(definitions[a], values[a]) = values[a]
  BY DEF InNormalForm
<1> QED
  BY <1>1, <1>2 DEF Normalized

\* What is read out of the catalog is what went in: an exported line would create the
\* product it was written from, and a condition and its counterpart split the products
\* (encode_products, decode_products, match_products).
THEOREM CatalogReadsAsWritten == CatalogSpec => []CatalogReads
<1>1. ASSUME CatalogInv
      PROVE  ExportReimports
  <2> SUFFICES ASSUME NEW c \in DOMAIN catalog["product"],
                      NEW row, row = DecodedRow(EncodedRow(c))
               PROVE  /\ Code["product"][row.code] = c
                      /\ ProductValues(row.type, row.values)
                      /\ \A g \in row.categories : Taken("category", g)
                      /\ NewProduct(row.type, row.values, row.published, row.categories)
                             = catalog["product"][c]
    BY DEF ExportReimports, ExportCatalogProducts
  <2>1. PICK was : was = catalog["product"][c]
    OBVIOUS
  <2>2. /\ c \in Codes("product") /\ was \in ProductRows /\ Taken("type", was.type)
        /\ \A g \in was.categories : Taken("category", g)
        /\ InNormalForm(DefinitionsOf(catalog["type"][was.type].attributes), was.values)
    BY <1>1, <2>1 DEF CatalogInv, TablesOK, Tables, FittingRow, RowsOf
  <2>3. PICK cells : cells = [a \in Columns |-> IF a \in DOMAIN was.values THEN was.values[a]
                                                ELSE Blank]
    OBVIOUS
  <2>4. EncodedRow(c) = [code |-> c, type |-> was.type, published |-> was.published,
                         categories |-> was.categories, cells |-> cells]
    BY <2>1, <2>3 DEF EncodedRow
  <2>5. /\ row.code = c /\ row.type = was.type /\ row.published = was.published
        /\ row.categories = was.categories /\ row.values = DecodedValues(cells)
    BY <2>4 DEF DecodedRow
  <2>6. row.values = was.values
    BY <1>1, <2>1, <2>3, <2>5, ExportedValues
  <2>7. Code["product"][row.code] = c
    BY <2>2, <2>5, CodeAssumption DEF Tables
  <2>8. ProductValues(row.type, row.values)
    BY <2>2, <2>5, <2>6 DEF ProductValues, InNormalForm
  <2>9. NewProduct(row.type, row.values, row.published, row.categories) = was
    <3>1. was.values \in GivenValues
      BY <2>2 DEF ProductRows
    <3>2. Normalized(DefinitionsOf(catalog["type"][was.type].attributes), was.values) = was.values
      BY <2>2, <3>1, NormalizedAgain
    <3>3. NewProduct(row.type, row.values, row.published, row.categories)
              = [type |-> was.type, published |-> was.published, categories |-> was.categories,
                 values |-> was.values]
      BY <2>5, <2>6, <3>2, Zenon DEF NewProduct
    <3>4. was = [type |-> was.type, published |-> was.published, categories |-> was.categories,
                 values |-> was.values]
      BY <2>2, Zenon DEF ProductRows
    <3> QED
      BY <3>3, <3>4, Zenon
  <2> QED
    BY <2>1, <2>2, <2>5, <2>7, <2>8, <2>9
<1>2. RulesPartition
  <2> SUFFICES ASSUME NEW a, NEW v, NEW is, NEW not,
                      is = [attribute |-> a, operator |-> "equals", value |-> v],
                      not = [attribute |-> a, operator |-> "not_equals", value |-> v]
               PROVE  /\ Selected({is}) \cup Selected({not}) = DOMAIN catalog["product"]
                      /\ Selected({is, not}) = {} /\ Selected({}) = {}
    BY DEF RulesPartition
  <2>1. \A values : Matches(values, is) <=> ~Matches(values, not)
    BY DEF Matches
  <2> QED
    BY <2>1 DEF Selected
<1> QED
  BY <1>1, <1>2, CatalogInvariant, PTL DEF CatalogReads
-----------------------------------------------------------------------------
(* The four together. *)

\* A behaviour of accounts, authority, the catalog and its lists is one of each of them.
THEOREM BackOfficeParts ==
    BackOfficeSpec => IdentitySpec /\ AccessSpec /\ CatalogSpec /\ ListsSpec
<1> DEFINE vars == <<identityVars, accessVars, catalogVars, listVars>>
<1>1. BackOfficeInit => IdentityInit /\ AccessInit /\ CatalogInit /\ ListsInit
  BY DEF BackOfficeInit
<1>2. [BackOfficeNext]_vars =>
          /\ [IdentityNext]_identityVars /\ [AccessNext]_accessVars
          /\ [CatalogNext]_catalogVars /\ [ListsNext]_listVars
  BY DEF BackOfficeNext, IdentityMove, AccessMove, CatalogMove, ListsMove
<1> QED
  BY <1>1, <1>2, PTL DEF BackOfficeSpec, IdentitySpec, AccessSpec, CatalogSpec, ListsSpec

\* All that is claimed of accounts, of authority, of the catalog and of what the storefront
\* reads out of it holds of them together.
THEOREM BackOfficeSafe ==
    BackOfficeSpec =>
        /\ [](/\ BackOfficeTypeOK /\ MissesBounded /\ OldSessionsBounded
              /\ CatalogSound /\ CatalogReads /\ StorefrontSound)
        /\ CredentialsKept /\ WritesAuthorized /\ ImportWhole /\ ListsWhole
<1>1. IdentityTypeOK /\ AccessTypeOK /\ CatalogTypeOK /\ ListsTypeOK => BackOfficeTypeOK
  BY DEF BackOfficeTypeOK
<1> QED
  BY <1>1, BackOfficeParts, AccountsTyped, MissesAreBounded, OldSessionsAreBounded,
     CredentialsAlwaysKept, AuthorityTyped, WritesAreAuthorized, CatalogTyped,
     CatalogAlwaysSound, CatalogReadsAsWritten, ImportsAlwaysWhole, ListsTyped,
     ListsAlwaysWhole, StorefrontIsSound, PTL
=============================================================================
