--------------------------------- MODULE Access ---------------------------------
(***************************************************************************)
(* Two-layer access control and what it guards: the selling channels and   *)
(* the stock sources.  A permission is held globally, through a role, or   *)
(* for one object, through a grant.  A request checks the permission of    *)
(* its actor first and writes later, with other requests in between.       *)
(*                                                                         *)
(* Nothing in the code takes a role, a grant or a permission back, so a    *)
(* check that was right stays right.  Everybody has an account.  A source  *)
(* keeps one number for its stock.                                         *)
(***************************************************************************)
EXTENDS FiniteSets, TLC

CONSTANTS People,
          Superusers,   \* those who hold every permission
          Subjects,     \* bound of the exploration: those who are given authority
          Roles,        \* the registry's roles that are explored
          Shops,        \* slugs of channels
          Currencies,
          Warehouses,   \* codes of stock sources
          DefaultSource,\* the source of the catalog's single count ("main")
          Levels,       \* stock levels that requests set
          Acts          \* requests in flight together

\* build_default_registry: the permissions of each role.
RolePermissions ==
    [channel_admin   |-> {"manage_channel"}, access_admin |-> {"manage_access"},
     catalog_admin   |-> {"manage_catalog"}, order_admin  |-> {"manage_orders"},
     inventory_admin |-> {"manage_stock_source"}]

Permissions == UNION {RolePermissions[r] : r \in DOMAIN RolePermissions}

ASSUME AccessAssumption ==
    /\ Superusers \cup Subjects \subseteq People
    /\ Roles \subseteq DOMAIN RolePermissions
    /\ DefaultSource \in Warehouses

VARIABLES groups,       \* roles that have their group
          carried,      \* role -> permissions of its group
          memberships,  \* person -> roles
          grants,       \* <<person, permission, object>>
          shops,        \* slug -> channel, for those created
          warehouses,   \* code -> stock, for those created
          acts          \* request -> what it is doing

accessVars == <<groups, carried, memberships, grants, shops, warehouses, acts>>

ChannelRows == [currency : Currencies, active : BOOLEAN]

NoAct == [op |-> "none"]

\* Requests whose actor was found to have the permission they need.
PermittedActs ==
    [op : {"assign_role"}, actor : People, subject : People, on : Roles]
      \cup [op : {"grant_channel"}, actor : People, subject : People, on : Shops]
      \cup [op : {"grant_source"}, actor : People, subject : People, on : Warehouses]
      \cup [op : {"create_channel", "insert_channel"}, actor : People, on : Shops,
            row : ChannelRows]
      \cup [op : {"set_status"}, actor : People, on : Shops, active : BOOLEAN]
      \cup [op : {"update_channel"}, actor : People, on : Shops, row : ChannelRows]
      \cup [op : {"create_source"}, actor : People, on : Warehouses]
      \cup [op : {"set_stock"}, actor : People, on : Warehouses, level : Levels]
      \cup [op : {"set_variant_stock"}, actor : People, level : Levels]

AccessTypeOK ==
    /\ groups \subseteq Roles
    /\ carried \in [Roles -> SUBSET Permissions]
    /\ memberships \in [People -> SUBSET Roles]
    /\ grants \subseteq People \X Permissions \X (Shops \cup Warehouses)
    /\ DOMAIN shops \subseteq Shops /\ \A c \in DOMAIN shops : shops[c] \in ChannelRows
    /\ DOMAIN warehouses \subseteq Warehouses
    /\ \A s \in DOMAIN warehouses : warehouses[s] \in Levels \cup {0}
    /\ acts \in [Acts -> PermittedActs \cup {NoAct}]

AccessInit ==
    /\ groups = {}
    /\ carried = [r \in Roles |-> {}]
    /\ memberships = [u \in People |-> {}]
    /\ grants = {}
    /\ shops = <<>>
    /\ warehouses = <<>>
    /\ acts = [a \in Acts |-> NoAct]
-----------------------------------------------------------------------------
(* The role layer. *)

\* sync_access_control, role by role, on every deployment: the group first ...
CreateGroup(r) ==
    /\ groups' = groups \cup {r}
    /\ UNCHANGED <<carried, memberships, grants, shops, warehouses, acts>>

\* ... then its permissions, set to the registry's.
SyncPermissions(r) ==
    /\ r \in groups
    /\ carried' = [carried EXCEPT ![r] = RolePermissions[r]]
    /\ UNCHANGED <<groups, memberships, grants, shops, warehouses, acts>>

\* has_perm without an object.
HasGlobal(u, permission) ==
    u \in Superusers \/ \E r \in memberships[u] : permission \in carried[r]

AccessAdminPermission(u) == HasGlobal(u, "manage_access")

GlobalChannelManagePermission(u) == HasGlobal(u, "manage_channel")

GlobalStockSourceManagePermission(u) == HasGlobal(u, "manage_stock_source")

GlobalCatalogManagePermission(u) == HasGlobal(u, "manage_catalog")

\* GuardianAccessControl: globally, or through a grant for this very object.
CanManageChannel(u, c) ==
    \/ HasGlobal(u, "manage_channel")
    \/ <<u, "manage_channel", c>> \in grants

CanManageStockSource(u, s) ==
    \/ HasGlobal(u, "manage_stock_source")
    \/ <<u, "manage_stock_source", s>> \in grants

ScopedChannelManagePermission(u, c) == CanManageChannel(u, c)

\* Mutant of ScopedStockSourceManagePermission: a grant for some source serves for any.
AnyStockSourceManagePermission(u, s) == \E o \in Warehouses : CanManageStockSource(u, o)

ScopedStockSourceManagePermission(u, s) == CanManageStockSource(u, s)
-----------------------------------------------------------------------------
(* Requests: the permission is checked, then the use case runs. *)

Permit(a, act) ==
    /\ acts[a] = NoAct
    /\ acts' = [acts EXCEPT ![a] = act]
    /\ UNCHANGED <<groups, carried, memberships, grants, shops, warehouses>>

\* The request is answered: done, refused, or its worker died.
Close(a) == acts' = [acts EXCEPT ![a] = NoAct]

Refused(a) ==
    /\ acts[a] # NoAct
    /\ Close(a)
    /\ UNCHANGED <<groups, carried, memberships, grants, shops, warehouses>>

RoleAssignmentView(a, u, subject, r) ==
    /\ AccessAdminPermission(u)
    /\ Permit(a, [op |-> "assign_role", actor |-> u, subject |-> subject, on |-> r])

AssignRole(a) ==
    LET q == acts[a] IN
    /\ q.op = "assign_role"
    /\ q.on \in groups
    /\ memberships' = [memberships EXCEPT ![q.subject] = @ \cup {q.on}]
    /\ Close(a)
    /\ UNCHANGED <<groups, carried, grants, shops, warehouses>>

ChannelGrantView(a, u, subject, c) ==
    /\ AccessAdminPermission(u)
    /\ Permit(a, [op |-> "grant_channel", actor |-> u, subject |-> subject, on |-> c])

GrantChannelManagement(a) ==
    LET q == acts[a] IN
    /\ q.op = "grant_channel"
    /\ q.on \in DOMAIN shops
    /\ grants' = grants \cup {<<q.subject, "manage_channel", q.on>>}
    /\ Close(a)
    /\ UNCHANGED <<groups, carried, memberships, shops, warehouses>>

StockSourceGrantView(a, u, subject, s) ==
    /\ AccessAdminPermission(u)
    /\ Permit(a, [op |-> "grant_source", actor |-> u, subject |-> subject, on |-> s])

GrantStockSourceManagement(a) ==
    LET q == acts[a] IN
    /\ q.op = "grant_source"
    /\ q.on \in DOMAIN warehouses
    /\ grants' = grants \cup {<<q.subject, "manage_stock_source", q.on>>}
    /\ Close(a)
    /\ UNCHANGED <<groups, carried, memberships, shops, warehouses>>
-----------------------------------------------------------------------------
(* Channels. *)

ChannelListCreateView(a, u, c, row) ==
    /\ GlobalChannelManagePermission(u)
    /\ Permit(a, [op |-> "create_channel", actor |-> u, on |-> c, row |-> row])

\* The check for a clean error ...
CreateChannel(a) ==
    LET q == acts[a] IN
    /\ q.op = "create_channel"
    /\ q.on \notin DOMAIN shops
    /\ acts' = [acts EXCEPT ![a].op = "insert_channel"]
    /\ UNCHANGED <<groups, carried, memberships, grants, shops, warehouses>>

\* ... and the insert, which the unique slug guards.
InsertChannel(a) ==
    LET q == acts[a] IN
    /\ q.op = "insert_channel"
    /\ q.on \notin DOMAIN shops
    /\ shops' = [c \in DOMAIN shops \cup {q.on} |-> IF c = q.on THEN q.row ELSE shops[c]]
    /\ Close(a)
    /\ UNCHANGED <<groups, carried, memberships, grants, warehouses>>

\* The channel is resolved before the permission on it is checked.
ChannelDetailView(a, u, c, active) ==
    /\ c \in DOMAIN shops
    /\ ScopedChannelManagePermission(u, c)
    /\ Permit(a, [op |-> "set_status", actor |-> u, on |-> c, active |-> active])

\* SetChannelStatus reads the channel, without a lock; a status it has already is
\* answered at once (Refused) ...
SetChannelStatus(a) ==
    LET q == acts[a] IN
    /\ q.op = "set_status"
    /\ shops[q.on].active # q.active
    /\ acts' = [acts EXCEPT ![a] = [op |-> "update_channel", actor |-> q.actor, on |-> q.on,
                                    row |-> [shops[q.on] EXCEPT !.active = q.active]]]
    /\ UNCHANGED <<groups, carried, memberships, grants, shops, warehouses>>

\* ... and the whole entity that was read is written back, under the lock of its row.
UpdateChannel(a) ==
    LET q == acts[a] IN
    /\ q.op = "update_channel"
    /\ shops' = [shops EXCEPT ![q.on] = q.row]
    /\ Close(a)
    /\ UNCHANGED <<groups, carried, memberships, grants, warehouses>>
-----------------------------------------------------------------------------
(* Stock sources. *)

StockSourceListCreateView(a, u, s) ==
    /\ GlobalStockSourceManagePermission(u)
    /\ Permit(a, [op |-> "create_source", actor |-> u, on |-> s])

CreateStockSource(a) ==
    LET q == acts[a] IN
    /\ q.op = "create_source"
    /\ q.on \notin DOMAIN warehouses
    /\ warehouses' = [s \in DOMAIN warehouses \cup {q.on} |-> IF s = q.on THEN 0 ELSE warehouses[s]]
    /\ Close(a)
    /\ UNCHANGED <<groups, carried, memberships, grants, shops>>

SourceStockView(a, u, s, level) ==
    /\ s \in DOMAIN warehouses
    /\ ScopedStockSourceManagePermission(u, s)
    /\ Permit(a, [op |-> "set_stock", actor |-> u, on |-> s, level |-> level])

SetSourceStock(a) ==
    LET q == acts[a] IN
    /\ q.op = "set_stock"
    /\ warehouses' = [warehouses EXCEPT ![q.on] = q.level]
    /\ Close(a)
    /\ UNCHANGED <<groups, carried, memberships, grants, shops>>

\* The catalog's own way to the stock, for those who manage the catalog.
VariantStockView(a, u, level) ==
    /\ GlobalCatalogManagePermission(u)
    /\ Permit(a, [op |-> "set_variant_stock", actor |-> u, level |-> level])

\* One transaction: the default source is created if there is none, and its count is set
\* or adjusted.
SetVariantStock(a) ==
    LET q == acts[a] IN
    /\ q.op = "set_variant_stock"
    /\ warehouses' = [s \in DOMAIN warehouses \cup {DefaultSource} |->
                          IF s = DefaultSource THEN q.level ELSE warehouses[s]]
    /\ Close(a)
    /\ UNCHANGED <<groups, carried, memberships, grants, shops>>

AccessNext ==
    \/ \E r \in Roles : CreateGroup(r) \/ SyncPermissions(r)
    \/ \E a \in Acts :
           \/ \E u \in People :
                  \/ \E subject \in Subjects :
                         \/ \E r \in Roles : RoleAssignmentView(a, u, subject, r)
                         \/ \E c \in Shops : ChannelGrantView(a, u, subject, c)
                         \/ \E s \in Warehouses : StockSourceGrantView(a, u, subject, s)
                  \/ \E c \in Shops, row \in ChannelRows : ChannelListCreateView(a, u, c, row)
                  \/ \E c \in Shops, active \in BOOLEAN : ChannelDetailView(a, u, c, active)
                  \/ \E s \in Warehouses : StockSourceListCreateView(a, u, s)
                  \/ \E s \in Warehouses, level \in Levels : SourceStockView(a, u, s, level)
                  \/ \E level \in Levels : VariantStockView(a, u, level)
           \/ AssignRole(a) \/ GrantChannelManagement(a) \/ GrantStockSourceManagement(a)
           \/ CreateChannel(a) \/ InsertChannel(a) \/ SetChannelStatus(a) \/ UpdateChannel(a)
           \/ CreateStockSource(a) \/ SetSourceStock(a) \/ SetVariantStock(a) \/ Refused(a)

AccessSpec == AccessInit /\ [][AccessNext]_accessVars
-----------------------------------------------------------------------------
\* The actor of a request that this step closes.
By(u) == \E a \in Acts : acts[a] # NoAct /\ acts'[a] = NoAct /\ acts[a].actor = u

\* Who may create a source, and who may change its stock: those who manage sources, or this
\* source, and, for the default source only, those who manage the catalog.
MayCreateSource(u, s) ==
    \/ GlobalStockSourceManagePermission(u)
    \/ s = DefaultSource /\ GlobalCatalogManagePermission(u)

MayWriteStock(u, s) ==
    \/ CanManageStockSource(u, s)
    \/ s = DefaultSource /\ GlobalCatalogManagePermission(u)

\* Nobody's authority, no channel and no stock changes but at the request of someone who
\* holds the permission for that very object: a grant for one channel or source opens no
\* other, a role opens what the registry gives it, and the catalog's own stock endpoint
\* reaches the default source and no other, whatever requests are in flight between the
\* check and the write (the permission classes, GuardianAccessControl, DjangoStockRepository).
AuthorizedStep ==
    /\ memberships' # memberships \/ grants' # grants =>
           \E u \in People : By(u) /\ AccessAdminPermission(u)
    /\ \A c \in Shops :
           /\ c \in DOMAIN shops' \ DOMAIN shops =>
                  \E u \in People : By(u) /\ GlobalChannelManagePermission(u)
           /\ c \in DOMAIN shops /\ shops'[c] # shops[c] =>
                  \E u \in People : By(u) /\ CanManageChannel(u, c)
    /\ \A s \in Warehouses :
           /\ s \in DOMAIN warehouses' \ DOMAIN warehouses =>
                  \E u \in People : By(u) /\ MayCreateSource(u, s)
           /\ s \in DOMAIN warehouses /\ warehouses'[s] # warehouses[s] =>
                  \E u \in People : By(u) /\ MayWriteStock(u, s)

WritesAuthorized == [][AuthorizedStep]_accessVars
=============================================================================
