----------------------------- MODULE Membership -----------------------------
(***************************************************************************)
(* Who belongs to which tenant with which role, and who is a platform      *)
(* administrator: the start of the app, which seeds the first user, tenant *)
(* and owner and translates the role names of old releases, and then the   *)
(* requests of administrators.  A request has got the roles of its actor   *)
(* from RequireAuth, and keeps them; what it checks of the target it reads *)
(* one statement after the other, and then writes.  One step is one        *)
(* statement.                                                              *)
(***************************************************************************)
EXTENDS Absent, Policy, Integers, FiniteSets

CONSTANTS
  User, Tenant,
  AdminRequest, \* bound: the requests that are made
  Root, Home,   \* the user and the tenant that the configuration names
  Rank,         \* the order of tenants, by id and by name
  Slug,         \* the slug that a tenant would have
  OldRole,      \* bound: the roles in memberships of an old database
  FormRole,     \* bound: the tenant roles in forms
  MaxRows       \* bound: rows that a user's membership in a tenant gets

Member == User \X Tenant

\* A row of membership_records.  Its id is new for its user and tenant.
MemberRow == [id : 1..MaxRows, role : TenantRole \cup LegacyTenantRole]

\* What the start of the app does next.
Boot == {"users", "tenant", "root", "owner", "list", "translate", "serving"}

\* What a request does next.
RequestStep ==
  {"new", "done", "page", "assign", "target", "existing", "last", "lastOf", "form", "id", "upsert",
   "delete", "create", "tenant", "confirm", "manage", "role", "write"}

\* Who makes a request, and what it is to do.
Actor == [user : User, tenant : Tenant, platform : PlatformRole, role : TenantRole]
Form == [user : User, tenant : Tenant, role : PlatformRole \cup TenantRole]

ASSUME MembershipAssumption ==
  /\ Root \in User /\ Home \in Tenant
  /\ Rank \in [Tenant -> Nat] /\ \A t, q \in Tenant : Rank[t] = Rank[q] => t = q
  /\ DOMAIN Slug = Tenant
  /\ OldRole \subseteq TenantRole \cup LegacyTenantRole
  /\ FormRole \subseteq TenantRole
  /\ MaxRows \in Nat \ {0}
  /\ None \notin User \cup MemberRow \cup PlatformRole \cup Actor \cup Form
  /\ User \cap Boot = {}

VARIABLES
  role,       \* user_records: the platform role, None without a row
  members,    \* membership_records
  tenants,    \* the tenants that are there
  rowIds,     \* the ids that memberships have had
  boot,       \* what the start of the app does next, the user whose memberships
              \* it translates, or "serving"
  todo,       \* the users it still has to translate
  at,         \* what a request does next
  actor,      \* who it is from: user, current tenant, platform and tenant role
  form,       \* the member it is about, and the role it is to give
  seen,       \* the platform role of the target it has read
  rowId,      \* the id of the row it has read, or 0
  granted,    \* history: the platform role that was given to a user
  owned,      \* history: tenants that have had an owner
  sure,       \* history: requests that found another owner beside the row they
              \* had read, when none has been taken away since
  faults      \* history: "blind" when a request that was not sure took an owner
              \* away, "restored" when a user was written back with an older role

tables == <<role, members, tenants, rowIds>>
start == <<boot, todo>>
request == <<at, actor, form, seen, rowId>>
memberNotes == <<granted, owned, sure, faults>>
memberVars == <<tables, start, request, memberNotes>>

\* What each role stands for after the start of the app.
FirstPlatformRole(u) == \* Mutant: an earlier translation is not kept.
  LET legacy == {t \in Tenant : /\ members[u, t] # None
                                /\ PlatformRoleOf(members[u, t].role) # ""}
  IN IF legacy = {} THEN "" ELSE PlatformRoleOf(members[u, CHOOSE t \in legacy : TRUE].role)

DesiredPlatformRole(u) ==
  LET legacy == {t \in Tenant : /\ members[u, t] # None
                                /\ PlatformRoleOf(members[u, t].role) # ""}
      first == CHOOSE t \in legacy : \A q \in legacy : Rank[t] <= Rank[q]
  IN CASE role[u] # "" -> role[u]
       [] role[u] = "" /\ legacy = {} -> ""
       [] OTHER -> PlatformRoleOf(members[u, first].role)

Owners(t, rs) == {u \in User : /\ rs[u, t] # None
                               /\ normalizeTenantRole(rs[u, t].role) = "tenant_owner"}

\* An empty database, or one of an old release.
MembershipInit ==
  /\ role \in [User -> {None, ""}]
  /\ tenants \in SUBSET Tenant
  /\ members \in [Member -> {None} \cup [id : {1}, role : OldRole]]
  /\ \A m \in Member : members[m] # None => role[m[1]] # None /\ m[2] \in tenants
  /\ rowIds = [m \in Member |-> IF members[m] = None THEN 0 ELSE 1]
  /\ boot = "users" /\ todo = {}
  /\ at = [r \in AdminRequest |-> "new"] /\ actor = [r \in AdminRequest |-> None]
  /\ form = [r \in AdminRequest |-> None] /\ seen = [r \in AdminRequest |-> None]
  /\ rowId = [r \in AdminRequest |-> 0]
  /\ granted = [u \in User |-> IF role[u] = None THEN None ELSE DesiredPlatformRole(u)]
  /\ owned = {t \in Tenant : Owners(t, members) # {}}
  /\ sure = {} /\ faults = {}

-----------------------------------------------------------------------------
(* What a write does, and what it is remembered for *)

Upserted(m, newRole, id) == [members EXCEPT ![m] =
  IF @ = None THEN [id |-> id, role |-> newRole] ELSE [@ EXCEPT !.role = newRole]]

\* The table becomes rs, by a request or by the start of the app.
WriteMembers(rs, writers) ==
  LET robbed == {t \in Tenant : Owners(t, members) \ Owners(t, rs) # {}}
  IN /\ members' = rs
     /\ rowIds' = [m \in Member |-> IF rs[m] # None /\ rs[m].id > rowIds[m]
                                  THEN rs[m].id ELSE rowIds[m]]
     /\ owned' = owned \cup {t \in Tenant : Owners(t, rs) # {}}
     /\ sure' = {r \in sure : r \notin writers /\ form[r].tenant \notin robbed}
     /\ faults' = IF robbed # {} /\ ~ writers \subseteq sure
                  THEN faults \cup {"blind"} ELSE faults

Become(r, step) == at' = [at EXCEPT ![r] = step]
Over(r) ==
  /\ Become(r, "done")
  /\ actor' = [actor EXCEPT ![r] = None]
  /\ form' = [form EXCEPT ![r] = None]
  /\ seen' = [seen EXCEPT ![r] = None]
  /\ rowId' = [rowId EXCEPT ![r] = 0]

-----------------------------------------------------------------------------
(* The start of the app *)

\* The first start stores the first user.
SeedUser ==
  /\ boot = "users" /\ boot' = "tenant"
  /\ IF \A u \in User : role[u] = None
     THEN /\ role' = [role EXCEPT ![Root] = "platform_super_admin"]
          /\ granted' = [granted EXCEPT ![Root] = "platform_super_admin"]
     ELSE UNCHANGED <<role, granted>>
  /\ UNCHANGED <<members, tenants, rowIds, todo, request, owned, sure, faults>>

ensureBootstrapTenant ==
  /\ boot = "tenant" /\ boot' = "root"
  /\ tenants' = tenants \cup {Home}
  /\ UNCHANGED <<role, members, rowIds, todo, request, memberNotes>>

\* ensureBootstrapAdminMembership: the first user, unless there is none, is a
\* super administrator again, ...
RestoreRoot ==
  /\ boot = "root"
  /\ IF role[Root] = None
     THEN boot' = "list" /\ UNCHANGED <<role, granted>>
     ELSE /\ boot' = "owner"
          /\ role' = [role EXCEPT ![Root] = "platform_super_admin"]
          /\ granted' = [granted EXCEPT ![Root] = "platform_super_admin"]
  /\ UNCHANGED <<members, tenants, rowIds, todo, request, owned, sure, faults>>

\* ... and an owner of the first tenant.
RestoreOwner ==
  /\ boot = "owner" /\ boot' = "list"
  /\ members[Root, Home] # None \/ rowIds[Root, Home] < MaxRows
  /\ WriteMembers(Upserted(<<Root, Home>>, "tenant_owner", rowIds[Root, Home] + 1), {})
  /\ UNCHANGED <<role, tenants, todo, request, granted>>

\* migrateLegacyAuthorization: of every user first the platform role that its
\* memberships stand for, ...
ListUsers ==
  /\ boot = "list" /\ boot' = "translate"
  /\ todo' = {u \in User : role[u] # None}
  /\ UNCHANGED <<tables, request, memberNotes>>

TranslateUser(u) ==
  /\ boot = "translate" /\ u \in todo
  /\ boot' = u
  /\ role' = [role EXCEPT ![u] = DesiredPlatformRole(u)]
  /\ UNCHANGED <<members, tenants, rowIds, todo, request, memberNotes>>

\* ... then the memberships themselves.
TranslateMember(u, t) ==
  /\ boot = u /\ members[u, t] # None /\ members[u, t].role \notin TenantRole
  /\ WriteMembers(Upserted(<<u, t>>, normalizeTenantRole(members[u, t].role), rowIds[u, t]), {})
  /\ UNCHANGED <<role, tenants, start, request, granted>>

NextUser(u) ==
  /\ boot = u
  /\ \A t \in Tenant : members[u, t] # None => members[u, t].role \in TenantRole
  /\ todo' = todo \ {u} /\ boot' = "translate"
  /\ UNCHANGED <<tables, request, memberNotes>>

Serve ==
  /\ boot = "translate" /\ todo = {}
  /\ boot' = "serving"
  /\ UNCHANGED <<tables, todo, request, memberNotes>>

\* The process ends, and the container is started again.
Restart ==
  /\ boot # "users"
  /\ boot' = "users" /\ todo' = {}
  /\ at' = [r \in AdminRequest |-> IF at[r] = "new" THEN "new" ELSE "done"]
  /\ actor' = [r \in AdminRequest |-> None]
  /\ form' = [r \in AdminRequest |-> None] /\ seen' = [r \in AdminRequest |-> None]
  /\ rowId' = [r \in AdminRequest |-> 0]
  /\ sure' = {}
  /\ UNCHANGED <<tables, granted, owned, faults>>

-----------------------------------------------------------------------------
(* Requests *)

\* RequireAuth has found the session of u in t.
Admit(r, u, t) ==
  /\ boot = "serving" /\ at[r] = "new"
  /\ role[u] # None /\ members[u, t] # None
  /\ actor' = [actor EXCEPT ![r] = [user |-> u, tenant |-> t, platform |-> role[u],
                                    role |-> members[u, t].role]]
  /\ Become(r, "page")
  /\ UNCHANGED <<tables, start, form, seen, rowId, memberNotes>>

\* A request ends early: refused, failed or cut off.
Abandon(r) ==
  /\ at[r] \notin {"new", "done"}
  /\ Over(r)
  /\ sure' = sure \ {r}
  /\ UNCHANGED <<tables, start, granted, owned, faults>>

AdminsUsers(r) ==
  at[r] = "page" /\ canAdminUsers(actor[r].platform, actor[r].role)

Fill(r, step, m, to, platform) ==
  /\ form' = [form EXCEPT ![r] = [user |-> m[1], tenant |-> m[2], role |-> to]]
  /\ seen' = [seen EXCEPT ![r] = platform]
  /\ Become(r, step)

\* AdminUpsertMembership: GetUser of the target.
UpsertForm(r, u, t, to) ==
  /\ AdminsUsers(r) /\ role[u] # None /\ t \in tenants
  /\ Fill(r, "assign", <<u, t>>, to, role[u])
  /\ UNCHANGED <<tables, start, actor, rowId, memberNotes>>

\* AdminDeleteMembership: the row, found in the list of all, ...
DeleteForm(r, u, t) ==
  /\ AdminsUsers(r) /\ members[u, t] # None
  /\ canManagePlatform(actor[r].platform) \/ t = actor[r].tenant
  /\ u # actor[r].user \/ t # actor[r].tenant
  /\ Fill(r, "target", <<u, t>>, members[u, t].role, None)
  /\ rowId' = [rowId EXCEPT ![r] = members[u, t].id]
  /\ UNCHANGED <<tables, start, actor, memberNotes>>

\* canManageMembershipAssignment, for a target with this platform role and this
\* row.  A row that cannot be read counts as none.
MayAssign(r, platform, row) ==
  LET a == actor[r]
      f == form[r]
  IN /\ canAssignTenantRole(a.platform, a.role, f.role)
     /\ IF canManagePlatform(a.platform)
        THEN ReachesPlatform(a.platform, platform)
        ELSE /\ f.tenant = a.tenant /\ platform = ""
             /\ IF row = None THEN normalizeTenantRole(a.role) \in {"tenant_owner", "tenant_admin"}
                ELSE ReachesMember(a.role, row.role)

RowRead(r) == {members[form[r].user, form[r].tenant], None}

Assign(r) ==
  /\ at[r] = "assign" /\ \E row \in RowRead(r) : MayAssign(r, seen[r], row)
  /\ Become(r, "existing")
  /\ seen' = [seen EXCEPT ![r] = None]
  /\ UNCHANGED <<tables, start, actor, form, rowId, memberNotes>>

\* ... the platform role of its user, and the membership once more.
AssignDelete(r) ==
  /\ at[r] = "target" /\ role[form[r].user] # None
  /\ \E row \in RowRead(r) : MayAssign(r, role[form[r].user], row)
  /\ Become(r, IF normalizeTenantRole(form[r].role) = "tenant_owner" THEN "last" ELSE "delete")
  /\ UNCHANGED <<tables, start, actor, form, seen, rowId, memberNotes>>

\* The row as it is: taking an owner's role needs another owner.
TakesOwner(r, row) ==
  /\ row # None /\ normalizeTenantRole(row.role) = "tenant_owner"
  /\ form[r].role # "tenant_owner"

Existing(r) ==
  /\ at[r] = "existing"
  /\ \E row \in RowRead(r) :
       /\ Become(r, IF TakesOwner(r, row) THEN "lastOf" ELSE "form")
       /\ rowId' = [rowId EXCEPT ![r] = IF TakesOwner(r, row) THEN row.id ELSE 0]
  /\ UNCHANGED <<tables, start, actor, form, seen, memberNotes>>

\* Mutant: the row itself counts as another owner.
isOnlyTenantOwnerOf(u, t, id) == Owners(t, members) = {}

\* isLastTenantOwner: no other row than this one is an owner's.
isLastTenantOwner(u, t, id) ==
  \A v \in Owners(t, members) : v = u /\ members[v, t].id = id

AfterLast(r) == IF at[r] = "last" THEN "delete" ELSE "form"

\* The row it has read is still there.
HasRow(r) ==
  LET row == members[form[r].user, form[r].tenant] IN row # None /\ row.id = rowId[r]

CheckOwners(r) ==
  /\ at[r] \in {"last", "lastOf"}
  /\ ~ isLastTenantOwner(form[r].user, form[r].tenant, rowId[r])
  /\ Become(r, AfterLast(r))
  /\ sure' = IF HasRow(r) THEN sure \cup {r} ELSE sure
  /\ UNCHANGED <<tables, start, actor, form, seen, rowId, granted, owned, faults>>

\* When the memberships cannot be listed, the owner is taken for not the last.
CheckFails(r) ==
  /\ at[r] \in {"last", "lastOf"}
  /\ Become(r, AfterLast(r))
  /\ UNCHANGED <<tables, start, actor, form, seen, rowId, memberNotes>>

\* The ids the row may get: the form of AdminUpsertMembership may carry one that
\* a row of this member has had; without one UpsertMembership looks for the id of
\* the row, or makes one.
FormIds(r) ==
  LET m == <<form[r].user, form[r].tenant>> IN
  (IF at[r] = "form" THEN 1..rowIds[m] ELSE {}) \cup
  (IF members[m] # None THEN {members[m].id} ELSE {rowIds[m] + 1} \cap 1..MaxRows)

FindId(r) ==
  /\ at[r] \in {"form", "id"}
  /\ \E id \in FormIds(r) : rowId' = [rowId EXCEPT ![r] = id]
  /\ Become(r, "upsert")
  /\ UNCHANGED <<tables, start, actor, form, seen, memberNotes>>

\* ... and inserts the row, or updates the one that is there.
UpsertMembership(r) ==
  LET m == <<form[r].user, form[r].tenant>> IN
  /\ at[r] = "upsert"
  /\ WriteMembers(Upserted(m, form[r].role, rowId[r]), {r})
  /\ Over(r)
  /\ UNCHANGED <<role, tenants, start, granted>>

\* DeleteMembership: the row with the id, if it is still there.
DeleteMembership(r) ==
  LET m == <<form[r].user, form[r].tenant>> IN
  /\ at[r] = "delete"
  /\ WriteMembers(IF members[m] # None /\ members[m].id = rowId[r]
                  THEN [members EXCEPT ![m] = None] ELSE members, {r})
  /\ Over(r)
  /\ UNCHANGED <<role, tenants, start, granted>>

\* AdminCreateUser: neither the name nor the address is taken, ...
CreateForm(r, u, t, platform, to) ==
  LET a == actor[r] IN
  /\ AdminsUsers(r) /\ role[u] = None /\ t \in tenants
  /\ platform # "" => canAssignPlatformRole(a.platform, platform)
  /\ canAssignTenantRole(a.platform, a.role, to)
  /\ canManagePlatform(a.platform) \/ t = a.tenant
  /\ Fill(r, "create", <<u, t>>, to, platform)
  /\ UNCHANGED <<tables, start, actor, rowId, memberNotes>>

\* ... the insert, which fails when it is by now, and then the membership.
CreateUser(r) ==
  LET u == form[r].user IN
  /\ at[r] = "create" /\ role[u] = None
  /\ role' = [role EXCEPT ![u] = seen[r]]
  /\ granted' = [granted EXCEPT ![u] = seen[r]]
  /\ Become(r, "id")
  /\ seen' = [seen EXCEPT ![r] = None]
  /\ UNCHANGED <<members, tenants, rowIds, start, actor, form, rowId, owned, sure, faults>>

\* AdminCreateTenant: no tenant has the slug of t, ...
TenantForm(r, t) ==
  /\ at[r] = "page" /\ canManageTenants(actor[r].platform, actor[r].role)
  /\ \A q \in tenants : Slug[q] # Slug[t]
  /\ Fill(r, "tenant", <<actor[r].user, t>>, "tenant_owner", None)
  /\ UNCHANGED <<tables, start, actor, rowId, memberNotes>>

\* ... one with a new id is stored, ...
CreateTenant(r, t) ==
  /\ at[r] = "tenant" /\ t \notin tenants /\ Slug[t] = Slug[form[r].tenant]
  /\ tenants' = tenants \cup {t}
  /\ Become(r, "confirm")
  /\ UNCHANGED <<role, members, rowIds, start, actor, form, seen, rowId, memberNotes>>

\* ... and the first in the list with that slug gets its creator as owner.
ConfirmTenant(r, t) ==
  /\ at[r] = "confirm" /\ t \in tenants /\ Slug[t] = Slug[form[r].tenant]
  /\ \A q \in tenants : Slug[q] = Slug[t] => Rank[t] <= Rank[q]
  /\ Fill(r, "id", <<form[r].user, t>>, "tenant_owner", None)
  /\ UNCHANGED <<tables, start, actor, rowId, memberNotes>>

\* AdminUpdatePlatformRole: the row of the user, ...
RoleForm(r, u, to) ==
  LET a == actor[r] IN
  /\ at[r] = "page" /\ canManagePlatform(a.platform) /\ role[u] # None
  /\ to # "" => canAssignPlatformRole(a.platform, to)
  /\ Fill(r, "manage", <<u, a.tenant>>, to, role[u])
  /\ UNCHANGED <<tables, start, actor, rowId, memberNotes>>

\* ... canManageUser, which reads it again, ...
ManageUser(r) ==
  /\ at[r] = "manage" /\ ReachesPlatform(actor[r].platform, role[form[r].user])
  /\ Become(r, "role")
  /\ seen' = [seen EXCEPT ![r] = None]
  /\ UNCHANGED <<tables, start, actor, form, rowId, memberNotes>>

\* ... and the row with its new role.
UpdatePlatformRole(r) ==
  /\ at[r] = "role"
  /\ role' = [role EXCEPT ![form[r].user] = form[r].role]
  /\ granted' = [granted EXCEPT ![form[r].user] = form[r].role]
  /\ Over(r)
  /\ UNCHANGED <<members, tenants, rowIds, start, owned, sure, faults>>

\* Every other handler that writes a user, a login too, writes back the role it
\* has read.
ReadUser(r, u) ==
  /\ at[r] = "page" /\ role[u] # None
  /\ Fill(r, "write", <<u, actor[r].tenant>>, "", role[u])
  /\ UNCHANGED <<tables, start, actor, rowId, memberNotes>>

WriteUser(r) ==
  LET u == form[r].user IN
  /\ at[r] = "write"
  /\ role' = [role EXCEPT ![u] = seen[r]]
  /\ faults' = IF seen[r] = role[u] THEN faults ELSE faults \cup {"restored"}
  /\ Over(r)
  /\ UNCHANGED <<members, tenants, rowIds, start, granted, owned, sure>>

Booting ==
  \/ SeedUser \/ ensureBootstrapTenant \/ RestoreRoot \/ RestoreOwner
  \/ ListUsers \/ Serve
  \/ \E u \in User : TranslateUser(u) \/ NextUser(u)
  \/ \E u \in User, t \in Tenant : TranslateMember(u, t)

Handling(r) ==
  \/ Abandon(r)
  \/ \E u \in User, t \in Tenant : Admit(r, u, t) \/ DeleteForm(r, u, t)
  \/ \E u \in User, t \in Tenant, to \in FormRole :
       \/ UpsertForm(r, u, t, to)
       \/ \E platform \in PlatformRole : CreateForm(r, u, t, platform, to)
  \/ Assign(r) \/ AssignDelete(r) \/ Existing(r) \/ CheckOwners(r) \/ CheckFails(r)
  \/ FindId(r) \/ UpsertMembership(r) \/ DeleteMembership(r) \/ CreateUser(r)
  \/ \E t \in Tenant : TenantForm(r, t) \/ CreateTenant(r, t) \/ ConfirmTenant(r, t)
  \/ \E u \in User, to \in PlatformRole : RoleForm(r, u, to)
  \/ ManageUser(r) \/ UpdatePlatformRole(r)
  \/ \E u \in User : ReadUser(r, u)
  \/ WriteUser(r)

MembershipNext == Booting \/ Restart \/ \E r \in AdminRequest : Handling(r)

MembershipSpec == MembershipInit /\ [][MembershipNext]_memberVars

-----------------------------------------------------------------------------

MembershipTypeOK ==
  /\ role \in [User -> PlatformRole \cup {None}]
  /\ members \in [Member -> MemberRow \cup {None}]
  /\ tenants \subseteq Tenant
  /\ rowIds \in [Member -> 0..MaxRows]
  /\ boot \in Boot \cup User
  /\ todo \subseteq User
  /\ at \in [AdminRequest -> RequestStep]
  /\ actor \in [AdminRequest -> {None} \cup Actor]
  /\ form \in [AdminRequest -> {None} \cup Form]
  /\ seen \in [AdminRequest -> {None} \cup PlatformRole]
  /\ rowId \in [AdminRequest -> 0..MaxRows]
  /\ granted \in [User -> PlatformRole \cup {None}]
  /\ owned \subseteq Tenant /\ sure \subseteq AdminRequest
  /\ faults \subseteq {"blind", "restored"}

\* A tenant that has had an owner has one, whatever requests and restarts do:
\* unless an owner was taken away by a request whose check of the other owners
\* failed, was not made because the member was no owner yet, or was out of date.
OwnersStay == "blind" \notin faults => \A t \in owned : Owners(t, members) # {}

\* The translation of old role names, broken off and begun again any number of
\* times, gives every user the platform role that its memberships stood for and
\* leaves no old name; and a role is then what was last given, unless a handler
\* wrote an older one back.
RolesAreTranslated ==
  boot = "serving" =>
    /\ \A m \in Member : members[m] # None => members[m].role \in TenantRole
    /\ "restored" \notin faults => role = granted

\* A row that a request gives is the one its form names, of its actor's tenant
\* and with no permission that the actor's own role has not, or of an actor who
\* is a platform administrator.
RowsAreOwned ==
  \A u \in User, t \in Tenant :
    LET row == members'[u, t] IN
    /\ boot = "serving" /\ row # None
    /\ members[u, t] = None \/ members[u, t].role # row.role
    => \E r \in AdminRequest :
         /\ at[r] = "upsert" /\ form[r] = [user |-> u, tenant |-> t, role |-> row.role]
         /\ \/ canManagePlatform(actor[r].platform)
            \/ /\ t = actor[r].tenant
               /\ buildPermissionSet("", row.role) \subseteq buildPermissionSet("", actor[r].role)

\* A user that becomes a super administrator is made one by a super
\* administrator, or written back by a handler that has read it as one.
SuperAdminsAreMade ==
  \A u \in User :
    /\ boot = "serving" /\ role[u] # role'[u] /\ role'[u] = "platform_super_admin"
    => \E r \in AdminRequest :
         /\ at[r] \in {"create", "role", "write"} /\ form[r].user = u
         /\ at[r] # "write" => actor[r].platform = "platform_super_admin"

\* Nobody who is not a platform administrator gives a role with permissions
\* that are not the actor's own, nor any role outside the actor's tenant; and
\* nobody but a super administrator makes one, unless a handler writes the role
\* back that it has read.
GrantsAreOwned == [][RowsAreOwned]_memberVars /\ [][SuperAdminsAreMade]_memberVars

=============================================================================
