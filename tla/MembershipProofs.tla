-------------------------- MODULE MembershipProofs --------------------------
(***************************************************************************)
(* The roles of users and the owners of tenants, for any number of users,  *)
(* tenants and requests.                                                   *)
(***************************************************************************)
EXTENDS Membership, TLAPS, WellFoundedInduction

\* A request that is under way, and one that is about a user.
Active(r) == at[r] \notin {"new", "done"}
AboutMember(r) == at[r] \in {"assign", "existing", "lastOf", "form", "id", "upsert"}
GivesTenantRole(r) ==
  AboutMember(r) \/ at[r] \in {"create", "target", "last", "delete", "tenant", "confirm"}

\* What a request holds at each of its steps.
RequestFits(r) ==
  /\ Active(r) => boot = "serving" /\ actor[r] # None /\ role[actor[r].user] # None
  /\ Active(r) /\ at[r] # "page" => form[r] # None
  /\ GivesTenantRole(r) => form[r].role \in TenantRole
  /\ at[r] \in {"manage", "role"} => form[r].role \in PlatformRole
  /\ at[r] \in {"assign", "create", "write"} => seen[r] # None
  /\ at[r] = "upsert" => rowId[r] # 0
  /\ AboutMember(r) => role[form[r].user] # None
  /\ at[r] \in {"tenant", "confirm"} => form[r].user = actor[r].user

\* What it may do with that.
OwnsWhatItGives(r) ==
  \/ canManagePlatform(actor[r].platform)
  \/ /\ form[r].tenant = actor[r].tenant
     /\ buildPermissionSet("", form[r].role) \subseteq buildPermissionSet("", actor[r].role)

GrantFits(r) ==
  /\ at[r] \in {"existing", "lastOf", "form", "id", "upsert", "create"} => OwnsWhatItGives(r)
  /\ at[r] \in {"tenant", "confirm"} => canManagePlatform(actor[r].platform)
  /\ at[r] = "create" /\ seen[r] = "platform_super_admin" => actor[r].platform = "platform_super_admin"
  /\ at[r] \in {"manage", "role"} /\ form[r].role = "platform_super_admin" =>
       actor[r].platform = "platform_super_admin"

RequestsFit == \A r \in AdminRequest : RequestFits(r) /\ GrantFits(r)

\* Members are users, and the first user is an administrator before it is an owner.
MembersAreUsers ==
  /\ \A m \in Member : members[m] # None => role[m[1]] # None
  /\ boot = "owner" => role[Root] = "platform_super_admin"

\* The memberships of a user are translated, or stand for no platform role.
Translated(u) == \A t \in Tenant : members[u, t] # None => members[u, t].role \in TenantRole
Standing(u) == {t \in Tenant : members[u, t] # None /\ PlatformRoleOf(members[u, t].role) # ""}

\* How far the translation has got.
TranslationGoesOn ==
  /\ boot \in {"translate", "serving"} \cup User => \A u \in User \ todo : Translated(u)
  /\ boot = "serving" => todo = {}
  /\ boot \in User => role[boot] # "" \/ Standing(boot) = {}

\* The role a user would be translated to is the one that was given.
GivenIsDesired ==
  "restored" \notin faults => \A u \in User : granted[u] = DesiredPlatformRole(u)

\* A request that is sure has another owner to rely on.
SureHasAnother ==
  \A r \in sure :
    /\ at[r] \in {"delete", "form", "id", "upsert"}
    /\ \E v \in Owners(form[r].tenant, members) : v # form[r].user

MembersInv ==
  /\ MembershipTypeOK /\ RequestsFit /\ MembersAreUsers /\ TranslationGoesOn
  /\ GivenIsDesired /\ SureHasAnother /\ OwnersStay

-----------------------------------------------------------------------------
(* Roles *)

LEMMA TenantRolesAreNormal ==
  /\ \A x : normalizeTenantRole(x) \in TenantRole
  /\ \A x \in TenantRole : normalizeTenantRole(x) = x /\ PlatformRoleOf(x) = ""
BY DEF normalizeTenantRole, TenantRole, PlatformRoleOf

LEMMA PlatformRoles == \A x : PlatformRoleOf(x) \in PlatformRole
BY DEF PlatformRoleOf, PlatformRole

\* An owner or an administrator of a tenant only gives permissions away that the
\* own role has.
LEMMA GivenIsOwned ==
  ASSUME NEW own \in TenantRole, NEW to \in TenantRole, canAssignTenantRole("", own, to)
  PROVE  buildPermissionSet("", to) \subseteq buildPermissionSet("", own)
<1>1. /\ own = "tenant_owner" => to \in TenantRole \ {"tenant_owner"}
      /\ own = "tenant_admin" => to \in BelowAdmin
      /\ own \in {"tenant_owner", "tenant_admin"}
  BY TenantRolesAreNormal DEF canAssignTenantRole, allowedTenantRolesForActor, canManagePlatform, TenantRole
<1>2. tenantRolePermissionMatrix[to] \subseteq tenantRolePermissionMatrix[own]
  BY <1>1 DEF tenantRolePermissionMatrix, TenantRole, BelowAdmin, AdminPermissions, UserPermissions
<1> QED
  BY <1>2, TenantRolesAreNormal DEF buildPermissionSet

\* Who may manage tenants or users without a role in the tenant for it.
LEMMA TenantManagers ==
  ASSUME NEW platform \in PlatformRole, NEW own \in TenantRole, canManageTenants(platform, own)
  PROVE  canManagePlatform(platform)
<1>1. "platform.tenants.write" \notin tenantRolePermissionMatrix[own]
  BY DEF tenantRolePermissionMatrix, TenantRole, AdminPermissions, UserPermissions, ViewerPermissions
<1>2. platformRolePermissionMatrix[""] = {}
  BY DEF platformRolePermissionMatrix, PlatformRole
<1> QED
  BY <1>1, <1>2, TenantRolesAreNormal
     DEF canManageTenants, hasAnyPermission, buildPermissionSet, canManagePlatform

LEMMA SuperAdminsMakeSuperAdmins ==
  ASSUME NEW platform \in PlatformRole, canAssignPlatformRole(platform, "platform_super_admin")
  PROVE  platform = "platform_super_admin"
BY DEF canAssignPlatformRole, allowedPlatformRolesForActor, PlatformRole

\* The first of some tenants.
LEMMA FirstTenant ==
  ASSUME NEW S \in SUBSET Tenant, S # {}
  PROVE  \E t \in S : \A q \in S : Rank[t] <= Rank[q]
<1> DEFINE T == {Rank[t] : t \in S}
<1>1. T \subseteq Nat /\ T # {}
  BY MembershipAssumption
<1>2. IsWellFoundedOn(OpToRel(<, Nat), Nat)
  BY NatLessThanWellFounded
<1> HIDE DEF T
<1>3. \E x \in T : \A y \in T : ~(<<y, x>> \in OpToRel(<, Nat))
  BY <1>1, <1>2, WFMin
<1>4. \A x, y \in Nat : x < y => <<x, y>> \in OpToRel(<, Nat)
  BY DEF OpToRel
<1>5. PICK x \in T : \A y \in T : ~(y < x)
  BY <1>1, <1>3, <1>4
<1>6. PICK t \in S : Rank[t] = x
  BY DEF T
<1>7. \A q \in S : Rank[q] \in T
  BY DEF T
<1>8. \A q \in S : Rank[q] \in Nat
  BY MembershipAssumption
<1> QED
  BY <1>5, <1>6, <1>7, <1>8

LEMMA DesiredRole ==
  ASSUME role \in [User -> PlatformRole \cup {None}], NEW u \in User
  PROVE  /\ DesiredPlatformRole(u) \in PlatformRole \cup {None}
         /\ role[u] # None => DesiredPlatformRole(u) # None
         /\ role[u] # "" => DesiredPlatformRole(u) = role[u]
         /\ Standing(u) = {} => DesiredPlatformRole(u) = role[u]
         /\ Standing(u) # {} => DesiredPlatformRole(u) # ""
         /\ Translated(u) => Standing(u) = {}
<1>0. Translated(u) => Standing(u) = {}
  BY TenantRolesAreNormal DEF Translated, Standing
<1>1. CASE role[u] # ""
  <2>1. DesiredPlatformRole(u) = role[u]
    BY <1>1 DEF DesiredPlatformRole
  <2> QED
    BY <1>0, <1>1, <2>1
<1>2. CASE role[u] = "" /\ Standing(u) = {}
  BY <1>0, <1>2, MembershipAssumption DEF DesiredPlatformRole, PlatformRole, Standing
<1>3. CASE role[u] = "" /\ Standing(u) # {}
  <2> DEFINE first == CHOOSE t \in Standing(u) : \A q \in Standing(u) : Rank[t] <= Rank[q]
  <2>1. first \in Standing(u)
    BY <1>3, FirstTenant DEF Standing
  <2>2. DesiredPlatformRole(u) = PlatformRoleOf(members[u, first].role)
    BY <1>3 DEF DesiredPlatformRole, Standing
  <2>3. DesiredPlatformRole(u) \in PlatformRole /\ DesiredPlatformRole(u) # ""
    BY <2>1, <2>2, PlatformRoles DEF Standing
  <2> QED
    BY <1>0, <1>3, <2>3, MembershipAssumption
<1> QED
  BY <1>1, <1>2, <1>3

-----------------------------------------------------------------------------
(* What a write does *)

Rows == [Member -> MemberRow \cup {None}]

LEMMA Ids ==
  /\ 1..MaxRows \subseteq 0..MaxRows /\ 0 \in 0..MaxRows
  /\ \A n \in 0..MaxRows : n < MaxRows => n + 1 \in 1..MaxRows
  /\ \A n \in 0..MaxRows : n # 0 => n \in 1..MaxRows
BY MembershipAssumption

LEMMA UpsertedRows ==
  ASSUME MembershipTypeOK, NEW m \in Member, NEW to \in TenantRole, NEW id,
         members[m] # None \/ id \in 1..MaxRows
  PROVE  /\ Upserted(m, to, id) \in Rows
         /\ Upserted(m, to, id)[m] # None /\ Upserted(m, to, id)[m].role = to
         /\ \A n \in Member \ {m} : Upserted(m, to, id)[n] = members[n]
<1>1. CASE members[m] = None
  <2>1. [id |-> id, role |-> to] \in MemberRow
    BY <1>1 DEF MemberRow
  <2>2. Upserted(m, to, id) = [members EXCEPT ![m] = [id |-> id, role |-> to]]
    BY <1>1 DEF Upserted, MembershipTypeOK
  <2> QED
    BY <2>1, <2>2, MembershipAssumption DEF MembershipTypeOK, Rows
<1>2. CASE members[m] # None
  <2> DEFINE row == [members[m] EXCEPT !.role = to]
  <2>1. members[m] \in MemberRow
    BY <1>2 DEF MembershipTypeOK
  <2>2. row \in MemberRow /\ row.role = to
    BY <2>1 DEF MemberRow
  <2>3. Upserted(m, to, id) = [members EXCEPT ![m] = row]
    BY <1>2 DEF Upserted, MembershipTypeOK
  <2> HIDE DEF row
  <2> QED
    BY <2>2, <2>3, MembershipAssumption DEF MembershipTypeOK, Rows
<1> QED
  BY <1>1, <1>2

\* The id that a request is to write with is one of a row.
LEMMA FormIdsFit ==
  ASSUME MembershipTypeOK, NEW r \in AdminRequest, form[r] # None, NEW id \in FormIds(r)
  PROVE  id \in 1..MaxRows
<1> DEFINE m == <<form[r].user, form[r].tenant>>
<1>1. form[r] \in Form
  BY DEF MembershipTypeOK
<1>2. m \in Member
  BY <1>1 DEF Form, Member
<1>3. rowIds[m] \in 0..MaxRows /\ members[m] \in MemberRow \cup {None}
  BY <1>2 DEF MembershipTypeOK
<1>4. /\ members[m] # None => members[m].id \in 1..MaxRows
      /\ 1..rowIds[m] \subseteq 1..MaxRows
  BY <1>3, MembershipAssumption DEF MemberRow
<1>5. CASE id \in 1..rowIds[m]
  BY <1>4, <1>5
<1>6. CASE id \notin 1..rowIds[m] /\ members[m] # None
  BY <1>4, <1>6 DEF FormIds
<1>7. CASE id \notin 1..rowIds[m] /\ members[m] = None
  BY <1>7 DEF FormIds
<1> QED
  BY <1>5, <1>6, <1>7

\* What a request writes.
LEMMA UpsertedByRequest ==
  ASSUME MembershipTypeOK, RequestsFit, NEW r \in AdminRequest, at[r] = "upsert",
         NEW m, m = <<form[r].user, form[r].tenant>>,
         NEW rs, rs = Upserted(m, form[r].role, rowId[r])
  PROVE  /\ form[r] \in Form /\ form[r].role \in TenantRole /\ role[form[r].user] # None
         /\ m \in Member /\ rs \in Rows
         /\ rs[m] # None /\ rs[m].role = form[r].role
         /\ \A n \in Member \ {m} : rs[n] = members[n]
<1>1. form[r] # None /\ form[r].role \in TenantRole /\ rowId[r] # 0 /\ role[form[r].user] # None
  BY DEF RequestsFit, RequestFits, GivesTenantRole, AboutMember, Active
<1>2. form[r] \in Form /\ rowId[r] \in 1..MaxRows
  BY <1>1, Ids DEF MembershipTypeOK
<1>3. m \in Member
  BY <1>2 DEF Form, Member
<1> QED
  BY <1>1, <1>2, <1>3, UpsertedRows

LEMMA WriteTypes ==
  ASSUME MembershipTypeOK, NEW rs \in Rows, NEW writers, WriteMembers(rs, writers)
  PROVE  /\ members' \in Rows /\ rowIds' \in [Member -> 0..MaxRows]
         /\ owned' \subseteq Tenant /\ sure' \subseteq AdminRequest
         /\ faults' \subseteq {"blind", "restored"}
<1>1. \A m \in Member : rs[m] # None => rs[m].id \in 0..MaxRows
  BY MembershipAssumption DEF Rows, MemberRow
<1>2. rowIds' \in [Member -> 0..MaxRows]
  BY <1>1 DEF WriteMembers, MembershipTypeOK
<1> QED
  BY <1>2 DEF WriteMembers, MembershipTypeOK

\* A write by requests that only takes an owner away whom their forms name.
LEMMA WriteKeepsOwners ==
  ASSUME MembershipTypeOK, SureHasAnother, OwnersStay, NEW rs \in Rows, NEW writers,
         WriteMembers(rs, writers),
         \A r, q \in writers : r = q,
         \A t \in Tenant, v \in User :
           v \in Owners(t, members) /\ v \notin Owners(t, rs) =>
             \E r \in writers : form[r].tenant = t /\ form[r].user = v,
         \A q \in sure \ writers : at'[q] = at[q] /\ form'[q] = form[q],
         \A q \in sure : form[q] \in Form
  PROVE  OwnersStay' /\ SureHasAnother'
<1> DEFINE robbed == {t \in Tenant : Owners(t, members) \ Owners(t, rs) # {}}
<1>1. /\ members' = rs
      /\ owned' = owned \cup {t \in Tenant : Owners(t, rs) # {}}
      /\ sure' = {r \in sure : r \notin writers /\ form[r].tenant \notin robbed}
      /\ faults' = IF robbed # {} /\ ~ writers \subseteq sure
                   THEN faults \cup {"blind"} ELSE faults
  BY DEF WriteMembers
<1>2. \A t : Owners(t, members)' = Owners(t, rs)
  BY <1>1 DEF Owners
<1>3. \A t : Owners(t, members) \subseteq User /\ Owners(t, rs) \subseteq User
  BY DEF Owners
<1>4. OwnersStay'
  <2> SUFFICES ASSUME "blind" \notin faults', NEW t \in owned', Owners(t, rs) = {}
               PROVE  FALSE
    BY <1>2 DEF OwnersStay
  <2>1. t \in owned /\ t \in Tenant /\ "blind" \notin faults
    BY <1>1 DEF MembershipTypeOK
  <2>2. PICK v \in Owners(t, members) : TRUE
    BY <2>1 DEF OwnersStay
  <2>3. t \in robbed
    BY <2>1, <2>2
  <2> HIDE DEF robbed
  <2>4. writers \subseteq sure
    BY <1>1, <2>3
  <2>5. PICK r \in writers : form[r].tenant = t /\ form[r].user = v
    BY <1>3, <2>1, <2>2
  <2>6. PICK w \in Owners(t, members) : w # v
    BY <2>4, <2>5 DEF SureHasAnother
  <2>7. PICK q \in writers : form[q].user = w
    BY <1>3, <2>1, <2>6
  <2> QED
    BY <2>5, <2>6, <2>7
<1>5. SureHasAnother'
  <2> SUFFICES ASSUME NEW q \in sure'
               PROVE  /\ at'[q] \in {"delete", "form", "id", "upsert"}
                      /\ \E v \in Owners(form'[q].tenant, rs) : v # form'[q].user
    BY <1>2 DEF SureHasAnother
  <2>1. /\ q \in sure /\ form[q].tenant \notin robbed /\ form[q].tenant \in Tenant
        /\ at'[q] = at[q] /\ form'[q] = form[q]
    BY <1>1 DEF Form
  <2>2. Owners(form[q].tenant, members) \subseteq Owners(form[q].tenant, rs)
    BY <2>1
  <2> QED
    BY <2>1, <2>2 DEF SureHasAnother
<1> QED
  BY <1>4, <1>5

\* A step that leaves the tables, the start of the app and what was given alone.
LEMMA TablesStay ==
  ASSUME MembersInv, UNCHANGED <<role, members, start, granted>>, faults \subseteq faults'
  PROVE  MembersAreUsers' /\ TranslationGoesOn' /\ GivenIsDesired'
<1>1. \A u : /\ DesiredPlatformRole(u)' = DesiredPlatformRole(u)
             /\ Translated(u)' = Translated(u) /\ Standing(u)' = Standing(u)
  BY DEF DesiredPlatformRole, Translated, Standing
<1> QED
  BY <1>1 DEF MembersInv, MembersAreUsers, TranslationGoesOn, GivenIsDesired, start

\* A request that does nothing, while no user is lost.
LEMMA RequestFrame ==
  ASSUME MembershipTypeOK, NEW q \in AdminRequest, RequestFits(q), GrantFits(q),
         boot' = boot \/ ~ Active(q),
         at'[q] = at[q], actor'[q] = actor[q], form'[q] = form[q], seen'[q] = seen[q],
         rowId'[q] = rowId[q],
         \A u \in User : role[u] # None => role'[u] # None
  PROVE  RequestFits(q)' /\ GrantFits(q)'
<1>1. Active(q) => actor[q].user \in User
  BY DEF MembershipTypeOK, RequestFits, Actor
<1>2. AboutMember(q) => form[q].user \in User
  BY DEF MembershipTypeOK, RequestFits, Form, AboutMember, Active
<1>3. RequestFits(q)'
  BY <1>1, <1>2 DEF RequestFits, Active, AboutMember, GivesTenantRole
<1>4. GrantFits(q)'
  BY DEF GrantFits, OwnsWhatItGives
<1> QED
  BY <1>3, <1>4

\* A step of one request.
LEMMA OthersFit ==
  ASSUME MembersInv, NEW r \in AdminRequest, UNCHANGED boot,
         \A q \in AdminRequest \ {r} :
           /\ at'[q] = at[q] /\ actor'[q] = actor[q] /\ form'[q] = form[q]
           /\ seen'[q] = seen[q] /\ rowId'[q] = rowId[q],
         \A u \in User : role[u] # None => role'[u] # None,
         RequestFits(r)', GrantFits(r)'
  PROVE  RequestsFit'
BY RequestFrame DEF MembersInv, RequestsFit

-----------------------------------------------------------------------------
(* Types *)

LEMMA OverTypes ==
  ASSUME MembershipTypeOK, NEW r \in AdminRequest, Over(r)
  PROVE  /\ at' \in [AdminRequest -> RequestStep] /\ actor' \in [AdminRequest -> {None} \cup Actor]
         /\ form' \in [AdminRequest -> {None} \cup Form]
         /\ seen' \in [AdminRequest -> {None} \cup PlatformRole]
         /\ rowId' \in [AdminRequest -> 0..MaxRows]
BY MembershipAssumption DEF Over, Become, MembershipTypeOK, RequestStep

LEMMA FillTypes ==
  ASSUME MembershipTypeOK, NEW r \in AdminRequest, NEW next \in RequestStep, NEW u \in User,
         NEW t \in Tenant, NEW to \in PlatformRole \cup TenantRole,
         NEW platform \in PlatformRole \cup {None}, Fill(r, next, <<u, t>>, to, platform)
  PROVE  /\ at' \in [AdminRequest -> RequestStep] /\ form' \in [AdminRequest -> {None} \cup Form]
         /\ seen' \in [AdminRequest -> {None} \cup PlatformRole]
<1>1. [user |-> u, tenant |-> t, role |-> to] \in Form
  BY DEF Form
<1> QED
  BY <1>1 DEF Fill, Become, MembershipTypeOK, RequestStep

LEMMA BootTypes == MembersInv /\ Booting => MembershipTypeOK'
<1> SUFFICES ASSUME MembersInv, Booting PROVE MembershipTypeOK'
  OBVIOUS
<1> USE DEF MembersInv, MembershipTypeOK, tables, start, request, memberNotes
<1>1. CASE SeedUser \/ RestoreRoot
  <2>1. "platform_super_admin" \in PlatformRole
    BY DEF PlatformRole
  <2>2. boot' \in Boot /\ UNCHANGED <<members, tenants, rowIds, todo, request, owned, sure, faults>>
    BY <1>1 DEF SeedUser, RestoreRoot, Boot
  <2>3. role' \in [User -> PlatformRole \cup {None}] /\ granted' \in [User -> PlatformRole \cup {None}]
    BY <1>1, <2>1, MembershipAssumption DEF SeedUser, RestoreRoot
  <2> QED
    BY <2>2, <2>3
<1>2. CASE ensureBootstrapTenant
  BY <1>2, MembershipAssumption DEF ensureBootstrapTenant, Boot
<1>3. CASE RestoreOwner
  <2> DEFINE rs == Upserted(<<Root, Home>>, "tenant_owner", rowIds[Root, Home] + 1)
  <2>1. <<Root, Home>> \in Member /\ "tenant_owner" \in TenantRole
    BY MembershipAssumption DEF Member, TenantRole
  <2>2. members[Root, Home] # None \/ rowIds[Root, Home] + 1 \in 1..MaxRows
    <3>1. rowIds[Root, Home] \in 0..MaxRows
      BY <2>1
    <3> QED
      BY <1>3, <3>1, Ids DEF RestoreOwner
  <2>3. rs \in Rows
    BY <2>1, <2>2, UpsertedRows
  <2>4. WriteMembers(rs, {})
    BY <1>3 DEF RestoreOwner
  <2>5. UNCHANGED <<role, tenants, todo, request, granted>> /\ boot' = "list"
    BY <1>3 DEF RestoreOwner
  <2> HIDE DEF rs
  <2> QED
    BY <2>3, <2>4, <2>5, WriteTypes DEF Rows, Boot
<1>4. CASE ListUsers \/ Serve
  BY <1>4 DEF ListUsers, Serve, Boot
<1>5. ASSUME NEW u \in User, TranslateUser(u) \/ NextUser(u) PROVE MembershipTypeOK'
  <2>1. DesiredPlatformRole(u) \in PlatformRole \cup {None}
    BY DesiredRole
  <2>2. CASE TranslateUser(u)
    BY <2>1, <2>2 DEF TranslateUser
  <2>3. CASE NextUser(u)
    BY <2>3 DEF NextUser, Boot
  <2> QED
    BY <1>5, <2>2, <2>3
<1>6. ASSUME NEW u \in User, NEW t \in Tenant, TranslateMember(u, t) PROVE MembershipTypeOK'
  <2> DEFINE to == normalizeTenantRole(members[u, t].role)
             rs == Upserted(<<u, t>>, to, rowIds[u, t])
  <2>1. <<u, t>> \in Member /\ to \in TenantRole
    BY TenantRolesAreNormal DEF Member
  <2>2. WriteMembers(rs, {}) /\ members[u, t] # None
        /\ UNCHANGED <<role, tenants, start, request, granted>>
    BY <1>6 DEF TranslateMember
  <2> HIDE DEF to
  <2>3. rs \in Rows
    BY <2>1, <2>2, UpsertedRows
  <2> HIDE DEF rs
  <2> QED
    BY <2>2, <2>3, WriteTypes DEF Rows
<1> QED
  BY <1>1, <1>2, <1>3, <1>4, <1>5, <1>6 DEF Booting

LEMMA RequestTypes ==
  ASSUME MembersInv, NEW r \in AdminRequest, Handling(r)
  PROVE  MembershipTypeOK'
<1> USE DEF MembersInv, MembershipTypeOK, tables, start, request, memberNotes, RequestStep
<1>1. RequestFits(r)
  BY DEF RequestsFit
<1>2. Active(r) => actor[r] \in Actor /\ actor[r].user \in User /\ actor[r].tenant \in Tenant
  BY <1>1 DEF RequestFits, Actor
<1>3. Active(r) /\ at[r] # "page" =>
        /\ form[r] \in Form /\ form[r].user \in User /\ form[r].tenant \in Tenant
        /\ <<form[r].user, form[r].tenant>> \in Member
  BY <1>1 DEF RequestFits, Form, Member
<1>4. CASE Abandon(r)
  BY <1>4, OverTypes DEF Abandon
<1>5. ASSUME NEW u \in User, NEW t \in Tenant, Admit(r, u, t) PROVE MembershipTypeOK'
  <2> DEFINE a == [user |-> u, tenant |-> t, platform |-> role[u], role |-> members[u, t].role]
  <2>1. /\ actor' = [actor EXCEPT ![r] = a] /\ at' = [at EXCEPT ![r] = "page"]
        /\ UNCHANGED <<tables, start, form, seen, rowId, memberNotes>>
        /\ boot = "serving" /\ role[u] # None /\ members[u, t] # None
    BY <1>5 DEF Admit, Become
  <2>2. members[u, t].role \in TenantRole
    BY <2>1 DEF TranslationGoesOn, Translated
  <2>3. a \in Actor
    BY <2>1, <2>2 DEF Actor
  <2> HIDE DEF a
  <2> QED
    BY <2>1, <2>3
<1>6. ASSUME NEW u \in User, NEW t \in Tenant, DeleteForm(r, u, t) PROVE MembershipTypeOK'
  <2>1. members[u, t].role \in TenantRole /\ members[u, t].id \in 0..MaxRows
    <3>1. boot = "serving" /\ members[u, t] # None /\ <<u, t>> \in Member
      BY <1>1, <1>6 DEF DeleteForm, AdminsUsers, RequestFits, Active, Member
    <3>2. members[u, t].role \in TenantRole
      BY <3>1 DEF TranslationGoesOn, Translated
    <3>3. members[u, t] \in MemberRow
      BY <3>1
    <3>4. members[u, t].id \in 1..MaxRows
      BY <3>3 DEF MemberRow
    <3> QED
      BY <3>2, <3>4, Ids
  <2>2. Fill(r, "target", <<u, t>>, members[u, t].role, None)
        /\ rowId' = [rowId EXCEPT ![r] = members[u, t].id]
        /\ UNCHANGED <<tables, start, actor, memberNotes>>
    BY <1>6 DEF DeleteForm
  <2> QED
    BY <2>1, <2>2, FillTypes
<1>7. ASSUME NEW u \in User, NEW t \in Tenant, NEW to \in FormRole,
             UpsertForm(r, u, t, to) \/ \E platform \in PlatformRole : CreateForm(r, u, t, platform, to)
      PROVE  MembershipTypeOK'
  <2>1. PICK platform \in PlatformRole \cup {None}, next \in {"assign", "create"} :
          /\ Fill(r, next, <<u, t>>, to, platform)
          /\ UNCHANGED <<tables, start, actor, rowId, memberNotes>>
    BY <1>7 DEF UpsertForm, CreateForm
  <2>2. to \in TenantRole
    BY MembershipAssumption
  <2> QED
    BY <2>1, <2>2, FillTypes
<1>8. CASE Assign(r) \/ AssignDelete(r) \/ CheckOwners(r) \/ CheckFails(r) \/ ManageUser(r)
  BY <1>8 DEF Assign, AssignDelete, CheckOwners, CheckFails, ManageUser, Become, AfterLast
<1>9. CASE Existing(r)
  <2>1. PICK row \in RowRead(r) :
          /\ Become(r, IF TakesOwner(r, row) THEN "lastOf" ELSE "form")
          /\ rowId' = [rowId EXCEPT ![r] = IF TakesOwner(r, row) THEN row.id ELSE 0]
    BY <1>9 DEF Existing
  <2>2. TakesOwner(r, row) => row \in MemberRow
    BY <1>3, <1>9, ZenonT(30) DEF Existing, RowRead, TakesOwner, Active
  <2>3. (IF TakesOwner(r, row) THEN row.id ELSE 0) \in 0..MaxRows
    BY <2>2, MembershipAssumption DEF MemberRow
  <2> QED
    BY <1>9, <2>1, <2>3 DEF Existing, Become
<1>10. CASE FindId(r)
  <2>1. PICK id \in FormIds(r) : rowId' = [rowId EXCEPT ![r] = id]
    BY <1>10 DEF FindId
  <2>2. form[r] # None
    BY <1>1, <1>10 DEF FindId, RequestFits, Active
  <2>3. id \in 1..MaxRows
    BY <2>1, <2>2, FormIdsFit
  <2> QED
    BY <1>10, <2>1, <2>3, MembershipAssumption DEF FindId, Become
<1>11. CASE UpsertMembership(r)
  <2> DEFINE m == <<form[r].user, form[r].tenant>>
             rs == Upserted(m, form[r].role, rowId[r])
  <2>1. /\ WriteMembers(rs, {r}) /\ Over(r) /\ UNCHANGED <<role, tenants, start, granted>>
        /\ at[r] = "upsert"
    BY <1>11 DEF UpsertMembership
  <2>2. rs \in Rows
    BY <2>1, UpsertedByRequest
  <2> HIDE DEF rs, m
  <2> QED
    BY <2>1, <2>2, WriteTypes, OverTypes DEF Rows
<1>12. CASE DeleteMembership(r)
  <2> DEFINE m == <<form[r].user, form[r].tenant>>
             rs == IF members[m] # None /\ members[m].id = rowId[r]
                   THEN [members EXCEPT ![m] = None] ELSE members
  <2>1. WriteMembers(rs, {r}) /\ Over(r) /\ UNCHANGED <<role, tenants, start, granted>>
    BY <1>12 DEF DeleteMembership
  <2>2. rs \in Rows
    BY DEF Rows
  <2> HIDE DEF rs
  <2> QED
    BY <2>1, <2>2, WriteTypes, OverTypes DEF Rows
<1>13. CASE CreateUser(r)
  <2>1. seen[r] \in PlatformRole
    BY <1>1, <1>13 DEF CreateUser, RequestFits
  <2> QED
    BY <1>13, <2>1 DEF CreateUser, Become
<1>14. ASSUME NEW t \in Tenant, TenantForm(r, t) \/ CreateTenant(r, t) \/ ConfirmTenant(r, t)
       PROVE  MembershipTypeOK'
  <2>1. "tenant_owner" \in TenantRole
    BY DEF TenantRole
  <2>2. CASE TenantForm(r, t)
    BY <1>2, <2>1, <2>2, FillTypes DEF TenantForm, Active
  <2>3. CASE CreateTenant(r, t)
    BY <2>3 DEF CreateTenant, Become
  <2>4. CASE ConfirmTenant(r, t)
    BY <1>3, <2>1, <2>4, FillTypes DEF ConfirmTenant, Active
  <2> QED
    BY <1>14, <2>2, <2>3, <2>4
<1>15. ASSUME NEW u \in User, NEW to \in PlatformRole, RoleForm(r, u, to) PROVE MembershipTypeOK'
  BY <1>2, <1>15, FillTypes DEF RoleForm, Active
<1>16. CASE UpdatePlatformRole(r)
  <2>1. form[r].role \in PlatformRole
    BY <1>1, <1>16 DEF UpdatePlatformRole, RequestFits
  <2> QED
    BY <1>16, <2>1, OverTypes DEF UpdatePlatformRole
<1>17. ASSUME NEW u \in User, ReadUser(r, u) PROVE MembershipTypeOK'
  <2>1. "" \in PlatformRole
    BY DEF PlatformRole
  <2> QED
    BY <1>2, <1>17, <2>1, FillTypes DEF ReadUser, Active
<1>18. CASE WriteUser(r)
  <2>1. seen[r] \in PlatformRole
    BY <1>1, <1>18 DEF WriteUser, RequestFits
  <2> QED
    BY <1>18, <2>1, OverTypes DEF WriteUser
<1> QED
  BY <1>4, <1>5, <1>6, <1>7, <1>8, <1>9, <1>10, <1>11, <1>12, <1>13, <1>14, <1>15, <1>16, <1>17, <1>18
     DEF Handling

-----------------------------------------------------------------------------
(* What requests hold *)

LEMMA OverOnlyOne ==
  ASSUME MembershipTypeOK, NEW r \in AdminRequest, Over(r)
  PROVE  /\ \A q \in AdminRequest \ {r} :
              /\ at'[q] = at[q] /\ actor'[q] = actor[q] /\ form'[q] = form[q]
              /\ seen'[q] = seen[q] /\ rowId'[q] = rowId[q]
         /\ at'[r] = "done"
BY DEF Over, Become, MembershipTypeOK

LEMMA FillOnlyOne ==
  ASSUME MembershipTypeOK, NEW r \in AdminRequest, NEW next, NEW u, NEW t, NEW to, NEW platform,
         Fill(r, next, <<u, t>>, to, platform)
  PROVE  /\ \A q \in AdminRequest \ {r} : at'[q] = at[q] /\ form'[q] = form[q] /\ seen'[q] = seen[q]
         /\ at'[r] = next /\ form'[r] = [user |-> u, tenant |-> t, role |-> to]
         /\ seen'[r] = platform
BY DEF Fill, Become, MembershipTypeOK

\* A form that the page of a request leads to.
FormFilled(r, u, t) ==
  \/ DeleteForm(r, u, t)
  \/ \E to \in FormRole :
       UpsertForm(r, u, t, to) \/ \E platform \in PlatformRole : CreateForm(r, u, t, platform, to)
  \/ TenantForm(r, t) \/ ConfirmTenant(r, t)
  \/ \E to \in PlatformRole : RoleForm(r, u, to)
  \/ ReadUser(r, u)

\* Every other step of a request.
StepTaken(r) ==
  \/ Abandon(r)
  \/ \E u \in User, t \in Tenant : Admit(r, u, t) \/ CreateTenant(r, t)
  \/ Assign(r) \/ AssignDelete(r) \/ Existing(r) \/ CheckOwners(r) \/ CheckFails(r)
  \/ FindId(r) \/ UpsertMembership(r) \/ DeleteMembership(r) \/ CreateUser(r)
  \/ ManageUser(r) \/ UpdatePlatformRole(r) \/ WriteUser(r)

LEMMA StepsOfRequests ==
  ASSUME NEW r \in AdminRequest, Handling(r)
  PROVE  StepTaken(r) \/ \E u \in User, t \in Tenant : FormFilled(r, u, t)
BY MembershipAssumption DEF Handling, StepTaken, FormFilled

LEMMA OnlyOneMoves ==
  ASSUME MembershipTypeOK, RequestsFit, NEW r \in AdminRequest, Handling(r)
  PROVE  /\ UNCHANGED start
         /\ \A q \in AdminRequest \ {r} :
              /\ at'[q] = at[q] /\ actor'[q] = actor[q] /\ form'[q] = form[q]
              /\ seen'[q] = seen[q] /\ rowId'[q] = rowId[q]
         /\ \A u \in User : role[u] # None => role'[u] # None
<1> USE DEF MembershipTypeOK, tables, Become
<1>1. CASE \E u \in User, t \in Tenant : Admit(r, u, t)
  BY <1>1 DEF Admit
<1>2. CASE \E u \in User, t \in Tenant : DeleteForm(r, u, t)
  BY <1>2, FillOnlyOne, ZenonT(30) DEF DeleteForm
<1>3. CASE \E u \in User, t \in Tenant, to \in FormRole :
             UpsertForm(r, u, t, to) \/ \E platform \in PlatformRole : CreateForm(r, u, t, platform, to)
  BY <1>3, FillOnlyOne, ZenonT(30) DEF UpsertForm, CreateForm
<1>4. CASE \/ Assign(r) \/ AssignDelete(r) \/ CheckOwners(r) \/ CheckFails(r) \/ ManageUser(r)
           \/ \E t \in Tenant : CreateTenant(r, t)
  BY <1>4 DEF Assign, AssignDelete, CheckOwners, CheckFails, ManageUser, CreateTenant
<1>5. CASE Existing(r) \/ FindId(r)
  BY <1>5 DEF Existing, FindId
<1>6. CASE Abandon(r) \/ UpsertMembership(r) \/ DeleteMembership(r)
  BY <1>6, OverOnlyOne DEF Abandon, UpsertMembership, DeleteMembership
<1>7. CASE CreateUser(r) \/ UpdatePlatformRole(r) \/ WriteUser(r)
  <2>1. CASE CreateUser(r)
    BY <2>1 DEF CreateUser, RequestsFit, RequestFits
  <2>2. CASE UpdatePlatformRole(r)
    BY <2>2, OverOnlyOne, MembershipAssumption DEF UpdatePlatformRole, RequestsFit, RequestFits
  <2>3. CASE WriteUser(r)
    BY <2>3, OverOnlyOne DEF WriteUser, RequestsFit, RequestFits
  <2> QED
    BY <1>7, <2>1, <2>2, <2>3
<1>8. CASE \E t \in Tenant : TenantForm(r, t) \/ ConfirmTenant(r, t)
  BY <1>8, FillOnlyOne, ZenonT(30) DEF TenantForm, ConfirmTenant
<1>9. CASE \/ \E u \in User, to \in PlatformRole : RoleForm(r, u, to)
           \/ \E u \in User : ReadUser(r, u)
  BY <1>9, FillOnlyOne, ZenonT(30) DEF RoleForm, ReadUser
<1> QED
  BY <1>1, <1>2, <1>3, <1>4, <1>5, <1>6, <1>7, <1>8, <1>9 DEF Handling

\* What a page fills in is what its actor may ask for.
LEMMA FormsFit ==
  ASSUME MembersInv, NEW r \in AdminRequest, NEW u \in User, NEW t \in Tenant, FormFilled(r, u, t)
  PROVE  RequestFits(r)' /\ GrantFits(r)'
<1> USE DEF MembersInv
<1>1. RequestFits(r) /\ GrantFits(r)
  BY DEF RequestsFit
<1>2. Active(r) => /\ actor[r] \in Actor /\ actor[r].platform \in PlatformRole
                   /\ actor[r].role \in TenantRole /\ actor[r].user \in User
  BY <1>1 DEF MembershipTypeOK, RequestFits, Actor
<1>3. ASSUME NEW next, NEW v \in User, NEW q \in Tenant, NEW to \in PlatformRole \cup TenantRole,
             NEW platform, at[r] \in {"page", "confirm"},
             Fill(r, next, <<v, q>>, to, platform), UNCHANGED <<tables, start, actor>>
      PROVE  /\ at'[r] = next /\ form'[r] # None
             /\ form'[r].user = v /\ form'[r].tenant = q /\ form'[r].role = to
             /\ seen'[r] = platform /\ UNCHANGED <<actor, role, boot>>
             /\ Active(r) /\ boot = "serving" /\ actor[r] # None /\ role[actor[r].user] # None
  <2>1. [user |-> v, tenant |-> q, role |-> to] \in Form
    BY DEF Form
  <2> QED
    BY <1>1, <1>3, <2>1, FillOnlyOne, MembershipAssumption DEF RequestFits, Active, start, tables
<1>4. CASE DeleteForm(r, u, t)
  <2> DEFINE to == members[u, t].role
  <2>1. Active(r) /\ members[u, t] # None
    BY <1>4 DEF DeleteForm, AdminsUsers, Active
  <2>2. to \in TenantRole
    BY <1>1, <2>1 DEF RequestFits, TranslationGoesOn, Translated
  <2>3. /\ at[r] = "page" /\ Fill(r, "target", <<u, t>>, to, None)
        /\ UNCHANGED <<tables, start, actor>>
    BY <1>4 DEF DeleteForm, AdminsUsers
  <2> HIDE DEF to
  <2>4. /\ at'[r] = "target" /\ form'[r] # None /\ form'[r].role = to
        /\ UNCHANGED <<actor, role, boot>>
        /\ boot = "serving" /\ actor[r] # None /\ role[actor[r].user] # None
    BY <1>3, <2>2, <2>3
  <2> QED
    BY <2>2, <2>4 DEF RequestFits, GrantFits, Active, AboutMember, GivesTenantRole
<1>5. ASSUME NEW to \in FormRole, UpsertForm(r, u, t, to) PROVE RequestFits(r)' /\ GrantFits(r)'
  <2>1. to \in TenantRole
    BY MembershipAssumption
  <2> QED
    BY <1>3, <1>5, <2>1
       DEF UpsertForm, AdminsUsers, RequestFits, GrantFits, Active, AboutMember, GivesTenantRole
<1>6. ASSUME NEW to \in FormRole, NEW platform \in PlatformRole, CreateForm(r, u, t, platform, to)
      PROVE  RequestFits(r)' /\ GrantFits(r)'
  <2>1. to \in TenantRole /\ at[r] = "page" /\ Fill(r, "create", <<u, t>>, to, platform)
        /\ UNCHANGED <<tables, start, actor>>
    BY <1>6, MembershipAssumption DEF CreateForm, AdminsUsers
  <2>2. /\ at'[r] = "create" /\ form'[r] # None /\ form'[r].tenant = t /\ form'[r].role = to
        /\ seen'[r] = platform /\ UNCHANGED <<actor, role, boot>>
        /\ Active(r) /\ boot = "serving" /\ actor[r] # None /\ role[actor[r].user] # None
    BY <1>3, <2>1
  <2>3. RequestFits(r)'
    BY <2>1, <2>2, MembershipAssumption DEF RequestFits, Active, AboutMember, GivesTenantRole
  <2>4. \/ canManagePlatform(actor[r].platform)
        \/ /\ t = actor[r].tenant
           /\ buildPermissionSet("", to) \subseteq buildPermissionSet("", actor[r].role)
    <3>1. CASE actor[r].platform = ""
      BY <1>2, <1>6, <2>1, <2>2, <3>1, GivenIsOwned DEF CreateForm, canManagePlatform
    <3>2. CASE actor[r].platform # ""
      BY <3>2 DEF canManagePlatform
    <3> QED
      BY <3>1, <3>2
  <2>5. platform = "platform_super_admin" => actor[r].platform = "platform_super_admin"
    BY <1>2, <1>6, <2>2, SuperAdminsMakeSuperAdmins DEF CreateForm
  <2> QED
    BY <2>2, <2>3, <2>4, <2>5 DEF GrantFits, OwnsWhatItGives
<1>7. CASE TenantForm(r, t)
  <2>1. "tenant_owner" \in TenantRole
    BY DEF TenantRole
  <2>2. at[r] = "page" /\ canManagePlatform(actor[r].platform) /\ actor[r].user \in User
    BY <1>2, <1>7, TenantManagers DEF TenantForm, Active
  <2> QED
    BY <1>3, <1>7, <2>1, <2>2
       DEF TenantForm, RequestFits, GrantFits, Active, AboutMember, GivesTenantRole
<1>8. CASE ConfirmTenant(r, t)
  <2>1. "tenant_owner" \in TenantRole
    BY DEF TenantRole
  <2>2. /\ at[r] = "confirm" /\ canManagePlatform(actor[r].platform)
        /\ form[r].user = actor[r].user /\ actor[r].user \in User
    BY <1>1, <1>2, <1>8 DEF ConfirmTenant, GrantFits, RequestFits, Active
  <2> QED
    BY <1>3, <1>8, <2>1, <2>2
       DEF ConfirmTenant, RequestFits, GrantFits, OwnsWhatItGives, Active, AboutMember, GivesTenantRole
<1>9. ASSUME NEW to \in PlatformRole, RoleForm(r, u, to) PROVE RequestFits(r)' /\ GrantFits(r)'
  <2>1. at[r] = "page" /\ actor[r].tenant \in Tenant
    BY <1>1, <1>9 DEF RoleForm, RequestFits, Active, MembershipTypeOK, Actor
  <2>2. to = "platform_super_admin" => actor[r].platform = "platform_super_admin"
    BY <1>2, <1>9, SuperAdminsMakeSuperAdmins DEF RoleForm, Active
  <2>3. /\ Fill(r, "manage", <<u, actor[r].tenant>>, to, role[u])
        /\ UNCHANGED <<tables, start, actor>>
    BY <1>9 DEF RoleForm
  <2>4. /\ at'[r] = "manage" /\ form'[r] # None /\ form'[r].role = to
        /\ UNCHANGED <<actor, role, boot>>
        /\ boot = "serving" /\ actor[r] # None /\ role[actor[r].user] # None
    BY <1>3, <2>1, <2>3
  <2> QED
    BY <2>2, <2>4 DEF RequestFits, GrantFits, Active, AboutMember, GivesTenantRole
<1>10. CASE ReadUser(r, u)
  <2>1. PICK to \in PlatformRole :
          /\ at[r] = "page" /\ Fill(r, "write", <<u, actor[r].tenant>>, to, role[u])
          /\ UNCHANGED <<tables, start, actor>> /\ role[u] # None
    BY <1>10 DEF ReadUser, PlatformRole
  <2>2. actor[r].tenant \in Tenant
    BY <1>1, <2>1 DEF RequestFits, Active, MembershipTypeOK, Actor
  <2>3. /\ at'[r] = "write" /\ form'[r] # None /\ seen'[r] = role[u]
        /\ UNCHANGED <<actor, role, boot>>
        /\ boot = "serving" /\ actor[r] # None /\ role[actor[r].user] # None
    BY <1>3, <2>1, <2>2
  <2> QED
    BY <2>1, <2>3 DEF RequestFits, GrantFits, Active, AboutMember, GivesTenantRole
<1> QED
  BY <1>4, <1>5, <1>6, <1>7, <1>8, <1>9, <1>10 DEF FormFilled

\* What a request does next, it may do.
LEMMA StepsFitRequests ==
  ASSUME MembersInv, NEW r \in AdminRequest, StepTaken(r)
  PROVE  RequestFits(r)' /\ GrantFits(r)'
<1> USE DEF MembersInv
<1>1. RequestFits(r) /\ GrantFits(r)
  BY DEF RequestsFit
<1>2. Active(r) => /\ actor[r] \in Actor /\ actor[r].platform \in PlatformRole
                   /\ actor[r].role \in TenantRole /\ actor[r].user \in User
  BY <1>1 DEF MembershipTypeOK, RequestFits, Actor
<1>3. ASSUME at'[r] = "done" PROVE RequestFits(r)' /\ GrantFits(r)'
  BY <1>3 DEF RequestFits, GrantFits, Active, AboutMember, GivesTenantRole
<1>4. CASE Abandon(r) \/ UpsertMembership(r) \/ DeleteMembership(r) \/ UpdatePlatformRole(r) \/ WriteUser(r)
  BY <1>3, <1>4, OverOnlyOne
     DEF Abandon, UpsertMembership, DeleteMembership, UpdatePlatformRole, WriteUser
<1>5. ASSUME NEW u \in User, NEW t \in Tenant, Admit(r, u, t) PROVE RequestFits(r)' /\ GrantFits(r)'
  <2> DEFINE a == [user |-> u, tenant |-> t, platform |-> role[u], role |-> members[u, t].role]
  <2>1. /\ actor'[r] = a /\ at'[r] = "page" /\ UNCHANGED <<role, boot>>
        /\ boot = "serving" /\ role[u] # None /\ members[u, t] # None
    BY <1>5 DEF Admit, Become, MembershipTypeOK, tables, start
  <2>2. a.user = u /\ a \in Actor
    BY <2>1 DEF TranslationGoesOn, Translated, MembershipTypeOK, Actor
  <2> HIDE DEF a
  <2> QED
    BY <2>1, <2>2, MembershipAssumption DEF RequestFits, GrantFits, Active, AboutMember, GivesTenantRole
<1>6. ASSUME NEW t \in Tenant, CreateTenant(r, t) PROVE RequestFits(r)' /\ GrantFits(r)'
  BY <1>1, <1>6
     DEF CreateTenant, Become, MembershipTypeOK, start, RequestFits, GrantFits, Active, AboutMember, GivesTenantRole
<1>7. CASE Assign(r)
  <2>1. PICK row \in RowRead(r) : MayAssign(r, seen[r], row)
    BY <1>7 DEF Assign
  <2>2. OwnsWhatItGives(r)
    <3>1. CASE actor[r].platform = ""
      <4>1. canAssignTenantRole("", actor[r].role, form[r].role) /\ form[r].tenant = actor[r].tenant
        BY <2>1, <3>1 DEF MayAssign, canManagePlatform
      <4>2. form[r].role \in TenantRole /\ actor[r].role \in TenantRole
        BY <1>1, <1>2, <1>7 DEF Assign, RequestFits, GivesTenantRole, AboutMember, Active
      <4> QED
        BY <4>1, <4>2, GivenIsOwned DEF OwnsWhatItGives
    <3>2. CASE actor[r].platform # ""
      BY <3>2 DEF canManagePlatform, OwnsWhatItGives
    <3> QED
      BY <3>1, <3>2
  <2> QED
    BY <1>1, <1>7, <2>2
       DEF Assign, Become, MembershipTypeOK, tables, start, RequestFits, GrantFits, OwnsWhatItGives, Active,
           AboutMember, GivesTenantRole
<1>8. CASE AssignDelete(r)
  BY <1>1, <1>8
     DEF AssignDelete, Become, MembershipTypeOK, tables, start, RequestFits, GrantFits, Active,
         AboutMember, GivesTenantRole
<1>9. CASE Existing(r)
  <2>1. /\ at[r] = "existing" /\ at'[r] \in {"lastOf", "form"} /\ UNCHANGED <<role, boot, actor, form, seen>>
    BY <1>9 DEF Existing, Become, MembershipTypeOK, tables, start
  <2> QED
    BY <1>1, <2>1 DEF RequestFits, GrantFits, OwnsWhatItGives, Active, AboutMember, GivesTenantRole
<1>10. CASE CheckOwners(r) \/ CheckFails(r)
  <2>1. /\ \/ at[r] = "last" /\ at'[r] = "delete"
           \/ at[r] = "lastOf" /\ at'[r] = "form"
        /\ UNCHANGED <<role, boot, actor, form, seen, rowId>>
    BY <1>10 DEF CheckOwners, CheckFails, AfterLast, Become, MembershipTypeOK, tables, start
  <2> QED
    BY <1>1, <2>1 DEF RequestFits, GrantFits, OwnsWhatItGives, Active, AboutMember, GivesTenantRole
<1>11. CASE FindId(r)
  <2>1. PICK id \in FormIds(r) : rowId' = [rowId EXCEPT ![r] = id]
    BY <1>11 DEF FindId
  <2>2. /\ at[r] \in {"form", "id"} /\ at'[r] = "upsert"
        /\ UNCHANGED <<role, boot, actor, form, seen>>
    BY <1>11 DEF FindId, Become, MembershipTypeOK, tables, start
  <2>3. form[r] # None
    BY <1>1, <2>2 DEF RequestFits, Active
  <2>4. rowId'[r] # 0
    BY <2>1, <2>3, FormIdsFit DEF MembershipTypeOK
  <2> QED
    BY <1>1, <2>2, <2>4 DEF RequestFits, GrantFits, OwnsWhatItGives, Active, AboutMember, GivesTenantRole
<1>12. CASE CreateUser(r)
  <2>1. /\ at[r] = "create" /\ at'[r] = "id" /\ UNCHANGED <<boot, actor, form, rowId>>
        /\ role' = [role EXCEPT ![form[r].user] = seen[r]]
    BY <1>12 DEF CreateUser, Become, MembershipTypeOK, start
  <2>2. /\ form[r].user \in User /\ seen[r] # None /\ actor[r].user \in User
    BY <1>1, <1>2, <2>1 DEF RequestFits, Active, MembershipTypeOK, Form
  <2>3. role'[form[r].user] # None /\ (role[actor[r].user] # None => role'[actor[r].user] # None)
    BY <2>1, <2>2 DEF MembershipTypeOK
  <2> QED
    BY <1>1, <2>1, <2>3 DEF RequestFits, GrantFits, OwnsWhatItGives, Active, AboutMember, GivesTenantRole
<1>13. CASE ManageUser(r)
  BY <1>1, <1>13
     DEF ManageUser, Become, MembershipTypeOK, tables, start, RequestFits, GrantFits, Active,
         AboutMember, GivesTenantRole
<1> QED
  BY <1>4, <1>5, <1>6, <1>7, <1>8, <1>9, <1>10, <1>11, <1>12, <1>13 DEF StepTaken

-----------------------------------------------------------------------------
(* Roles and rows while the app serves *)

LEMMA TranslatedUsersKeepRoles ==
  ASSUME NEW u \in User
  PROVE  /\ Translated(u) => DesiredPlatformRole(u) = role[u]
         /\ Translated(u)' => DesiredPlatformRole(u)' = role'[u]
<1>1. Translated(u) => Standing(u) = {}
  BY TenantRolesAreNormal DEF Translated, Standing
<1>2. Translated(u)' => Standing(u)' = {}
  BY TenantRolesAreNormal DEF Translated, Standing
<1>3. Standing(u) = {} => DesiredPlatformRole(u) = role[u]
  <2>1. CASE role[u] = ""
    BY <2>1 DEF DesiredPlatformRole, Standing
  <2>2. CASE role[u] # ""
    BY <2>2 DEF DesiredPlatformRole
  <2> QED
    BY <2>1, <2>2
<1>4. Standing(u)' = {} => DesiredPlatformRole(u)' = role'[u]
  <2>1. CASE role'[u] = ""
    BY <2>1 DEF DesiredPlatformRole, Standing
  <2>2. CASE role'[u] # ""
    BY <2>2 DEF DesiredPlatformRole
  <2> QED
    BY <2>1, <2>2
<1> QED
  BY <1>1, <1>2, <1>3, <1>4

LEMMA HandlingServes ==
  ASSUME MembersInv, NEW r \in AdminRequest, Handling(r)
  PROVE  boot = "serving" /\ todo = {} /\ \A u \in User : Translated(u)
<1>1. Active(r) \/ \E u \in User, t \in Tenant : Admit(r, u, t)
  BY DEF Handling, Active, Abandon, DeleteForm, AdminsUsers, UpsertForm, CreateForm, Assign,
         AssignDelete, Existing, CheckOwners, CheckFails, FindId, UpsertMembership, DeleteMembership,
         CreateUser, TenantForm, CreateTenant, ConfirmTenant, RoleForm, ManageUser,
         UpdatePlatformRole, ReadUser, WriteUser
<1>2. boot = "serving"
  BY <1>1 DEF MembersInv, RequestsFit, RequestFits, Admit
<1> QED
  BY <1>2 DEF MembersInv, TranslationGoesOn

\* A write of a request: rows stay translated, and what is given is written.
LEMMA ServingTables ==
  ASSUME boot' = "serving", todo' = {},
         \A m \in Member : members'[m] # None =>
            members'[m].role \in TenantRole /\ role'[m[1]] # None,
         "restored" \notin faults' => \A u \in User : granted'[u] = role'[u]
  PROVE  MembersAreUsers' /\ TranslationGoesOn' /\ GivenIsDesired'
<1>1. \A u \in User : Translated(u)'
  BY DEF Translated, Member
<1>2. TranslationGoesOn'
  BY <1>1, MembershipAssumption DEF TranslationGoesOn, Boot
<1>3. GivenIsDesired'
  BY <1>1, TranslatedUsersKeepRoles DEF GivenIsDesired
<1> QED
  BY <1>2, <1>3 DEF MembersAreUsers

\* A request writes a row with a role of today, or takes one away, or gives a
\* user a role and says so.
LEMMA RequestTables ==
  ASSUME MembersInv, NEW r \in AdminRequest, Handling(r)
  PROVE  MembersAreUsers' /\ TranslationGoesOn' /\ GivenIsDesired'
<1> USE DEF MembersInv
<1>1. boot = "serving" /\ todo = {} /\ \A u \in User : Translated(u)
  BY HandlingServes
<1>2. UNCHANGED start
  BY OnlyOneMoves
<1>3. \A m \in Member : members[m] # None => members[m].role \in TenantRole /\ role[m[1]] # None
  <2>1. \A u \in User, t \in Tenant : members[u, t] # None => members[u, t].role \in TenantRole
    BY <1>1 DEF Translated
  <2>2. ASSUME NEW m \in Member, members[m] # None PROVE members[m].role \in TenantRole
    <3>1. PICK u \in User, t \in Tenant : m = <<u, t>>
      BY DEF Member
    <3> QED
      BY <2>1, <2>2, <3>1
  <2> QED
    BY <2>2 DEF MembersAreUsers
<1>4. "restored" \notin faults => \A u \in User : granted[u] = role[u]
  BY <1>1, TranslatedUsersKeepRoles DEF GivenIsDesired
<1>5. RequestFits(r) /\ (Active(r) /\ at[r] # "page" => form[r] \in Form)
  BY DEF RequestsFit, RequestFits, MembershipTypeOK
<1>6. CASE UpsertMembership(r)
  <2> DEFINE m == <<form[r].user, form[r].tenant>>
             rs == Upserted(m, form[r].role, rowId[r])
  <2>1. /\ WriteMembers(rs, {r}) /\ UNCHANGED <<role, tenants, start, granted>>
        /\ at[r] = "upsert"
    BY <1>6 DEF UpsertMembership
  <2>2. /\ form[r].role \in TenantRole /\ role[form[r].user] # None /\ m[1] = form[r].user
        /\ rs[m].role = form[r].role /\ \A n \in Member \ {m} : rs[n] = members[n]
    BY <2>1, UpsertedByRequest
  <2>3. members' = rs /\ faults \subseteq faults'
    BY <2>1 DEF WriteMembers
  <2> HIDE DEF m, rs
  <2>4. \A n \in Member : members'[n] # None => members'[n].role \in TenantRole /\ role'[n[1]] # None
    BY <1>3, <2>1, <2>2, <2>3
  <2> QED
    BY <1>1, <1>2, <1>4, <2>1, <2>3, <2>4, ServingTables DEF start
<1>7. CASE DeleteMembership(r)
  <2>1. /\ \A n \in Member : members'[n] # None => members'[n] = members[n]
        /\ UNCHANGED <<role, granted>> /\ faults \subseteq faults'
    BY <1>7 DEF DeleteMembership, WriteMembers, MembershipTypeOK
  <2> QED
    BY <1>1, <1>2, <1>3, <1>4, <2>1, ServingTables DEF start
<1>8. CASE CreateUser(r) \/ UpdatePlatformRole(r)
  <2>1. PICK to \in PlatformRole :
          /\ role' = [role EXCEPT ![form[r].user] = to]
          /\ granted' = [granted EXCEPT ![form[r].user] = to]
    BY <1>5, <1>8 DEF CreateUser, UpdatePlatformRole, RequestFits, MembershipTypeOK
  <2>2. UNCHANGED <<members, faults>>
    BY <1>8 DEF CreateUser, UpdatePlatformRole
  <2>3. "restored" \notin faults' => \A u \in User : granted'[u] = role'[u]
    BY <1>4, <2>1, <2>2 DEF MembershipTypeOK
  <2>4. \A u \in User : role[u] # None => role'[u] # None
    BY <2>1, MembershipAssumption DEF MembershipTypeOK
  <2>5. \A m \in Member : members'[m] # None =>
            members'[m].role \in TenantRole /\ role'[m[1]] # None
    BY <1>3, <2>2, <2>4 DEF Member
  <2> QED
    BY <1>1, <1>2, <2>3, <2>5, ServingTables DEF start
<1>9. CASE WriteUser(r)
  <2>1. /\ role' = [role EXCEPT ![form[r].user] = seen[r]]
        /\ faults' = IF seen[r] = role[form[r].user] THEN faults ELSE faults \cup {"restored"}
        /\ UNCHANGED <<members, granted>>
    BY <1>9 DEF WriteUser
  <2>2. \A u \in User : role[u] # None => role'[u] # None
    BY OnlyOneMoves
  <2>3. \A m \in Member : members'[m] # None =>
            members'[m].role \in TenantRole /\ role'[m[1]] # None
    BY <1>3, <2>1, <2>2 DEF Member
  <2>4. "restored" \notin faults' => \A u \in User : granted'[u] = role'[u]
    BY <1>4, <2>1 DEF MembershipTypeOK
  <2> QED
    BY <1>1, <1>2, <2>3, <2>4, ServingTables DEF start
<1>10. CASE UNCHANGED <<role, members, granted, faults>>
  BY <1>2, <1>10, TablesStay
<1>11. \/ UpsertMembership(r) \/ DeleteMembership(r) \/ CreateUser(r) \/ UpdatePlatformRole(r)
       \/ WriteUser(r) \/ UNCHANGED <<role, members, granted, faults>>
  BY ZenonT(30) DEF Handling, Abandon, Admit, DeleteForm, UpsertForm, CreateForm, Assign, AssignDelete, Existing,
         CheckOwners, CheckFails, FindId, TenantForm, CreateTenant, ConfirmTenant, RoleForm, ManageUser,
         ReadUser, tables, memberNotes
<1> QED
  BY <1>6, <1>7, <1>8, <1>9, <1>10, <1>11

-----------------------------------------------------------------------------
(* Owners *)

\* A request that writes no row.
LEMMA OwnersFrame ==
  ASSUME MembersInv, NEW r \in AdminRequest, Handling(r),
         UNCHANGED <<members, owned>>, faults \subseteq faults', sure' \subseteq sure \cup {r},
         r \in sure' => /\ at'[r] \in {"delete", "form", "id", "upsert"}
                        /\ \E v \in Owners(form'[r].tenant, members) : v # form'[r].user
  PROVE  OwnersStay' /\ SureHasAnother'
<1>1. \A t : Owners(t, members)' = Owners(t, members)
  BY DEF Owners
<1>2. OwnersStay'
  BY <1>1 DEF MembersInv, OwnersStay
<1>3. ASSUME NEW q \in sure', q # r
      PROVE  /\ at'[q] \in {"delete", "form", "id", "upsert"}
             /\ \E v \in Owners(form'[q].tenant, members) : v # form'[q].user
  <2>1. q \in sure /\ q \in AdminRequest \ {r}
    BY <1>3 DEF MembersInv, MembershipTypeOK
  <2>2. at'[q] = at[q] /\ form'[q] = form[q]
    BY <2>1, OnlyOneMoves DEF MembersInv
  <2> QED
    BY <2>1, <2>2 DEF MembersInv, SureHasAnother
<1>4. SureHasAnother'
  BY <1>1, <1>3 DEF SureHasAnother
<1> QED
  BY <1>2, <1>4

\* A request that writes takes no other owner away than its form names.
LEMMA RequestWrites ==
  ASSUME MembersInv, NEW r \in AdminRequest, Handling(r), NEW rs \in Rows, Active(r), at[r] # "page",
         WriteMembers(rs, {r}),
         \A n \in Member \ {<<form[r].user, form[r].tenant>>} : rs[n] = members[n]
  PROVE  OwnersStay' /\ SureHasAnother'
<1>1. \A t \in Tenant, v \in User :
        v \in Owners(t, members) /\ v \notin Owners(t, rs) =>
          form[r].tenant = t /\ form[r].user = v
  <2> SUFFICES ASSUME NEW t \in Tenant, NEW v \in User, <<v, t>> # <<form[r].user, form[r].tenant>>
               PROVE  rs[v, t] = members[v, t]
    BY DEF Owners
  <2> QED
    BY DEF Member
<1>2. \A q \in sure \ {r} : at'[q] = at[q] /\ form'[q] = form[q]
  BY OnlyOneMoves DEF MembersInv, MembershipTypeOK
<1>3. \A q \in sure : form[q] \in Form
  BY DEF MembersInv, MembershipTypeOK, SureHasAnother, RequestsFit, RequestFits, Active
<1> QED
  BY <1>1, <1>2, <1>3, WriteKeepsOwners DEF MembersInv

LEMMA RequestOwners ==
  ASSUME MembersInv, NEW r \in AdminRequest, Handling(r)
  PROVE  OwnersStay' /\ SureHasAnother'
<1> USE DEF MembersInv
<1>2. CASE UpsertMembership(r)
  <2> DEFINE m == <<form[r].user, form[r].tenant>>
             rs == Upserted(m, form[r].role, rowId[r])
  <2>1. WriteMembers(rs, {r}) /\ at[r] = "upsert"
    BY <1>2 DEF UpsertMembership
  <2>2. rs \in Rows /\ \A n \in Member \ {m} : rs[n] = members[n]
    BY <2>1, UpsertedByRequest
  <2> HIDE DEF rs
  <2> QED
    BY <2>1, <2>2, RequestWrites DEF Active
<1>3. CASE DeleteMembership(r)
  <2> DEFINE m == <<form[r].user, form[r].tenant>>
             rs == IF members[m] # None /\ members[m].id = rowId[r]
                   THEN [members EXCEPT ![m] = None] ELSE members
  <2>1. WriteMembers(rs, {r}) /\ at[r] = "delete"
    BY <1>3 DEF DeleteMembership
  <2>2. rs \in Rows /\ \A n \in Member \ {m} : rs[n] = members[n]
    BY DEF Rows, MembershipTypeOK
  <2> HIDE DEF rs
  <2> QED
    BY <2>1, <2>2, RequestWrites DEF Active
<1>4. CASE CheckOwners(r)
  <2> DEFINE u == form[r].user
             t == form[r].tenant
  <2>1. /\ at[r] \in {"last", "lastOf"} /\ ~ isLastTenantOwner(u, t, rowId[r])
        /\ at' = [at EXCEPT ![r] = AfterLast(r)] /\ sure' = IF HasRow(r) THEN sure \cup {r} ELSE sure
        /\ UNCHANGED <<tables, form, owned, faults>>
    BY <1>4 DEF CheckOwners, Become
  <2>2. r \notin sure
    BY <2>1 DEF SureHasAnother
  <2>3. at'[r] \in {"delete", "form"}
    BY <2>1 DEF AfterLast, MembershipTypeOK
  <2>4. PICK v \in Owners(t, members) : ~(v = u /\ members[v, t].id = rowId[r])
    BY <2>1 DEF isLastTenantOwner
  <2>5. HasRow(r) => v # u
    BY <2>4 DEF HasRow
  <2>6. r \in sure' => v # u
    BY <2>1, <2>2, <2>5
  <2> QED
    BY <2>1, <2>3, <2>4, <2>6, OwnersFrame DEF tables
<1>5. CASE FindId(r)
  <2>1. /\ at'[r] = "upsert" /\ UNCHANGED <<tables, form, memberNotes>>
    BY <1>5 DEF FindId, Become, MembershipTypeOK
  <2>2. r \in sure => \E v \in Owners(form[r].tenant, members) : v # form[r].user
    BY DEF SureHasAnother
  <2> QED
    BY <2>1, <2>2, OwnersFrame DEF tables, memberNotes
<1>6. CASE Abandon(r)
  BY <1>6, OwnersFrame DEF Abandon, tables
<1>7. CASE at[r] \notin {"delete", "form", "id", "upsert"} /\ UNCHANGED <<members, owned, sure>>
           /\ faults \subseteq faults'
  <2>1. r \notin sure
    BY <1>7 DEF SureHasAnother
  <2> QED
    BY <1>7, <2>1, OwnersFrame
<1>8. \/ UpsertMembership(r) \/ DeleteMembership(r) \/ CheckOwners(r) \/ FindId(r) \/ Abandon(r)
      \/ /\ at[r] \notin {"delete", "form", "id", "upsert"} /\ UNCHANGED <<members, owned, sure>>
         /\ faults \subseteq faults'
  BY ZenonT(30) DEF Handling, Admit, DeleteForm, AdminsUsers, UpsertForm, CreateForm, Assign, AssignDelete, Existing,
         CheckFails, CreateUser, TenantForm, CreateTenant, ConfirmTenant, RoleForm, ManageUser,
         UpdatePlatformRole, ReadUser, WriteUser, tables, memberNotes
<1> QED
  BY <1>2, <1>3, <1>4, <1>5, <1>6, <1>7, <1>8

\* A step of one request.
LEMMA RequestStepKeeps ==
  ASSUME MembersInv, NEW r \in AdminRequest, Handling(r)
  PROVE  MembersInv'
<1>1. RequestFits(r)' /\ GrantFits(r)'
  BY StepsOfRequests, FormsFit, StepsFitRequests
<1>2. RequestsFit'
  BY <1>1, OnlyOneMoves, OthersFit DEF MembersInv, start
<1> QED
  BY <1>2, RequestTypes, RequestTables, RequestOwners DEF MembersInv

-----------------------------------------------------------------------------
(* The start of the app *)

Earliest(S) == CHOOSE t \in S : \A q \in S : Rank[t] <= Rank[q]

LEMMA DesiredIs ==
  ASSUME NEW u \in User
  PROVE  /\ DesiredPlatformRole(u) =
              IF role[u] # "" THEN role[u] ELSE IF Standing(u) = {} THEN ""
              ELSE PlatformRoleOf(members[u, Earliest(Standing(u))].role)
         /\ DesiredPlatformRole(u)' =
              IF role'[u] # "" THEN role'[u] ELSE IF Standing(u)' = {} THEN ""
              ELSE PlatformRoleOf(members'[u, Earliest(Standing(u)')].role)
<1>1. /\ role[u] # "" => DesiredPlatformRole(u) = role[u]
      /\ role[u] = "" /\ Standing(u) = {} => DesiredPlatformRole(u) = ""
      /\ role[u] = "" /\ Standing(u) # {} =>
           DesiredPlatformRole(u) = PlatformRoleOf(members[u, Earliest(Standing(u))].role)
  BY DEF DesiredPlatformRole, Standing, Earliest
<1>2. /\ role'[u] # "" => DesiredPlatformRole(u)' = role'[u]
      /\ role'[u] = "" /\ Standing(u)' = {} => DesiredPlatformRole(u)' = ""
      /\ role'[u] = "" /\ Standing(u)' # {} =>
           DesiredPlatformRole(u)' = PlatformRoleOf(members'[u, Earliest(Standing(u)')].role)
  BY DEF DesiredPlatformRole, Standing, Earliest
<1> QED
  BY <1>1, <1>2

\* What a user is left with when neither its role nor its rows change.
LEMMA SameUser ==
  ASSUME NEW u \in User, role'[u] = role[u], \A t \in Tenant : members'[u, t] = members[u, t]
  PROVE  /\ DesiredPlatformRole(u)' = DesiredPlatformRole(u)
         /\ Standing(u)' = Standing(u) /\ Translated(u)' = Translated(u)
<1>1. Standing(u)' = Standing(u) /\ Translated(u)' = Translated(u)
  BY DEF Standing, Translated
<1>2. Standing(u) # {} => Earliest(Standing(u)) \in Tenant
  BY FirstTenant DEF Standing, Earliest
<1> QED
  BY <1>1, <1>2, DesiredIs

\* Before the app serves, no request is under way.
LEMMA NobodyAsks ==
  ASSUME MembersInv, boot # "serving"
  PROVE  sure = {} /\ (\A r \in AdminRequest : ~ Active(r)) /\ (UNCHANGED request => RequestsFit')
<1>1. \A r \in AdminRequest : ~ Active(r)
  BY DEF MembersInv, RequestsFit, RequestFits
<1>2. sure = {}
  BY <1>1 DEF MembersInv, SureHasAnother, MembershipTypeOK, Active
<1>3. ASSUME UNCHANGED request PROVE RequestsFit'
  BY <1>1, <1>3
     DEF request, RequestsFit, RequestFits, GrantFits, Active, AboutMember, GivesTenantRole
<1> QED
  BY <1>1, <1>2, <1>3

\* A step of the start that writes no row.
LEMMA BootFrame ==
  ASSUME MembersInv, boot # "serving", UNCHANGED <<members, request, owned, sure, faults>>
  PROVE  RequestsFit' /\ OwnersStay' /\ SureHasAnother'
<1>1. \A t : Owners(t, members)' = Owners(t, members)
  BY DEF Owners
<1> QED
  BY <1>1, NobodyAsks DEF MembersInv, OwnersStay, SureHasAnother

\* The first user becomes a super administrator.
LEMMA RootGiven ==
  ASSUME MembersInv, UNCHANGED <<members, faults>>, boot' \in Boot \ {"translate", "serving"},
         role' = [role EXCEPT ![Root] = "platform_super_admin"],
         granted' = [granted EXCEPT ![Root] = "platform_super_admin"]
  PROVE  MembersAreUsers' /\ TranslationGoesOn' /\ GivenIsDesired'
<1> USE DEF MembersInv
<1>1. \A u \in User \ {Root} : role'[u] = role[u] /\ granted'[u] = granted[u]
  BY DEF MembershipTypeOK
<1>2. role'[Root] = "platform_super_admin" /\ granted'[Root] = "platform_super_admin" /\ Root \in User
  BY MembershipAssumption DEF MembershipTypeOK
<1>3. "platform_super_admin" # None
  BY MembershipAssumption DEF PlatformRole
<1>4. MembersAreUsers'
  BY <1>1, <1>2, <1>3 DEF MembersAreUsers, Member
<1>5. GivenIsDesired'
  BY <1>1, <1>2, SameUser, DesiredIs DEF GivenIsDesired
<1>6. TranslationGoesOn'
  BY MembershipAssumption DEF TranslationGoesOn
<1> QED
  BY <1>4, <1>5, <1>6

\* A step of the start that writes neither users nor rows.
LEMMA BootTablesStay ==
  ASSUME MembersInv, UNCHANGED <<role, members, granted, faults>>
  PROVE  /\ GivenIsDesired' /\ (boot' # "owner" => MembersAreUsers')
         /\ \A u \in User : Translated(u)' = Translated(u)
<1>1. \A u \in User : DesiredPlatformRole(u)' = DesiredPlatformRole(u) /\ Translated(u)' = Translated(u)
  BY SameUser
<1> QED
  BY <1>1 DEF MembersInv, GivenIsDesired, MembersAreUsers

\* A row that the start writes robs no tenant of an owner.
LEMMA BootWrites ==
  ASSUME MembersInv, boot # "serving", UNCHANGED request, NEW rs \in Rows, WriteMembers(rs, {}),
         \A t \in Tenant : Owners(t, members) \subseteq Owners(t, rs)
  PROVE  RequestsFit' /\ OwnersStay' /\ SureHasAnother' /\ members' = rs
         /\ ("restored" \notin faults' => "restored" \notin faults)
<1>1. sure = {} /\ RequestsFit'
  BY NobodyAsks
<1>2. OwnersStay' /\ SureHasAnother'
  BY <1>1, WriteKeepsOwners DEF MembersInv
<1> QED
  BY <1>1, <1>2 DEF WriteMembers

LEMMA RestoreOwnerKeeps ==
  ASSUME MembersInv, RestoreOwner
  PROVE  MembersInv'
<1> USE DEF MembersInv
<1> DEFINE rs == Upserted(<<Root, Home>>, "tenant_owner", rowIds[Root, Home] + 1)
<1>1. <<Root, Home>> \in Member /\ "tenant_owner" \in TenantRole /\ Root \in User /\ Home \in Tenant
  BY MembershipAssumption DEF Member, TenantRole
<1>2. /\ boot = "owner" /\ boot' = "list" /\ WriteMembers(rs, {})
      /\ UNCHANGED <<role, tenants, todo, request, granted>>
  BY DEF RestoreOwner
<1>3. members[Root, Home] # None \/ rowIds[Root, Home] + 1 \in 1..MaxRows
  <2>1. rowIds[Root, Home] \in 0..MaxRows
    BY <1>1 DEF MembershipTypeOK
  <2> QED
    BY <2>1, Ids DEF RestoreOwner
<1>4. /\ rs \in Rows /\ rs[Root, Home] # None /\ rs[Root, Home].role = "tenant_owner"
      /\ \A n \in Member \ {<<Root, Home>>} : rs[n] = members[n]
  <2> DEFINE m == <<Root, Home>>
             id == rowIds[Root, Home] + 1
  <2>1. m \in Member /\ (members[m] # None \/ id \in 1..MaxRows) /\ rs = Upserted(m, "tenant_owner", id)
    BY <1>1, <1>3
  <2> HIDE DEF rs, m, id
  <2>2. /\ rs \in Rows /\ rs[m] # None /\ rs[m].role = "tenant_owner"
        /\ \A n \in Member \ {m} : rs[n] = members[n]
    BY <1>1, <2>1, UpsertedRows
  <2> QED
    BY <2>2 DEF m
<1> HIDE DEF rs
<1>5. \A t \in Tenant : Owners(t, members) \subseteq Owners(t, rs)
  BY <1>1, <1>4, TenantRolesAreNormal DEF Owners, Member
<1>6. /\ RequestsFit' /\ OwnersStay' /\ SureHasAnother' /\ members' = rs
      /\ ("restored" \notin faults' => "restored" \notin faults)
  BY <1>2, <1>4, <1>5, BootWrites
<1>7. role[Root] = "platform_super_admin" /\ role[Root] # None
  BY <1>2, MembershipAssumption DEF MembersAreUsers, PlatformRole
<1>8. MembersAreUsers'
  <2> SUFFICES ASSUME NEW m \in Member, members'[m] # None PROVE role[m[1]] # None
    BY <1>2 DEF MembersAreUsers
  <2>1. CASE m = <<Root, Home>>
    BY <1>7, <2>1
  <2>2. CASE m # <<Root, Home>>
    BY <1>4, <1>6, <2>2 DEF MembersAreUsers
  <2> QED
    BY <2>1, <2>2
<1>9. TranslationGoesOn'
  BY <1>2, MembershipAssumption DEF TranslationGoesOn, Boot
<1>10. GivenIsDesired'
  <2> SUFFICES ASSUME "restored" \notin faults', NEW u \in User PROVE granted[u] = DesiredPlatformRole(u)'
    BY <1>2 DEF GivenIsDesired
  <2>1. granted[u] = DesiredPlatformRole(u)
    BY <1>6 DEF GivenIsDesired
  <2>2. CASE u = Root
    BY <1>2, <1>7, <2>1, <2>2, DesiredIs
  <2>3. CASE u # Root
    <3>1. \A t \in Tenant : members'[u, t] = members[u, t]
      BY <1>4, <1>6, <2>3 DEF Member
    <3> QED
      BY <1>2, <2>1, <3>1, SameUser
  <2> QED
    BY <2>2, <2>3
<1>11. MembershipTypeOK'
  BY BootTypes DEF Booting
<1> QED
  BY <1>6, <1>8, <1>9, <1>10, <1>11

LEMMA TranslateUserKeeps ==
  ASSUME MembersInv, NEW u \in User, TranslateUser(u)
  PROVE  MembersInv'
<1> USE DEF MembersInv
<1>1. /\ boot = "translate" /\ boot' = u /\ role' = [role EXCEPT ![u] = DesiredPlatformRole(u)]
      /\ UNCHANGED <<members, tenants, rowIds, todo, request, memberNotes>>
  BY DEF TranslateUser
<1>2. UNCHANGED <<members, request, granted, owned, sure, faults>>
  BY <1>1 DEF memberNotes
<1>3. \A v \in User \ {u} : role'[v] = role[v]
  BY <1>1 DEF MembershipTypeOK
<1>4. role'[u] = DesiredPlatformRole(u)
  BY <1>1 DEF MembershipTypeOK
<1>5. \A v \in User : Translated(v)' = Translated(v) /\ Standing(v)' = Standing(v)
  BY <1>2 DEF Translated, Standing
<1>6. MembersAreUsers'
  <2>1. \A v \in User : role[v] # None => role'[v] # None
    BY <1>3, <1>4, DesiredRole DEF MembershipTypeOK
  <2>2. boot' # "owner"
    BY <1>1, MembershipAssumption DEF Boot
  <2> QED
    BY <1>2, <2>1, <2>2 DEF MembersAreUsers, Member
<1>7. DesiredPlatformRole(u) = "" => Standing(u) = {}
  BY DesiredRole DEF MembershipTypeOK
<1>8. TranslationGoesOn'
  <2>1. boot' # "serving" /\ todo' = todo
    BY <1>1, MembershipAssumption DEF Boot
  <2> QED
    BY <1>1, <1>4, <1>5, <1>7, <2>1 DEF TranslationGoesOn
<1>9. GivenIsDesired'
  <2>1. DesiredPlatformRole(u)' = DesiredPlatformRole(u)
    BY <1>4, <1>5, <1>7, DesiredIs
  <2>2. \A v \in User \ {u} : DesiredPlatformRole(v)' = DesiredPlatformRole(v)
    BY <1>2, <1>3, SameUser
  <2> QED
    BY <1>2, <2>1, <2>2 DEF GivenIsDesired
<1>10. MembershipTypeOK'
  BY BootTypes DEF Booting
<1> QED
  BY <1>1, <1>2, <1>6, <1>8, <1>9, <1>10, BootFrame

LEMMA TranslateMemberKeeps ==
  ASSUME MembersInv, NEW u \in User, NEW t \in Tenant, TranslateMember(u, t)
  PROVE  MembersInv'
<1> USE DEF MembersInv
<1> DEFINE to == normalizeTenantRole(members[u, t].role)
           rs == Upserted(<<u, t>>, to, rowIds[u, t])
<1>1. <<u, t>> \in Member /\ to \in TenantRole /\ normalizeTenantRole(to) = to
  BY TenantRolesAreNormal DEF Member
<1>2. /\ boot = u /\ boot' = u /\ members[u, t] # None /\ WriteMembers(rs, {})
      /\ UNCHANGED <<role, tenants, todo, request, granted>>
  BY DEF TranslateMember, start
<1>3. u # "serving" /\ u # "owner"
  BY MembershipAssumption DEF Boot
<1> USE DEF Owners
<1>4. \A q \in Tenant : Owners(q, members) =
        {v \in User : members[v, q] # None /\
           (IF v = u /\ q = t THEN to ELSE normalizeTenantRole(members[v, q].role)) = "tenant_owner"}
  OBVIOUS
<1> HIDE DEF to
<1>5. /\ rs \in Rows /\ rs[u, t] # None /\ rs[u, t].role = to
      /\ \A n \in Member \ {<<u, t>>} : rs[n] = members[n]
  <2> DEFINE m == <<u, t>>
             id == rowIds[u, t]
  <2>1. m \in Member /\ members[m] # None /\ rs = Upserted(m, to, id)
    BY <1>1, <1>2
  <2> HIDE DEF rs, m, id
  <2>2. /\ rs \in Rows /\ rs[m] # None /\ rs[m].role = to
        /\ \A n \in Member \ {m} : rs[n] = members[n]
    BY <1>1, <2>1, UpsertedRows
  <2> QED
    BY <2>2 DEF m
<1> HIDE DEF rs
<1>6. \A q \in Tenant, v \in User : v # u \/ q # t => rs[v, q] = members[v, q]
  BY <1>5 DEF Member
<1>7. \A q \in Tenant : Owners(q, members) \subseteq Owners(q, rs)
  BY <1>1, <1>4, <1>5, <1>6
<1> HIDE DEF Owners
<1>8. /\ RequestsFit' /\ OwnersStay' /\ SureHasAnother' /\ members' = rs
      /\ ("restored" \notin faults' => "restored" \notin faults)
  BY <1>2, <1>3, <1>5, <1>7, BootWrites
<1>9. MembersAreUsers'
  <2>1. \A n \in Member : members'[n] # None => members[n] # None
    BY <1>2, <1>5, <1>8
  <2> QED
    BY <1>2, <1>3, <2>1 DEF MembersAreUsers
<1>10. \A v \in User : Translated(v) => Translated(v)'
  BY <1>1, <1>5, <1>6, <1>8 DEF Translated
<1>11. Standing(u)' \subseteq Standing(u)
  BY <1>1, <1>5, <1>6, <1>8, TenantRolesAreNormal DEF Standing
<1>12. TranslationGoesOn'
  BY <1>2, <1>3, <1>10, <1>11 DEF TranslationGoesOn
<1>13. GivenIsDesired'
  <2>1. DesiredPlatformRole(u)' = DesiredPlatformRole(u)
    BY <1>2, <1>11, DesiredIs DEF TranslationGoesOn
  <2>2. \A v \in User \ {u} : DesiredPlatformRole(v)' = DesiredPlatformRole(v)
    BY <1>2, <1>6, <1>8, SameUser
  <2> QED
    BY <1>2, <1>8, <2>1, <2>2 DEF GivenIsDesired
<1>14. MembershipTypeOK'
  BY BootTypes DEF Booting
<1> QED
  BY <1>8, <1>9, <1>12, <1>13, <1>14

LEMMA BootKeeps == MembersInv /\ Booting => MembersInv'
<1> SUFFICES ASSUME MembersInv, Booting PROVE MembersInv'
  OBVIOUS
<1>1. MembershipTypeOK'
  BY BootTypes
<1>2. \A u \in User : u # "serving" /\ u # "translate" /\ u # "owner"
  BY MembershipAssumption DEF Boot
<1>3. boot # "serving"
  BY <1>2 DEF Booting, SeedUser, ensureBootstrapTenant, RestoreRoot, RestoreOwner, ListUsers, Serve,
              TranslateUser, NextUser, TranslateMember
<1>4. CASE SeedUser
  <2>1. CASE \A u \in User : role[u] = None
    <3>1. /\ role' = [role EXCEPT ![Root] = "platform_super_admin"]
          /\ granted' = [granted EXCEPT ![Root] = "platform_super_admin"]
          /\ boot' \in Boot \ {"translate", "serving"}
          /\ UNCHANGED <<members, request, owned, sure, faults>>
      BY <1>4, <2>1 DEF SeedUser, Boot
    <3> QED
      BY <1>1, <1>3, <3>1, RootGiven, BootFrame DEF MembersInv
  <2>2. CASE \E u \in User : role[u] # None
    <3>1. boot' = "tenant" /\ UNCHANGED <<role, granted, members, request, owned, sure, faults>>
      BY <1>4, <2>2 DEF SeedUser
    <3>2. TranslationGoesOn'
      BY <3>1, MembershipAssumption DEF TranslationGoesOn, Boot
    <3> QED
      BY <1>1, <1>3, <3>1, <3>2, BootTablesStay, BootFrame DEF MembersInv
  <2> QED
    BY <2>1, <2>2
<1>5. CASE ensureBootstrapTenant
  <2>1. boot' = "root" /\ UNCHANGED <<role, granted, members, request, owned, sure, faults>>
    BY <1>5 DEF ensureBootstrapTenant, memberNotes
  <2>2. TranslationGoesOn'
    BY <2>1, MembershipAssumption DEF TranslationGoesOn, Boot
  <2> QED
    BY <1>1, <1>3, <2>1, <2>2, BootTablesStay, BootFrame DEF MembersInv
<1>6. CASE RestoreRoot
  <2>1. CASE role[Root] = None
    <3>1. boot' = "list" /\ UNCHANGED <<role, granted, members, request, owned, sure, faults>>
      BY <1>6, <2>1 DEF RestoreRoot
    <3>2. TranslationGoesOn'
      BY <3>1, MembershipAssumption DEF TranslationGoesOn, Boot
    <3> QED
      BY <1>1, <1>3, <3>1, <3>2, BootTablesStay, BootFrame DEF MembersInv
  <2>2. CASE role[Root] # None
    <3>1. /\ role' = [role EXCEPT ![Root] = "platform_super_admin"]
          /\ granted' = [granted EXCEPT ![Root] = "platform_super_admin"]
          /\ boot' \in Boot \ {"translate", "serving"}
          /\ UNCHANGED <<members, request, owned, sure, faults>>
      BY <1>6, <2>2 DEF RestoreRoot, Boot
    <3> QED
      BY <1>1, <1>3, <3>1, RootGiven, BootFrame DEF MembersInv
  <2> QED
    BY <2>1, <2>2
<1>7. CASE RestoreOwner
  BY <1>7, RestoreOwnerKeeps
<1>8. CASE ListUsers
  <2>1. /\ boot' = "translate" /\ todo' = {u \in User : role[u] # None}
        /\ UNCHANGED <<role, granted, members, request, owned, sure, faults>>
    BY <1>8 DEF ListUsers, tables, memberNotes
  <2>2. ASSUME NEW u \in User \ todo' PROVE Translated(u)
    <3>1. \A t \in Tenant : <<u, t>> \in Member /\ <<u, t>>[1] = u
      BY DEF Member
    <3>2. role[u] = None
      BY <2>1
    <3>3. \A t \in Tenant : members[<<u, t>>] = None
      BY <3>1, <3>2 DEF MembersInv, MembersAreUsers
    <3> QED
      BY <3>3 DEF Translated
  <2>3. TranslationGoesOn'
    BY <1>2, <2>1, <2>2, BootTablesStay DEF TranslationGoesOn
  <2> QED
    BY <1>1, <1>3, <2>1, <2>3, BootTablesStay, BootFrame DEF MembersInv
<1>9. ASSUME NEW u \in User, NextUser(u) PROVE MembersInv'
  <2>1. /\ boot = u /\ boot' = "translate" /\ todo' = todo \ {u}
        /\ UNCHANGED <<role, granted, members, request, owned, sure, faults>>
        /\ Translated(u)
    BY <1>9 DEF NextUser, Translated, tables, memberNotes
  <2>2. \A v \in User \ todo' : Translated(v)
    BY <2>1 DEF MembersInv, TranslationGoesOn
  <2>3. TranslationGoesOn'
    BY <1>2, <2>1, <2>2, BootTablesStay DEF TranslationGoesOn
  <2> QED
    BY <1>1, <1>3, <2>1, <2>3, BootTablesStay, BootFrame DEF MembersInv
<1>10. CASE Serve
  <2>1. /\ boot = "translate" /\ boot' = "serving" /\ todo = {} /\ todo' = {}
        /\ UNCHANGED <<role, granted, members, request, owned, sure, faults>>
    BY <1>10 DEF Serve, tables, memberNotes
  <2>2. \A v \in User : Translated(v)
    BY <2>1 DEF MembersInv, TranslationGoesOn
  <2>3. TranslationGoesOn'
    BY <1>2, <2>1, <2>2, BootTablesStay DEF TranslationGoesOn
  <2> QED
    BY <1>1, <1>3, <2>1, <2>3, BootTablesStay, BootFrame DEF MembersInv
<1> QED
  BY <1>4, <1>5, <1>6, <1>7, <1>8, <1>9, <1>10, TranslateUserKeeps, TranslateMemberKeeps DEF Booting

\* A restart ends every request, and the start begins anew.
LEMMA RestartKeeps == MembersInv /\ Restart => MembersInv'
<1> SUFFICES ASSUME MembersInv, Restart PROVE MembersInv'
  OBVIOUS
<1>1. /\ boot' = "users" /\ todo' = {} /\ sure' = {}
      /\ at' = [r \in AdminRequest |-> IF at[r] = "new" THEN "new" ELSE "done"]
      /\ actor' = [r \in AdminRequest |-> None] /\ form' = [r \in AdminRequest |-> None]
      /\ seen' = [r \in AdminRequest |-> None] /\ rowId' = [r \in AdminRequest |-> 0]
      /\ UNCHANGED <<role, members, tenants, rowIds, granted, owned, faults>>
  BY DEF Restart, tables
<1>2. MembershipTypeOK'
  BY <1>1, MembershipAssumption DEF MembersInv, MembershipTypeOK, RequestStep, Boot
<1>3. RequestsFit'
  <2> SUFFICES ASSUME NEW r \in AdminRequest PROVE RequestFits(r)' /\ GrantFits(r)'
    BY DEF RequestsFit
  <2>1. at'[r] \in {"new", "done"}
    BY <1>1
  <2> QED
    BY <2>1 DEF RequestFits, GrantFits, Active, AboutMember, GivesTenantRole
<1>4. TranslationGoesOn'
  BY <1>1, MembershipAssumption DEF TranslationGoesOn, Boot
<1>5. \A t : Owners(t, members)' = Owners(t, members)
  BY <1>1 DEF Owners
<1>6. OwnersStay' /\ SureHasAnother'
  BY <1>1, <1>5 DEF MembersInv, OwnersStay, SureHasAnother
<1> QED
  BY <1>1, <1>2, <1>3, <1>4, <1>6, BootTablesStay DEF MembersInv

LEMMA MembershipBegins == MembershipInit => MembersInv
<1> SUFFICES ASSUME MembershipInit PROVE MembersInv
  OBVIOUS
<1>1. /\ role \in [User -> {None, ""}] /\ tenants \subseteq Tenant
      /\ members \in [Member -> {None} \cup [id : {1}, role : OldRole]]
      /\ \A m \in Member : members[m] # None => role[m[1]] # None
      /\ rowIds = [m \in Member |-> IF members[m] = None THEN 0 ELSE 1]
      /\ boot = "users" /\ todo = {}
  BY DEF MembershipInit
<1>2. /\ at = [r \in AdminRequest |-> "new"] /\ actor = [r \in AdminRequest |-> None]
      /\ form = [r \in AdminRequest |-> None] /\ seen = [r \in AdminRequest |-> None]
      /\ rowId = [r \in AdminRequest |-> 0]
  BY DEF MembershipInit
<1>3. /\ granted = [u \in User |-> IF role[u] = None THEN None ELSE DesiredPlatformRole(u)]
      /\ owned = {t \in Tenant : Owners(t, members) # {}} /\ sure = {} /\ faults = {}
  BY DEF MembershipInit
<1>4. role \in [User -> PlatformRole \cup {None}]
  BY <1>1 DEF PlatformRole
<1>5. 0 \in 0..MaxRows /\ 1 \in 0..MaxRows /\ 1 \in 1..MaxRows
  BY MembershipAssumption
<1>6. members \in [Member -> MemberRow \cup {None}]
  <2>1. [id : {1}, role : OldRole] \subseteq MemberRow
    BY <1>5, MembershipAssumption DEF MemberRow
  <2> QED
    BY <1>1, <2>1
<1>7. rowIds \in [Member -> 0..MaxRows] /\ rowId \in [AdminRequest -> 0..MaxRows]
  BY <1>1, <1>2, <1>5
<1>8. granted \in [User -> PlatformRole \cup {None}]
  BY <1>3, <1>4, DesiredRole
<1>9. /\ at \in [AdminRequest -> RequestStep] /\ actor \in [AdminRequest -> {None} \cup Actor]
      /\ form \in [AdminRequest -> {None} \cup Form]
      /\ seen \in [AdminRequest -> {None} \cup PlatformRole]
  BY <1>2 DEF RequestStep
<1>10. MembershipTypeOK
  BY <1>1, <1>3, <1>4, <1>6, <1>7, <1>8, <1>9 DEF MembershipTypeOK, Boot
<1>11. RequestsFit
  BY <1>2 DEF RequestsFit, RequestFits, GrantFits, Active, AboutMember, GivesTenantRole
<1>12. MembersAreUsers
  BY <1>1 DEF MembersAreUsers
<1>13. TranslationGoesOn
  BY <1>1, MembershipAssumption DEF TranslationGoesOn, Boot
<1>14. GivenIsDesired
  BY <1>3, <1>4, DesiredRole, MembershipAssumption DEF GivenIsDesired, PlatformRole
<1>15. OwnersStay /\ SureHasAnother
  BY <1>3 DEF OwnersStay, SureHasAnother
<1> QED
  BY <1>10, <1>11, <1>12, <1>13, <1>14, <1>15 DEF MembersInv

\* The invariant holds, however requests interleave and restarts cut in.
THEOREM MembershipInvariant == MembershipSpec => []MembersInv
<1>1. MembersInv /\ [MembershipNext]_memberVars => MembersInv'
  <2> SUFFICES ASSUME MembersInv, [MembershipNext]_memberVars PROVE MembersInv'
    OBVIOUS
  <2>1. CASE UNCHANGED memberVars
    <3>1. UNCHANGED <<role, members, tenants, rowIds, boot, todo, at, actor, form, seen, rowId, granted,
                      owned, sure, faults>>
      BY <2>1 DEF memberVars, tables, start, request, memberNotes
    <3>2. MembershipTypeOK'
      BY <3>1 DEF MembersInv, MembershipTypeOK
    <3>3. RequestsFit'
      BY <3>1, RequestFrame DEF MembersInv, RequestsFit
    <3>4. MembersAreUsers' /\ TranslationGoesOn' /\ GivenIsDesired'
      BY <3>1, TablesStay DEF start
    <3>5. \A t : Owners(t, members)' = Owners(t, members)
      BY <3>1 DEF Owners
    <3>6. SureHasAnother' /\ OwnersStay'
      BY <3>1, <3>5 DEF MembersInv, SureHasAnother, OwnersStay
    <3> QED
      BY <3>2, <3>3, <3>4, <3>6 DEF MembersInv
  <2> QED
    BY <2>1, BootKeeps, RestartKeeps, RequestStepKeeps DEF MembershipNext
<1> QED
  BY <1>1, MembershipBegins, PTL DEF MembershipSpec

\* Every variable has its type.
THEOREM MembershipTypes == MembershipSpec => []MembershipTypeOK
<1>1. MembersInv => MembershipTypeOK
  BY DEF MembersInv
<1> QED
  BY <1>1, MembershipInvariant, PTL

\* A tenant that has had an owner keeps one, unless an owner was taken away blind.
THEOREM OwnersAreKept == MembershipSpec => []OwnersStay
<1>1. MembersInv => OwnersStay
  BY DEF MembersInv
<1> QED
  BY <1>1, MembershipInvariant, PTL

\* When the app serves, all old names are gone and roles are what was last given.
THEOREM RolesFollowTranslation == MembershipSpec => []RolesAreTranslated
<1>1. ASSUME MembersInv PROVE RolesAreTranslated
  <2> SUFFICES ASSUME boot = "serving"
               PROVE  /\ \A m \in Member : members[m] # None => members[m].role \in TenantRole
                      /\ "restored" \notin faults => role = granted
    BY DEF RolesAreTranslated
  <2>1. \A u \in User : Translated(u)
    BY <1>1 DEF MembersInv, TranslationGoesOn
  <2>2. ASSUME NEW m \in Member, members[m] # None PROVE members[m].role \in TenantRole
    <3>1. PICK u \in User, t \in Tenant : m = <<u, t>>
      BY DEF Member
    <3> QED
      BY <2>1, <2>2, <3>1 DEF Translated
  <2>3. "restored" \notin faults => \A u \in User : granted[u] = role[u]
    BY <1>1, <2>1, TranslatedUsersKeepRoles DEF MembersInv, GivenIsDesired
  <2> QED
    BY <1>1, <2>2, <2>3 DEF MembersInv, MembershipTypeOK
<1> QED
  BY <1>1, MembershipInvariant, PTL

-----------------------------------------------------------------------------
(* What a step gives *)

LEMMA OnlyRequestsServe ==
  ASSUME MembersInv, [MembershipNext]_memberVars, boot = "serving"
  PROVE  (\E r \in AdminRequest : Handling(r)) \/ UNCHANGED <<role, members>>
<1>1. \A u \in User : u # "serving"
  BY MembershipAssumption DEF Boot
<1>2. ~ Booting
  BY <1>1 DEF Booting, SeedUser, ensureBootstrapTenant, RestoreRoot, RestoreOwner, ListUsers, Serve,
              TranslateUser, NextUser, TranslateMember
<1> QED
  BY <1>2 DEF MembershipNext, Restart, memberVars, tables

LEMMA UpsertOnlyGives ==
  ASSUME MembersInv, NEW r \in AdminRequest, UpsertMembership(r), NEW n \in Member,
         members'[n] # members[n]
  PROVE  /\ at[r] = "upsert" /\ OwnsWhatItGives(r) /\ form[r] \in Form
         /\ n = <<form[r].user, form[r].tenant>> /\ members'[n].role = form[r].role
<1> DEFINE m == <<form[r].user, form[r].tenant>>
           rs == Upserted(m, form[r].role, rowId[r])
<1>1. at[r] = "upsert" /\ members' = rs
  BY DEF UpsertMembership, WriteMembers
<1>2. MembershipTypeOK /\ RequestsFit /\ OwnsWhatItGives(r)
  BY <1>1 DEF MembersInv, RequestsFit, GrantFits
<1>3. form[r] \in Form /\ rs[m].role = form[r].role /\ \A k \in Member \ {m} : rs[k] = members[k]
  BY <1>1, <1>2, UpsertedByRequest
<1> HIDE DEF rs
<1> QED
  BY <1>1, <1>2, <1>3

LEMMA DeleteOnlyDeletes ==
  ASSUME MembersInv, NEW r \in AdminRequest, DeleteMembership(r), NEW n \in Member
  PROVE  members'[n] = None \/ members'[n] = members[n]
BY DEF DeleteMembership, WriteMembers, MembersInv, MembershipTypeOK

LEMMA FormsAreRecords ==
  \A f \in Form : f = [user |-> f.user, tenant |-> f.tenant, role |-> f.role]
BY DEF Form

LEMMA RowsGiven == MembersInv /\ [MembershipNext]_memberVars => [RowsAreOwned]_memberVars
<1> SUFFICES ASSUME MembersInv, [MembershipNext]_memberVars, NEW u \in User, NEW t \in Tenant,
                    boot = "serving", members'[u, t] # None,
                    members[u, t] = None \/ members[u, t].role # members'[u, t].role
             PROVE  \E r \in AdminRequest :
                      /\ at[r] = "upsert"
                      /\ form[r] = [user |-> u, tenant |-> t, role |-> members'[u, t].role]
                      /\ \/ canManagePlatform(actor[r].platform)
                         \/ /\ t = actor[r].tenant
                            /\ buildPermissionSet("", members'[u, t].role) \subseteq
                                 buildPermissionSet("", actor[r].role)
  BY DEF RowsAreOwned
<1>1. PICK r \in AdminRequest : Handling(r)
  BY OnlyRequestsServe
<1> DEFINE n == <<u, t>>
<1>2. n \in Member /\ members'[n] # members[n] /\ members'[n] # None /\ members'[n] = members'[u, t]
  BY DEF Member
<1> HIDE DEF n
<1>3. UpsertMembership(r)
  <2>1. \/ UpsertMembership(r) \/ DeleteMembership(r) \/ UNCHANGED members
    BY <1>1
       DEF Handling, Abandon, Admit, DeleteForm, UpsertForm, CreateForm, Assign, AssignDelete, Existing,
           CheckOwners, CheckFails, FindId, CreateUser, TenantForm, CreateTenant, ConfirmTenant, RoleForm,
           ManageUser, UpdatePlatformRole, ReadUser, WriteUser, tables
  <2> QED
    BY <1>2, <2>1, DeleteOnlyDeletes
<1>4. /\ at[r] = "upsert" /\ OwnsWhatItGives(r) /\ form[r] \in Form
      /\ n = <<form[r].user, form[r].tenant>> /\ members'[n].role = form[r].role
  BY <1>2, <1>3, UpsertOnlyGives
<1>5. u = form[r].user /\ t = form[r].tenant
  BY <1>4 DEF n
<1>6. members'[u, t].role = form[r].role
  BY <1>2, <1>4
<1>7. form[r] = [user |-> form[r].user, tenant |-> form[r].tenant, role |-> form[r].role]
  BY <1>4, FormsAreRecords
<1>8. form[r] = [user |-> u, tenant |-> t, role |-> members'[u, t].role]
  BY <1>5, <1>6, <1>7
<1> QED
  BY <1>4, <1>5, <1>6, <1>8 DEF OwnsWhatItGives

LEMMA SuperAdminsGiven == MembersInv /\ [MembershipNext]_memberVars => [SuperAdminsAreMade]_memberVars
<1> SUFFICES ASSUME MembersInv, [MembershipNext]_memberVars, NEW u \in User, boot = "serving",
                    role[u] # role'[u], role'[u] = "platform_super_admin"
             PROVE  \E r \in AdminRequest :
                      /\ at[r] \in {"create", "role", "write"} /\ form[r].user = u
                      /\ at[r] # "write" => actor[r].platform = "platform_super_admin"
  BY DEF SuperAdminsAreMade
<1>1. PICK r \in AdminRequest : Handling(r)
  BY OnlyRequestsServe
<1>2. GrantFits(r)
  BY DEF MembersInv, RequestsFit
<1>3. CreateUser(r) \/ UpdatePlatformRole(r) \/ WriteUser(r) \/ UNCHANGED role
  BY <1>1
     DEF Handling, Abandon, Admit, DeleteForm, UpsertForm, CreateForm, Assign, AssignDelete, Existing,
         CheckOwners, CheckFails, FindId, UpsertMembership, DeleteMembership, TenantForm, CreateTenant,
         ConfirmTenant, RoleForm, ManageUser, ReadUser, tables
<1>4. CASE CreateUser(r)
  <2>1. at[r] = "create" /\ role' = [role EXCEPT ![form[r].user] = seen[r]]
    BY <1>4 DEF CreateUser
  <2>2. form[r].user = u /\ seen[r] = "platform_super_admin"
    BY <2>1 DEF MembersInv, MembershipTypeOK
  <2> QED
    BY <1>2, <2>1, <2>2 DEF GrantFits
<1>5. CASE UpdatePlatformRole(r)
  <2>1. at[r] = "role" /\ role' = [role EXCEPT ![form[r].user] = form[r].role]
    BY <1>5 DEF UpdatePlatformRole
  <2>2. form[r].user = u /\ form[r].role = "platform_super_admin"
    BY <2>1 DEF MembersInv, MembershipTypeOK
  <2> QED
    BY <1>2, <2>1, <2>2 DEF GrantFits
<1>6. CASE WriteUser(r)
  <2>1. at[r] = "write" /\ role' = [role EXCEPT ![form[r].user] = seen[r]]
    BY <1>6 DEF WriteUser
  <2>2. form[r].user = u
    BY <2>1 DEF MembersInv, MembershipTypeOK
  <2> QED
    BY <2>1, <2>2
<1> QED
  BY <1>3, <1>4, <1>5, <1>6

\* No step gives a role beyond the reach of the actor it is from.
THEOREM GrantsAreWithinReach == MembershipSpec => GrantsAreOwned
<1> QED
  BY MembershipInvariant, RowsGiven, SuperAdminsGiven, PTL DEF MembershipSpec, GrantsAreOwned

=============================================================================
