------------------------------- MODULE Policy -------------------------------
(***************************************************************************)
(* The authorization policy of the web application: which permissions a    *)
(* platform role and a tenant role carry, how role names of old releases   *)
(* are read, and who may give which role to whom.  No state.               *)
(***************************************************************************)

PlatformRole == {"", "platform_admin", "platform_super_admin"}
TenantRole == {"tenant_owner", "tenant_admin", "super_user", "user", "viewer"}
LegacyTenantRole == {"admin", "portfolio_manager", "analyst", "reviewer", "operator"}

PlatformAdminPermissions ==
  {"platform.users.read", "platform.users.write", "platform.tenants.read",
   "platform.tenants.write", "platform.sources.read", "platform.sources.write",
   "platform.health.read", "platform.audit.read"}

platformRolePermissionMatrix ==
  [role \in PlatformRole |->
     CASE role = "platform_super_admin" ->
            PlatformAdminPermissions \cup {"platform.manage", "platform.roles.assign"}
       [] role = "platform_admin" -> PlatformAdminPermissions
       [] role = "" -> {}]

ViewerPermissions == {"tenant.settings.read", "tenant.users.read", "bids.read", "reports.read"}
UserPermissions ==
  ViewerPermissions \cup
  {"bids.write", "reports.export", "workflows.manage", "queue.manage",
   "bookmarks.manage", "saved_searches.manage"}
AdminPermissions ==
  UserPermissions \cup
  {"tenant.settings.write", "tenant.users.write", "tenant.roles.assign",
   "integrations.manage", "audit.read"}

tenantRolePermissionMatrix ==
  [role \in TenantRole |->
     CASE role = "tenant_owner" -> AdminPermissions \cup {"bids.delete"}
       [] role = "tenant_admin" -> AdminPermissions
       [] role = "super_user" -> UserPermissions \cup {"audit.read"}
       [] role = "user" -> UserPermissions
       [] role = "viewer" -> ViewerPermissions]

\* A name that no release has used is read as a plain user.
normalizeTenantRole(role) ==
  CASE role \in TenantRole -> role
    [] role = "admin" -> "tenant_owner"
    [] role = "portfolio_manager" -> "tenant_admin"
    [] role \in {"reviewer", "operator"} -> "super_user"
    [] OTHER -> "user"

buildPermissionSet(platform, role) ==
  platformRolePermissionMatrix[platform] \cup
  tenantRolePermissionMatrix[normalizeTenantRole(role)]

hasAnyPermission(platform, role, permissions) ==
  buildPermissionSet(platform, role) \cap permissions # {}

canAdminUsers(platform, role) ==
  hasAnyPermission(platform, role, {"platform.users.write", "tenant.users.write"})
canManageTenants(platform, role) ==
  hasAnyPermission(platform, role, {"platform.tenants.write"})
canManagePlatform(platform) == platform # ""

allowedPlatformRolesForActor(platform) ==
  CASE platform = "platform_super_admin" -> PlatformRole \ {""}
    [] platform = "platform_admin" -> {"platform_admin"}
    [] platform = "" -> {}

BelowAdmin == {"super_user", "user", "viewer"}

allowedLikeOwner(platform, role) == \* Mutant: an administrator is like an owner.
  CASE canManagePlatform(platform) -> TenantRole
    [] ~canManagePlatform(platform) /\ normalizeTenantRole(role) \in {"tenant_owner", "tenant_admin"} ->
         TenantRole
    [] OTHER -> {}

allowedTenantRolesForActor(platform, role) ==
  CASE canManagePlatform(platform) -> TenantRole
    [] ~canManagePlatform(platform) /\ normalizeTenantRole(role) = "tenant_owner" ->
         TenantRole \ {"tenant_owner"}
    [] ~canManagePlatform(platform) /\ normalizeTenantRole(role) = "tenant_admin" -> BelowAdmin
    [] OTHER -> {}

canAssignPlatformRole(platform, target) == target \in allowedPlatformRolesForActor(platform)
canAssignTenantRole(platform, role, target) ==
  normalizeTenantRole(target) \in allowedTenantRolesForActor(platform, role)

\* A platform administrator reaches everyone, but a super administrator only
\* when being one.
ReachesPlatform(platform, target) ==
  target # "platform_super_admin" \/ platform = "platform_super_admin"

\* The members of a tenant that an owner or an administrator of it may change.
ReachesMember(role, target) ==
  \/ normalizeTenantRole(role) = "tenant_owner" /\ normalizeTenantRole(target) # "tenant_owner"
  \/ normalizeTenantRole(role) = "tenant_admin" /\ normalizeTenantRole(target) \in BelowAdmin

\* The platform role that the memberships of an old release stand for: that of
\* the first one that stands for any.
PlatformRoleOf(role) ==
  CASE role = "admin" -> "platform_super_admin"
    [] role = "portfolio_manager" -> "platform_admin"
    [] OTHER -> ""

=============================================================================
