------------------------------- MODULE Access -------------------------------
(***************************************************************************)
(* Who may do what: the principal of a token, the tenant it resolves to,   *)
(* the role gates of the routers, login, refresh and the administration of *)
(* a tenant's users (src/backend/app/core/security.py, tenancy/context.py, *)
(* services/auth.py, services/users.py, api/v1/users.py).  A token is the  *)
(* record of its claims; one whose signature or lifetime is not good is    *)
(* not among the tokens.  Roles are sets of the strings the settings name. *)
(***************************************************************************)
EXTENDS Tables

PlatformAdmin == "platform_admin"
Superuser == "superuser"
Viewer == "viewer"

\* The principal acts with the roles the token carries.
RolesOf(token) == token.roles

RequireTenantSuperuser(token) == RolesOf(token) \cap {Superuser, PlatformAdmin} # {}
RequireTenantEditor(token) == Viewer \in RolesOf(token) => RequireTenantSuperuser(token)

(* Mutant: a superuser may grant any role.                                 *)
GuardNothing(roles, token) == TRUE

\* Only a platform admin grants that role.
GuardRoleAssignment(roles, token) ==
    PlatformAdmin \in roles => PlatformAdmin \in RolesOf(token)

\* A tenant that is missing, not active or without a resource map has no
\* context: 403.
HasContext(tenant) == tenant # None /\ tenant.status = "active" /\ tenant.mapped

----------------------------------------------------------------------------

Mint(typ, u, roles) == [typ |-> typ, user |-> u, roles |-> roles]

MayLogIn(rows, tenant, u) ==
    tenant # None /\ tenant.status = "active" /\ u \in DOMAIN rows /\ rows[u].table = "user" /\ rows[u].active

\* An access and a refresh token with the roles of the row.
Login(rows, u) == {Mint("access", u, rows[u].roles), Mint("refresh", u, rows[u].roles)}

\* A refresh token is turned into an access token with the roles of today.
MayRefresh(rows, tenant, token) == token.typ = "refresh" /\ MayLogIn(rows, tenant, token.user)
Refresh(rows, token) == {Mint("access", token.user, rows[token.user].roles)}

----------------------------------------------------------------------------

EmailTaken(rows, email) == \E i \in DOMAIN rows : rows[i].table = "user" /\ rows[i].email = email

CreateUser(new, email, roles) ==
    Insert(new, [table |-> "user", email |-> email, roles |-> roles, active |-> TRUE])

\* A PATCH is a record with the fields it sets.
PatchRoles(patch) == IF "roles" \in DOMAIN patch THEN patch.roles ELSE {}

DeleteUser(u) == Delete({u})
=============================================================================
