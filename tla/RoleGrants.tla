----------------------------- MODULE RoleGrants ----------------------------
(***************************************************************************)
(* services/identity/rbac: granting and revoking roles.  A change is one    *)
(* transaction in two actions: its checks and its write, after which it     *)
(* reads the roles it will cache in users.roles, and its commit.            *)
(***************************************************************************)
EXTENDS Integers, FiniteSets

CONSTANTS
  Staff,
  Roles, CapsOf,     \* the roles the API may change, and role_capabilities
  Privileged,        \* roles with is_privileged
  StaffRoles,        \* roles of the staff at the start
  OwnerRoles         \* roles a user receives for owning a profile or a business

ASSUME RoleGrantsAssumption ==
  /\ Privileged \subseteq Roles /\ OwnerRoles \subseteq Roles
  /\ StaffRoles \in [Staff -> SUBSET Roles] /\ DOMAIN CapsOf = Roles
  \* As seeded: a role without privilege has no capability of one with it, and
  \* owning something is no privilege.
  /\ \A r \in Privileged, q \in Roles \ Privileged : CapsOf[r] \cap CapsOf[q] = {}
  /\ OwnerRoles \cap Privileged = {}

VARIABLES
  roleRows,    \* identity.user_roles
  cachedRoles, \* users.roles
  roleChange   \* the open role change of each actor, if there is one

roleVars == <<roleRows, cachedRoles, roleChange>>

RoleChangeRow == [target : Staff, role : Roles, mode : {"grant", "revoke"}, after : SUBSET Roles]

RoleTypeOK ==
  /\ roleRows \in [Staff -> SUBSET Roles]
  /\ cachedRoles \in [Staff -> SUBSET Roles]
  /\ \A u \in Staff : roleChange[u] \subseteq RoleChangeRow /\ Cardinality(roleChange[u]) <= 1

RoleInit ==
  /\ roleRows = StaffRoles /\ cachedRoles = StaffRoles
  /\ roleChange = [u \in Staff |-> {}]

\* resolveAccess: always from role_capabilities, never from the cache.
CapsHeld(u) == UNION {CapsOf[r] : r \in roleRows[u]}

\* A privileged role is changed only by one who holds all its capabilities.
Covers(actor, role) == role \in Privileged => CapsOf[role] \subseteq CapsHeld(actor)

After(target, role, mode) ==
  IF mode = "grant" THEN roleRows[target] \cup {role} ELSE roleRows[target] \ {role}

\* mutate, behind the controller's bc_manage_platform.
BeginRoleChange(actor, target, role, mode) ==
  /\ roleChange[actor] = {}
  /\ "bc_manage_platform" \in CapsHeld(actor)
  /\ role \in Privileged => actor # target
  /\ Covers(actor, role)
  /\ roleChange' = [roleChange EXCEPT ![actor] =
       {[target |-> target, role |-> role, mode |-> mode, after |-> After(target, role, mode)]}]
  /\ UNCHANGED <<roleRows, cachedRoles>>

\* The rows change by the one role; the cache becomes what was read before.
CommitRoleChange(actor) ==
  \E change \in roleChange[actor] :
    /\ roleRows' = [roleRows EXCEPT ![change.target] =
                      After(change.target, change.role, change.mode)]
    /\ cachedRoles' = [cachedRoles EXCEPT ![change.target] = change.after]
    /\ roleChange' = [roleChange EXCEPT ![actor] = {}]

\* assignOwnerRole, in the transaction that creates the profile or business.
AssignOwnerRole(u, role) ==
  /\ role \notin roleRows[u]
  /\ roleRows' = [roleRows EXCEPT ![u] = @ \cup {role}]
  /\ cachedRoles' = [cachedRoles EXCEPT ![u] = roleRows[u] \cup {role}]
  /\ UNCHANGED roleChange

RoleNext ==
  \/ \E u, v \in Staff, r \in Roles, m \in {"grant", "revoke"} : BeginRoleChange(u, v, r, m)
  \/ \E u \in Staff : CommitRoleChange(u) \/ \E r \in OwnerRoles : AssignOwnerRole(u, r)

RoleSpec == RoleInit /\ [][RoleNext]_roleVars

---------------------------------------------------------------------------
\* No chain of grants, by whomever and in whatever order they commit, gives
\* anyone a privileged role that nobody's own capabilities covered at the
\* start (RoleService.mutate).
NoNewPrivilege ==
  \A u \in Staff : \A r \in roleRows[u] \cap Privileged :
    CapsOf[r] \subseteq UNION {CapsOf[q] : q \in UNION {StaffRoles[v] : v \in Staff}}
=============================================================================
