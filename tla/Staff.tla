------------------------------- MODULE Staff -------------------------------
(***************************************************************************)
(* Staff memberships of one professional in several businesses and their   *)
(* scoped role grants: invitations by the owners, the professional's own    *)
(* answers, deactivation.                                                   *)
(***************************************************************************)
EXTENDS Naturals, FiniteSets

CONSTANTS
  Employers,    \* businesses, each with one live owner
  DutyRoles    \* scoped staff roles

VARIABLES
  affiliation,   \* business.business_staff: status of the professional in each business
  duties        \* business.staff_role_grants, live ones

staffVars == <<affiliation, duties>>

StaffTypeOK ==
  /\ affiliation \in [Employers -> {"none", "invited", "active", "declined", "inactive"}]
  /\ duties \in [Employers -> SUBSET DutyRoles]

StaffInit == affiliation = [b \in Employers |-> "none"] /\ duties = [b \in Employers |-> {}]

\* attemptInvitation: nothing is written for somebody active elsewhere, nor
\* for a membership row that exists, whatever its status.
Invite(b) ==
  /\ \A c \in Employers \ {b} : affiliation[c] # "active"
  /\ affiliation[b] = "none"
  /\ affiliation' = [affiliation EXCEPT ![b] = "invited"]
  /\ UNCHANGED duties

\* uq_business_staff_active_professional.
AffiliationFree(b) == \A c \in Employers \ {b} : affiliation[c] # "active"

AcceptInvitation(b) ==
  /\ affiliation[b] = "invited" /\ AffiliationFree(b)
  /\ affiliation' = [affiliation EXCEPT ![b] = "active"]
  /\ UNCHANGED duties

DeclineInvitation(b) ==
  /\ affiliation[b] = "invited"
  /\ affiliation' = [affiliation EXCEPT ![b] = "declined"]
  /\ UNCHANGED duties

\* deactivate leaves the grants of the membership as they are.
Deactivate(b) ==
  /\ affiliation[b] \in {"invited", "active"}
  /\ affiliation' = [affiliation EXCEPT ![b] = "inactive"]
  /\ UNCHANGED duties

\* grant: only to an active membership, and a live grant is not repeated.
GrantDuty(b, r) ==
  /\ affiliation[b] = "active" /\ r \notin duties[b]
  /\ duties' = [duties EXCEPT ![b] = @ \union {r}]
  /\ UNCHANGED affiliation

RevokeDuty(b, r) ==
  /\ affiliation[b] = "active" /\ r \in duties[b]
  /\ duties' = [duties EXCEPT ![b] = @ \ {r}]
  /\ UNCHANGED affiliation

StaffNext ==
  \E b \in Employers :
    \/ Invite(b) \/ AcceptInvitation(b) \/ DeclineInvitation(b) \/ Deactivate(b)
    \/ \E r \in DutyRoles : GrantDuty(b, r) \/ RevokeDuty(b, r)

StaffSpec == StaffInit /\ [][StaffNext]_staffVars

-----------------------------------------------------------------------------
\* A professional is never active in two businesses, although two
\* invitations may be open at once (what party resolution relies on).
OneAffiliation == Cardinality({b \in Employers : affiliation[b] = "active"}) <= 1
=============================================================================
