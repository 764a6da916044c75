----------------------------- MODULE Membership -----------------------------
(***************************************************************************)
(* The accounts of one tenant: users.service.ts invites, changes and       *)
(* removes them, auth.service.ts turns an invite into an account, and      *)
(* platform.service.ts names the superadmin. A row is known by its address,*)
(* which is unique in the tenant.                                          *)
(*                                                                         *)
(* What touches a user's row or roles is one serializable transaction, and *)
(* one step. What touches invites is not: a request looks at an invite, or *)
(* revokes some, and writes in a later round trip.                         *)
(***************************************************************************)
EXTENDS Naturals, FiniteSets

CONSTANTS
    Email,      \* addresses in the tenant
    Invite,     \* ids of invites; an id is never used twice
    Caller,     \* requests served at a time
    AdminLimit, \* resolveAdminCap of the tenant
    Grants,     \* the sets of roles that invites carry
    None        \* no address, no invite

ASSUME FiniteAssumption == IsFiniteSet(Email)
ASSUME NoneAssumption == None \notin Email \cup Invite
ASSUME LimitAssumption == AdminLimit \in Nat

ASSUME GrantsAssumption == Grants \subseteq (SUBSET {"admin", "rep"}) \ {{}}

Role == {"superadmin", "admin", "rep"}
SuperadminGrant == {"superadmin"}

VARIABLES
    status,     \* User.status: "inactive" is invited or suspended, which no guard
                \* tells apart; "none" without a row; "deleted" has deletedAt
    roles,      \* the UserRole rows of each address
    state,      \* Invite.status, "new" before the row is made; "overdue" is
                \* pending in the database, with its expiresAt passed
    to,         \* Invite.email
    grants,     \* Invite.roleCodes
    pc,         \* what each request does next
    inv,        \* the invite it looked at
    who,        \* the address it invites
    what,       \* the roles it invites to
    accepted,   \* history: how often each invite was accepted
    revived     \* history: accounts that came back holding admin from before

userVars == <<status, roles>>
inviteVars == <<state, to, grants>>
reqVars == <<pc, inv, who, what>>
history == <<accepted, revived>>
vars == <<userVars, inviteVars, reqVars, history>>

Active(e) == status[e] = "active"
ActiveAdmins == {e \in Email : Active(e) /\ "admin" \in roles[e]}
ActiveSuperadmins == {e \in Email : Active(e) /\ "superadmin" \in roles[e]}
Leaders == ActiveAdmins \cup ActiveSuperadmins
Pending(i) == state[i] \in {"pending", "overdue"}

TypeOK ==
    /\ status \in [Email -> {"none", "inactive", "active", "deleted"}]
    /\ roles \in [Email -> SUBSET Role]
    /\ \A e \in Email : status[e] = "none" => roles[e] = {}
    /\ state \in [Invite -> {"new", "pending", "overdue", "accepted", "revoked", "expired"}]
    /\ to \in [Invite -> Email \cup {None}]
    /\ grants \in [Invite -> Grants \cup {SuperadminGrant, {}}]
    /\ \A i \in Invite : state[i] # "new" => to[i] \in Email /\ grants[i] # {}
    /\ pc \in [Caller -> {"idle", "accept", "expire", "resend", "replace", "revoke", "create"}]
    /\ inv \in [Caller -> Invite \cup {None}]
    /\ who \in [Caller -> Email \cup {None}]
    /\ what \in [Caller -> Grants \cup {SuperadminGrant, {}}]
    /\ \A c \in Caller :
        /\ pc[c] \in {"accept", "expire", "resend"} => inv[c] \in Invite /\ state[inv[c]] # "new"
        /\ pc[c] \in {"replace", "revoke", "create"} => who[c] \in Email /\ what[c] # {}
    /\ accepted \in [Invite -> Nat]
    /\ revived \subseteq Email

Init ==
    /\ status = [e \in Email |-> "none"] /\ roles = [e \in Email |-> {}]
    /\ state = [i \in Invite |-> "new"] /\ to = [i \in Invite |-> None]
    /\ grants = [i \in Invite |-> {}]
    /\ pc = [c \in Caller |-> "idle"] /\ inv = [c \in Caller |-> None]
    /\ who = [c \in Caller |-> None] /\ what = [c \in Caller |-> {}]
    /\ accepted = [i \in Invite |-> 0] /\ revived = {}

Call(c, step, i, e, g) ==
    /\ pc' = [pc EXCEPT ![c] = step] /\ inv' = [inv EXCEPT ![c] = i]
    /\ who' = [who EXCEPT ![c] = e] /\ what' = [what EXCEPT ![c] = g]
End(c) == Call(c, "idle", None, None, {})

(***************************************************************************)
(* The guards the transactions share.                                      *)
(***************************************************************************)

\* findTenantUser and assertTargetNotSuperadmin.
Manageable(e) == status[e] \notin {"none", "deleted"} /\ "superadmin" \notin roles[e]

BelowAdminLimit == Cardinality(ActiveAdmins) < AdminLimit

\* Mutant of LeadershipNotLocked: the one who goes counts.
LeadershipNotLockedButSelf(e) == ActiveSuperadmins # {} \/ ActiveAdmins # {}

\* assertLeadershipNotLocked: somebody else still leads.
LeadershipNotLocked(e) == ActiveSuperadmins # {} \/ ActiveAdmins \ {e} # {}

(***************************************************************************)
(* Users and their roles, a transaction each.                              *)
(***************************************************************************)

UpdateUser ==
    \E e \in Email, s \in {"active", "inactive"} :
        /\ Manageable(e)
        /\ "admin" \in roles[e] /\ Active(e) /\ s # "active" => LeadershipNotLocked(e)
        /\ "admin" \in roles[e] /\ ~Active(e) /\ s = "active" => BelowAdminLimit
        /\ status' = [status EXCEPT ![e] = s]
        /\ UNCHANGED <<roles, inviteVars, reqVars, history>>

AddRole ==
    \E e \in Email, r \in {"admin", "rep"} :
        /\ Manageable(e)
        /\ r = "admin" => BelowAdminLimit
        /\ roles' = [roles EXCEPT ![e] = @ \cup {r}]
        /\ UNCHANGED <<status, inviteVars, reqVars, history>>

\* Mutant of RemoveRole: the last role goes too.
RemoveRoleAny ==
    \E e \in Email, r \in {"admin", "rep"} :
        /\ Manageable(e)
        /\ r = "admin" /\ r \in roles[e] /\ Active(e) => LeadershipNotLocked(e)
        /\ roles' = [roles EXCEPT ![e] = @ \ {r}]
        /\ UNCHANGED <<status, inviteVars, reqVars, history>>

RemoveRole ==
    \E e \in Email, r \in {"admin", "rep"} :
        /\ Manageable(e)
        /\ r = "admin" /\ r \in roles[e] /\ Active(e) => LeadershipNotLocked(e)
        /\ roles[e] # {r}
        /\ roles' = [roles EXCEPT ![e] = @ \ {r}]
        /\ UNCHANGED <<status, inviteVars, reqVars, history>>

\* The roles of a deleted row stay.
DeleteUser ==
    \E e \in Email :
        /\ Manageable(e) /\ "admin" \in roles[e]
        /\ Active(e) => LeadershipNotLocked(e)
        /\ status' = [status EXCEPT ![e] = "deleted"]
        /\ UNCHANGED <<roles, inviteVars, reqVars, history>>

\* The superadmins that give way to e, and what becomes of a row then.
Replaced(e) == ActiveSuperadmins \ {e}

\* Mutant of DemotedRoles: the old role stays.
DemotedRolesKept(rs) == rs \cup {"admin"}

DemotedRoles(rs) == (rs \ {"superadmin"}) \cup {"admin"}

PromoteToSuperadmin ==
    \E e \in Email :
        /\ Active(e) /\ "admin" \in roles[e]
        /\ status' = [x \in Email |-> IF x \in Replaced(e) THEN "inactive" ELSE status[x]]
        /\ roles' = [x \in Email |->
             IF x = e THEN (roles[e] \ {"admin"}) \cup {"superadmin"}
             ELSE IF x \in Replaced(e) THEN DemotedRoles(roles[x]) ELSE roles[x]]
        /\ UNCHANGED <<inviteVars, reqVars, history>>

\* applyUsersImport: addresses the tenant has no row for, deleted ones included.
\* The roles cell must not be blank, but one of separators alone names no role.
ImportUser ==
    \E e \in Email, g \in Grants \cup {{}} :
        /\ status[e] = "none"
        /\ status' = [status EXCEPT ![e] = "inactive"]
        /\ roles' = [roles EXCEPT ![e] = g]
        /\ UNCHANGED <<inviteVars, reqVars, history>>

(***************************************************************************)
(* Inviting: the checks, then the older invites, then the new one.         *)
(***************************************************************************)

Invitable(e) == status[e] \in {"none", "deleted"}

\* Mutant of InviteUser: an invite may name no role.
InviteUserAnyRoles(c) ==
    \E e \in Email, g \in Grants \cup {{}} :
        /\ pc[c] = "idle"
        /\ Invitable(e) /\ ("admin" \in g => BelowAdminLimit)
        /\ Call(c, "revoke", None, e, g)
        /\ UNCHANGED <<userVars, inviteVars, history>>

InviteUser(c) ==
    \E e \in Email, g \in Grants :
        /\ pc[c] = "idle"
        /\ Invitable(e) /\ ("admin" \in g => BelowAdminLimit)
        /\ Call(c, "revoke", None, e, g)
        /\ UNCHANGED <<userVars, inviteVars, history>>

\* The platform's pending superadmin invite goes before anything is checked.
ReplaceSuperadmin(c) ==
    \E e \in Email :
        /\ pc[c] = "idle"
        /\ state' = [i \in Invite |->
             IF Pending(i) /\ "superadmin" \in grants[i] THEN "revoked" ELSE state[i]]
        /\ Call(c, "replace", None, e, SuperadminGrant)
        /\ UNCHANGED <<userVars, to, grants, history>>

InviteSuperadmin(c) ==
    /\ pc[c] = "replace"
    /\ IF Invitable(who[c]) THEN Call(c, "revoke", None, who[c], what[c]) ELSE End(c)
    /\ UNCHANGED <<userVars, inviteVars, history>>

ResendRead(c) ==
    \E i \in Invite :
        /\ pc[c] = "idle"
        /\ Pending(i) /\ "superadmin" \notin grants[i]
        /\ Call(c, "resend", i, None, {})
        /\ UNCHANGED <<userVars, inviteVars, history>>

\* By id, whatever its status is by now.
ResendRevoke(c) ==
    /\ pc[c] = "resend"
    /\ state' = [state EXCEPT ![inv[c]] = "revoked"]
    /\ Call(c, "revoke", None, to[inv[c]], grants[inv[c]])
    /\ UNCHANGED <<userVars, to, grants, history>>

CreateRevoke(c) ==
    /\ pc[c] = "revoke"
    /\ state' = [i \in Invite |->
         IF Pending(i) /\ to[i] = who[c] THEN "revoked" ELSE state[i]]
    /\ Call(c, "create", None, who[c], what[c])
    /\ UNCHANGED <<userVars, to, grants, history>>

CreateInvite(c) ==
    \E i \in Invite :
        /\ pc[c] = "create" /\ state[i] = "new"
        /\ state' = [state EXCEPT ![i] = "pending"]
        /\ to' = [to EXCEPT ![i] = who[c]] /\ grants' = [grants EXCEPT ![i] = what[c]]
        /\ End(c)
        /\ UNCHANGED <<userVars, history>>

InviteExpires ==
    \E i \in Invite :
        /\ state[i] = "pending"
        /\ state' = [state EXCEPT ![i] = "overdue"]
        /\ UNCHANGED <<userVars, to, grants, reqVars, history>>

(***************************************************************************)
(* Accepting: the look at the invite, the hash, then the transaction.      *)
(***************************************************************************)

AcceptRead(c) ==
    \E i \in Invite :
        /\ pc[c] = "idle" /\ Pending(i)
        /\ Call(c, IF state[i] = "overdue" THEN "expire" ELSE "accept", i, None, {})
        /\ UNCHANGED <<userVars, inviteVars, history>>

\* By id, whatever its status is by now.
AcceptExpired(c) ==
    /\ pc[c] = "expire"
    /\ state' = [state EXCEPT ![inv[c]] = "expired"]
    /\ End(c)
    /\ UNCHANGED <<userVars, to, grants, history>>

\* Mutants of Acceptable: the limit, or the invite, is not looked at again.
AcceptableBurst(i) == ~Active(to[i]) /\ Pending(i)
AcceptableStale(i) ==
    /\ "admin" \in grants[i] => BelowAdminLimit
    /\ ~Active(to[i])

\* What the transaction finds before it writes, and when it writes last.
Acceptable(i) ==
    /\ "admin" \in grants[i] => BelowAdminLimit
    /\ ~Active(to[i])
    /\ Pending(i)

\* A superadmin who takes over replaces the others; the row keeps its old roles.
AcceptTx(c) ==
    LET i == inv[c]
        e == to[i]
        out == IF "superadmin" \in grants[i] THEN Replaced(e) ELSE {}
    IN  /\ pc[c] = "accept" /\ Acceptable(i)
        /\ status' = [x \in Email |->
             IF x = e THEN "active" ELSE IF x \in out THEN "inactive" ELSE status[x]]
        /\ roles' = [x \in Email |->
             IF x = e THEN roles[e] \cup grants[i]
             ELSE IF x \in out THEN DemotedRoles(roles[x]) ELSE roles[x]]
        /\ state' = [state EXCEPT ![i] = "accepted"]
        /\ accepted' = [accepted EXCEPT ![i] = @ + 1]
        /\ revived' = IF "admin" \in roles[e] \ grants[i] THEN revived \cup {e} ELSE revived
        /\ End(c)
        /\ UNCHANGED <<to, grants>>

AcceptRefused(c) ==
    /\ pc[c] = "accept" /\ ~Acceptable(inv[c])
    /\ End(c)
    /\ UNCHANGED <<userVars, inviteVars, history>>

\* A failed query, or a conflict met three times.
HandlerFails(c) ==
    /\ pc[c] # "idle"
    /\ End(c)
    /\ UNCHANGED <<userVars, inviteVars, history>>

Request(c) ==
    \/ InviteUser(c) \/ ReplaceSuperadmin(c) \/ InviteSuperadmin(c)
    \/ ResendRead(c) \/ ResendRevoke(c) \/ CreateRevoke(c) \/ CreateInvite(c)
    \/ AcceptRead(c) \/ AcceptExpired(c) \/ AcceptTx(c) \/ AcceptRefused(c)
    \/ HandlerFails(c)

Next ==
    \/ UpdateUser \/ AddRole \/ RemoveRole \/ DeleteUser \/ PromoteToSuperadmin
    \/ ImportUser \/ InviteExpires
    \/ \E c \in Caller : Request(c)

Spec == Init /\ [][Next]_vars

(***************************************************************************)
(* Properties.                                                             *)
(***************************************************************************)

\* A tenant has at most one superadmin, and the account that holds the role is
\* active: nobody in the tenant could bring back a superadmin who is not.
OneSuperadmin ==
    \A e \in Email : "superadmin" \in roles[e] => Active(e) /\ ActiveSuperadmins = {e}

\* No step leaves a tenant that had an active leader without one: removing,
\* suspending, replacing and accepting always leave an admin or a superadmin.
LeadershipKept == [][Leaders # {} => Leaders' # {}]_vars

\* An invite makes an account at most once, whatever is sent twice, resent or
\* revoked while the password is being hashed.
AcceptedOnce == \A i \in Invite : accepted[i] <= 1

\* The tenant never has more active admins than its limit, whatever invites were
\* pending together, but for accounts that an invite to another role brought back
\* with the admin role they had before.
WithinAdminLimit == Cardinality(ActiveAdmins \ revived) <= AdminLimit

\* "A user must keep at least one role" (users.service.ts:528): no account loses
\* its last role, be it removed, promoted or replaced as superadmin, and no invite
\* makes an account without one, through any resend. Only an import's rows may
\* begin without, as accounts still to be activated.
LastRoleKept ==
    [][\A e \in Email : roles'[e] = {} =>
          roles[e] = {} /\ (status[e] = "none" => status'[e] \in {"none", "inactive"})]_vars

\* The same promise of every account: "roles" is a required column of the import
\* (onboarding-dataset-spec.md:31), and yet a row of it can end without a role.
AccountHasRole == \A e \in Email : status[e] # "none" => roles[e] # {}

\* As the limit is documented: accepting an invite checks it again.
AdminLimitKept == Cardinality(ActiveAdmins) <= AdminLimit
=============================================================================
