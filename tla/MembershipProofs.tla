-------------------------- MODULE MembershipProofs --------------------------
(* One superadmin, a limit on admins, a leader at all times, a last role    *)
(* and one account per invite, for any number of addresses, invites and     *)
(* requests at a time.                                                      *)
EXTENDS Membership, FiniteSetTheorems, TLAPS

(***************************************************************************)
(* Types.                                                                  *)
(***************************************************************************)

UsersOK ==
    /\ status \in [Email -> {"none", "inactive", "active", "deleted"}]
    /\ roles \in [Email -> SUBSET Role]
    /\ \A e \in Email : status[e] = "none" => roles[e] = {}

InvitesOK ==
    /\ state \in [Invite -> {"new", "pending", "overdue", "accepted", "revoked", "expired"}]
    /\ to \in [Invite -> Email \cup {None}]
    /\ grants \in [Invite -> Grants \cup {SuperadminGrant, {}}]
    /\ \A i \in Invite : state[i] # "new" => to[i] \in Email /\ grants[i] # {}

RequestsOK ==
    /\ pc \in [Caller -> {"idle", "accept", "expire", "resend", "replace", "revoke", "create"}]
    /\ inv \in [Caller -> Invite \cup {None}]
    /\ who \in [Caller -> Email \cup {None}]
    /\ what \in [Caller -> Grants \cup {SuperadminGrant, {}}]
    /\ \A c \in Caller :
        /\ pc[c] \in {"accept", "expire", "resend"} => inv[c] \in Invite /\ state[inv[c]] # "new"
        /\ pc[c] \in {"replace", "revoke", "create"} => who[c] \in Email /\ what[c] # {}

HistoryOK == accepted \in [Invite -> Nat] /\ revived \subseteq Email

LEMMA TypeParts == TypeOK <=> UsersOK /\ InvitesOK /\ RequestsOK /\ HistoryOK
  BY DEF TypeOK, UsersOK, InvitesOK, RequestsOK, HistoryOK

\* The roles an invite or an imported row carries.
LEMMA GrantTypes == \A g \in Grants : g \subseteq Role /\ g # {} /\ "superadmin" \notin g
  BY GrantsAssumption DEF Role

LEMMA UsersFrame == UsersOK /\ UNCHANGED userVars => UsersOK'
  BY DEF UsersOK, userVars
LEMMA InvitesFrame == InvitesOK /\ UNCHANGED inviteVars => InvitesOK'
  BY DEF InvitesOK, inviteVars
LEMMA HistoryFrame == HistoryOK /\ UNCHANGED history => HistoryOK'
  BY DEF HistoryOK, history

\* No invite becomes new again, so a request may be written down as a whole.
LEMMA CallTypes ==
    ASSUME RequestsOK, InvitesOK,
           NEW c \in Caller, NEW step \in {"idle", "accept", "expire", "resend", "replace", "revoke", "create"},
           NEW i \in Invite \cup {None}, NEW e \in Email \cup {None},
           NEW g \in Grants \cup {SuperadminGrant, {}},
           Call(c, step, i, e, g),
           \A j \in Invite : state[j] # "new" => state'[j] # "new",
           step \in {"accept", "expire", "resend"} => i \in Invite /\ state[i] # "new",
           step \in {"replace", "revoke", "create"} => e \in Email /\ g # {}
    PROVE  RequestsOK'
  BY DEF RequestsOK, Call

LEMMA EndTypes ==
    ASSUME RequestsOK, InvitesOK, NEW c \in Caller, End(c),
           \A j \in Invite : state[j] # "new" => state'[j] # "new"
    PROVE  RequestsOK'
  BY DEF RequestsOK, Call, End

LEMMA InviteRowTypes ==
    ASSUME InvitesOK, to' = to, grants' = grants,
           state' \in [Invite -> {"new", "pending", "overdue", "accepted", "revoked", "expired"}],
           \A j \in Invite : state'[j] # "new" => state[j] # "new"
    PROVE  InvitesOK'
  BY DEF InvitesOK

(* Each step, by what it writes. *)

LEMMA UserStepTypes ==
    TypeOK /\ (UpdateUser \/ AddRole \/ RemoveRole \/ DeleteUser \/ PromoteToSuperadmin \/ ImportUser)
      => TypeOK'
<1> SUFFICES ASSUME TypeOK PROVE
      (UpdateUser \/ AddRole \/ RemoveRole \/ DeleteUser \/ PromoteToSuperadmin \/ ImportUser) => TypeOK'
  OBVIOUS
<1>p. UsersOK /\ InvitesOK /\ RequestsOK /\ HistoryOK
  BY TypeParts
<1>f. ASSUME UNCHANGED <<inviteVars, reqVars, history>>, UsersOK' PROVE TypeOK'
  <2>1. InvitesOK' /\ HistoryOK'
    BY <1>p, <1>f, InvitesFrame, HistoryFrame
  <2>2. RequestsOK'
    BY <1>p, <1>f DEF RequestsOK, reqVars, inviteVars
  <2>3. TypeOK' <=> UsersOK' /\ InvitesOK' /\ RequestsOK' /\ HistoryOK'
    BY DEF TypeOK, UsersOK, InvitesOK, RequestsOK, HistoryOK
  <2> QED BY <2>1, <2>2, <2>3, <1>f
<1>1. CASE UpdateUser
  <2>1. UsersOK'
    BY <1>1, <1>p DEF UpdateUser, UsersOK, Manageable
  <2> QED BY <2>1, <1>1, <1>f DEF UpdateUser
<1>2. CASE AddRole
  <2>1. UsersOK'
    BY <1>2, <1>p DEF AddRole, UsersOK, Manageable, Role
  <2> QED BY <2>1, <1>2, <1>f DEF AddRole
<1>3. CASE RemoveRole
  <2>1. UsersOK'
    BY <1>3, <1>p DEF RemoveRole, UsersOK, Manageable, Role
  <2> QED BY <2>1, <1>3, <1>f DEF RemoveRole
<1>4. CASE DeleteUser
  <2>1. UsersOK'
    BY <1>4, <1>p DEF DeleteUser, UsersOK, Manageable
  <2> QED BY <2>1, <1>4, <1>f DEF DeleteUser
<1>5. CASE PromoteToSuperadmin
  <2>1. UsersOK'
    BY <1>5, <1>p DEF PromoteToSuperadmin, UsersOK, Replaced, ActiveSuperadmins, DemotedRoles, Active, Role
  <2> QED BY <2>1, <1>5, <1>f DEF PromoteToSuperadmin
<1>6. CASE ImportUser
  <2>1. UsersOK'
    BY <1>6, <1>p, GrantTypes DEF ImportUser, UsersOK
  <2> QED BY <2>1, <1>6, <1>f DEF ImportUser
<1> QED BY <1>1, <1>2, <1>3, <1>4, <1>5, <1>6

LEMMA RequestStepTypes ==
    ASSUME TypeOK, NEW c \in Caller, Request(c) PROVE TypeOK'
<1>p. UsersOK /\ InvitesOK /\ RequestsOK /\ HistoryOK
  BY TypeParts
<1>q. TypeOK' <=> UsersOK' /\ InvitesOK' /\ RequestsOK' /\ HistoryOK'
  BY DEF TypeOK, UsersOK, InvitesOK, RequestsOK, HistoryOK
<1>e. None \in Invite \cup {None} /\ None \in Email \cup {None} /\ {} \in Grants \cup {SuperadminGrant, {}}
  OBVIOUS
<1>f. ASSUME UNCHANGED <<userVars, history>> PROVE UsersOK' /\ HistoryOK'
  BY <1>p, <1>f, UsersFrame, HistoryFrame
<1>1. CASE InviteUser(c)
  <2>1. PICK e \in Email, g \in Grants : Call(c, "revoke", None, e, g) /\ UNCHANGED <<userVars, inviteVars, history>>
    BY <1>1 DEF InviteUser
  <2>2. RequestsOK'
    BY <2>1, <1>p, CallTypes, GrantTypes DEF inviteVars
  <2> QED BY <2>1, <2>2, <1>p, <1>q, <1>f, InvitesFrame
<1>2. CASE ReplaceSuperadmin(c)
  <2>1. PICK e \in Email : Call(c, "replace", None, e, SuperadminGrant)
    BY <1>2 DEF ReplaceSuperadmin
  <2>2. InvitesOK' /\ \A j \in Invite : state[j] # "new" => state'[j] # "new"
    BY <1>2, <1>p, InviteRowTypes DEF ReplaceSuperadmin, InvitesOK, Pending
  <2>3. RequestsOK'
    BY <2>1, <2>2, <1>p, CallTypes DEF SuperadminGrant
  <2> QED BY <2>2, <2>3, <1>2, <1>q, <1>f DEF ReplaceSuperadmin
<1>3. CASE InviteSuperadmin(c)
  <2>1. RequestsOK'
    <3>1. CASE Call(c, "revoke", None, who[c], what[c])
      BY <3>1, <1>3, <1>p, CallTypes DEF InviteSuperadmin, RequestsOK, inviteVars
    <3>2. CASE End(c)
      BY <3>2, <1>3, <1>p, EndTypes DEF InviteSuperadmin, inviteVars
    <3> QED BY <3>1, <3>2, <1>3 DEF InviteSuperadmin
  <2> QED BY <2>1, <1>3, <1>p, <1>q, <1>f, InvitesFrame DEF InviteSuperadmin
<1>4. CASE ResendRead(c)
  <2>1. PICK i \in Invite : Pending(i) /\ Call(c, "resend", i, None, {}) /\ UNCHANGED <<userVars, inviteVars, history>>
    BY <1>4 DEF ResendRead
  <2>2. RequestsOK'
    BY <2>1, <1>p, <1>e, CallTypes DEF inviteVars, Pending
  <2> QED BY <2>1, <2>2, <1>p, <1>q, <1>f, InvitesFrame
<1>5. CASE ResendRevoke(c)
  <2>1. inv[c] \in Invite /\ state[inv[c]] # "new"
    BY <1>5, <1>p DEF ResendRevoke, RequestsOK
  <2>2. InvitesOK' /\ \A j \in Invite : state[j] # "new" => state'[j] # "new"
    BY <1>5, <1>p, <2>1, InviteRowTypes DEF ResendRevoke, InvitesOK
  <2>3. to[inv[c]] \in Email /\ grants[inv[c]] # {} /\ grants[inv[c]] \in Grants \cup {SuperadminGrant, {}}
    BY <2>1, <1>p DEF InvitesOK
  <2>4. RequestsOK'
    BY <1>5, <2>2, <2>3, <1>p, CallTypes DEF ResendRevoke
  <2> QED BY <2>2, <2>4, <1>5, <1>q, <1>f DEF ResendRevoke
<1>6. CASE CreateRevoke(c)
  <2>1. InvitesOK' /\ \A j \in Invite : state[j] # "new" => state'[j] # "new"
    BY <1>6, <1>p, InviteRowTypes DEF CreateRevoke, InvitesOK, Pending
  <2>2. RequestsOK'
    BY <1>6, <2>1, <1>p, CallTypes DEF CreateRevoke, RequestsOK
  <2> QED BY <2>1, <2>2, <1>6, <1>q, <1>f DEF CreateRevoke
<1>7. CASE CreateInvite(c)
  <2>1. InvitesOK' /\ \A j \in Invite : state[j] # "new" => state'[j] # "new"
    BY <1>7, <1>p DEF CreateInvite, InvitesOK, RequestsOK
  <2>2. RequestsOK'
    BY <1>7, <2>1, <1>p, EndTypes DEF CreateInvite
  <2> QED BY <2>1, <2>2, <1>7, <1>q, <1>f DEF CreateInvite
<1>8. CASE AcceptRead(c)
  <2>1. PICK i \in Invite : /\ Pending(i)
                           /\ Call(c, IF state[i] = "overdue" THEN "expire" ELSE "accept", i, None, {})
                           /\ UNCHANGED <<userVars, inviteVars, history>>
    BY <1>8 DEF AcceptRead
  <2>2. RequestsOK'
    <3>1. CASE state[i] = "overdue"
      BY <3>1, <2>1, <1>p, <1>e, CallTypes DEF inviteVars, Pending
    <3>2. CASE state[i] # "overdue"
      BY <3>2, <2>1, <1>p, <1>e, CallTypes DEF inviteVars, Pending
    <3> QED BY <3>1, <3>2
  <2> QED BY <2>1, <2>2, <1>p, <1>q, <1>f, InvitesFrame
<1>9. CASE AcceptExpired(c)
  <2>1. inv[c] \in Invite /\ state[inv[c]] # "new"
    BY <1>9, <1>p DEF AcceptExpired, RequestsOK
  <2>2. InvitesOK' /\ \A j \in Invite : state[j] # "new" => state'[j] # "new"
    BY <1>9, <1>p, <2>1, InviteRowTypes DEF AcceptExpired, InvitesOK
  <2>3. RequestsOK'
    BY <1>9, <2>2, <1>p, EndTypes DEF AcceptExpired
  <2> QED BY <2>2, <2>3, <1>9, <1>q, <1>f DEF AcceptExpired
<1>10. CASE AcceptTx(c)
  <2>1. inv[c] \in Invite /\ state[inv[c]] # "new" /\ to[inv[c]] \in Email
        /\ grants[inv[c]] # {} /\ grants[inv[c]] \subseteq Role
    BY <1>10, <1>p, GrantTypes DEF AcceptTx, RequestsOK, InvitesOK, SuperadminGrant, Role
  <2>2. InvitesOK' /\ \A j \in Invite : state[j] # "new" => state'[j] # "new"
    BY <1>10, <1>p, <2>1, InviteRowTypes DEF AcceptTx, InvitesOK
  <2>3. RequestsOK'
    BY <1>10, <2>2, <1>p, EndTypes DEF AcceptTx
  <2>4. UsersOK'
    BY <1>10, <1>p, <2>1 DEF AcceptTx, UsersOK, Replaced, ActiveSuperadmins, DemotedRoles, Active, Role
  <2>5. HistoryOK'
    BY <1>10, <1>p, <2>1 DEF AcceptTx, HistoryOK
  <2> QED BY <2>2, <2>3, <2>4, <2>5, <1>q
<1>11. CASE AcceptRefused(c) \/ HandlerFails(c)
  <2>1. End(c) /\ UNCHANGED <<userVars, inviteVars, history>>
    BY <1>11 DEF AcceptRefused, HandlerFails
  <2>2. RequestsOK'
    BY <2>1, <1>p, EndTypes DEF inviteVars
  <2> QED BY <2>1, <2>2, <1>p, <1>q, <1>f, InvitesFrame
<1> QED BY <1>1, <1>2, <1>3, <1>4, <1>5, <1>6, <1>7, <1>8, <1>9, <1>10, <1>11 DEF Request

LEMMA TypeStep == TypeOK /\ [Next]_vars => TypeOK'
<1> SUFFICES ASSUME TypeOK, [Next]_vars PROVE TypeOK'
  OBVIOUS
<1>p. UsersOK /\ InvitesOK /\ RequestsOK /\ HistoryOK
  BY TypeParts
<1>1. CASE InviteExpires
  <2>1. InvitesOK'
    BY <1>1, <1>p, InviteRowTypes DEF InviteExpires, InvitesOK
  <2>2. UsersOK' /\ HistoryOK'
    BY <1>1, <1>p, UsersFrame, HistoryFrame DEF InviteExpires
  <2>3. RequestsOK'
    BY <1>1, <1>p DEF InviteExpires, RequestsOK, reqVars, InvitesOK
  <2>4. TypeOK' <=> UsersOK' /\ InvitesOK' /\ RequestsOK' /\ HistoryOK'
    BY DEF TypeOK, UsersOK, InvitesOK, RequestsOK, HistoryOK
  <2> QED BY <2>1, <2>2, <2>3, <2>4
<1>2. CASE UNCHANGED vars
  BY <1>2 DEF TypeOK, vars, userVars, inviteVars, reqVars, history
<1> QED BY <1>1, <1>2, UserStepTypes, RequestStepTypes DEF Next

\* Rows, roles, invites, requests and counts keep their types, and no invite and no
\* request that makes one is ever without roles or an address, across any overlap.
THEOREM Typed == Spec => []TypeOK
<1>1. Init => TypeOK
  BY NoneAssumption DEF Init, TypeOK
<1> QED BY <1>1, TypeStep, PTL DEF Spec

(***************************************************************************)
(* One superadmin.                                                         *)
(***************************************************************************)

\* Who is in charge depends on the users' rows alone.
LEMMA RolesFrame == UNCHANGED userVars => ActiveAdmins' = ActiveAdmins /\ ActiveSuperadmins' = ActiveSuperadmins
  BY DEF userVars, ActiveAdmins, ActiveSuperadmins, Active

\* The row of a request's step is the accepting transaction's, or no row at all.
LEMMA RequestWrites == ASSUME NEW c \in Caller, Request(c) PROVE AcceptTx(c) \/ UNCHANGED userVars
  BY DEF Request, InviteUser, ReplaceSuperadmin, InviteSuperadmin, ResendRead, ResendRevoke, CreateRevoke,
         CreateInvite, AcceptRead, AcceptExpired, AcceptRefused, HandlerFails

LEMMA OneSuperadminStep == TypeOK /\ OneSuperadmin /\ [Next]_vars => OneSuperadmin'
<1> SUFFICES ASSUME TypeOK, OneSuperadmin, [Next]_vars PROVE OneSuperadmin'
  OBVIOUS
<1> USE DEF OneSuperadmin, ActiveSuperadmins, Active
<1>t. status \in [Email -> {"none", "inactive", "active", "deleted"}] /\ roles \in [Email -> SUBSET Role]
  BY DEF TypeOK
<1>0. ASSUME UNCHANGED userVars PROVE OneSuperadmin'
  BY <1>0 DEF userVars
<1>1. CASE UpdateUser
  BY <1>1, <1>t DEF UpdateUser, Manageable
<1>2. CASE AddRole
  BY <1>2, <1>t DEF AddRole, Manageable
<1>3. CASE RemoveRole
  BY <1>3, <1>t DEF RemoveRole, Manageable
<1>4. CASE DeleteUser
  BY <1>4, <1>t DEF DeleteUser, Manageable
<1>5. CASE PromoteToSuperadmin
  BY <1>5, <1>t DEF PromoteToSuperadmin, Replaced, DemotedRoles
<1>6. CASE ImportUser
  <2>1. PICK e \in Email, g \in Grants \cup {{}} :
                                       /\ status[e] = "none" /\ status' = [status EXCEPT ![e] = "inactive"]
                                       /\ roles' = [roles EXCEPT ![e] = g]
    BY <1>6 DEF ImportUser
  <2>2. "superadmin" \notin g
    BY GrantTypes
  <2> QED BY <2>1, <2>2, <1>t
<1>7. CASE InviteExpires
  BY <1>7, <1>0 DEF InviteExpires
<1>8. ASSUME NEW c \in Caller, AcceptTx(c) PROVE OneSuperadmin'
  <2>1. to[inv[c]] \in Email
    BY <1>8 DEF AcceptTx, TypeOK
  <2>2. CASE "superadmin" \in grants[inv[c]]
    BY <1>8, <2>1, <2>2, <1>t DEF AcceptTx, Replaced, DemotedRoles
  <2>3. CASE "superadmin" \notin grants[inv[c]]
    <3>1. "superadmin" \notin roles[to[inv[c]]]
      BY <1>8, <2>1 DEF AcceptTx, Acceptable
    <3> QED BY <1>8, <2>1, <2>3, <3>1, <1>t DEF AcceptTx
  <2> QED BY <2>2, <2>3
<1>9. CASE UNCHANGED vars
  BY <1>9, <1>0 DEF vars
<1> QED BY <1>0, <1>1, <1>2, <1>3, <1>4, <1>5, <1>6, <1>7, <1>8, <1>9, RequestWrites DEF Next

\* OneSuperadmin, against every order of invites, acceptances, promotions and
\* changes to other accounts.
THEOREM SuperadminAlone == Spec => []OneSuperadmin
<1>1. Init => OneSuperadmin
  BY DEF Init, OneSuperadmin
<1> QED BY <1>1, OneSuperadminStep, Typed, PTL DEF Spec

(***************************************************************************)
(* A leader at all times.                                                  *)
(***************************************************************************)

LEMMA LeadershipStep == TypeOK /\ [Next]_vars => (Leaders # {} => Leaders' # {})
<1> SUFFICES ASSUME TypeOK, [Next]_vars, Leaders # {} PROVE Leaders' # {}
  OBVIOUS
<1> USE DEF Leaders, ActiveAdmins, ActiveSuperadmins, Active
<1>t. status \in [Email -> {"none", "inactive", "active", "deleted"}] /\ roles \in [Email -> SUBSET Role]
  BY DEF TypeOK
<1>0. ASSUME UNCHANGED userVars PROVE Leaders' # {}
  BY <1>0 DEF userVars
<1>1. CASE UpdateUser
  BY <1>1, <1>t DEF UpdateUser, Manageable, LeadershipNotLocked
<1>2. CASE AddRole
  BY <1>2, <1>t DEF AddRole
<1>3. CASE RemoveRole
  BY <1>3, <1>t DEF RemoveRole, Manageable, LeadershipNotLocked
<1>4. CASE DeleteUser
  BY <1>4, <1>t DEF DeleteUser, Manageable, LeadershipNotLocked
<1>5. CASE PromoteToSuperadmin
  <2>1. PICK e \in Email : /\ Active(e)
                          /\ status' = [x \in Email |-> IF x \in Replaced(e) THEN "inactive" ELSE status[x]]
                          /\ roles' = [x \in Email |->
                               IF x = e THEN (roles[e] \ {"admin"}) \cup {"superadmin"}
                               ELSE IF x \in Replaced(e) THEN DemotedRoles(roles[x]) ELSE roles[x]]
    BY <1>5 DEF PromoteToSuperadmin
  <2>2. status'[e] = "active" /\ "superadmin" \in roles'[e]
    BY <2>1 DEF Replaced
  <2> QED BY <2>2
<1>6. CASE ImportUser
  BY <1>6, <1>t DEF ImportUser
<1>7. CASE InviteExpires
  BY <1>7, <1>0 DEF InviteExpires
<1>8. ASSUME NEW c \in Caller, AcceptTx(c) PROVE Leaders' # {}
  <2>1. to[inv[c]] \in Email
    BY <1>8 DEF AcceptTx, TypeOK
  <2>2. CASE "superadmin" \in grants[inv[c]]
    <3>1. status'[to[inv[c]]] = "active" /\ "superadmin" \in roles'[to[inv[c]]]
      BY <1>8, <2>1, <2>2 DEF AcceptTx
    <3> QED BY <2>1, <3>1
  <2>3. CASE "superadmin" \notin grants[inv[c]]
    BY <1>8, <2>1, <2>3, <1>t DEF AcceptTx
  <2> QED BY <2>2, <2>3
<1>9. CASE UNCHANGED vars
  BY <1>9, <1>0 DEF vars
<1> QED BY <1>0, <1>1, <1>2, <1>3, <1>4, <1>5, <1>6, <1>7, <1>8, <1>9, RequestWrites DEF Next

\* LeadershipKept: the counts inside the transactions are enough.
THEOREM LeadershipAlwaysKept == Spec => LeadershipKept
<1>1. TypeOK /\ [Next]_vars => [Leaders # {} => Leaders' # {}]_vars
  BY LeadershipStep
<1> QED BY <1>1, Typed, PTL DEF Spec, LeadershipKept

(***************************************************************************)
(* A last role.                                                            *)
(***************************************************************************)

LEMMA LastRoleStep ==
    ASSUME TypeOK, [Next]_vars, NEW e \in Email, roles'[e] = {}
    PROVE  roles[e] = {} /\ (status[e] = "none" => status'[e] \in {"none", "inactive"})
<1>t. status \in [Email -> {"none", "inactive", "active", "deleted"}] /\ roles \in [Email -> SUBSET Role]
  BY DEF TypeOK
<1>0. CASE UNCHANGED userVars
  BY <1>0 DEF userVars
<1>1. CASE UpdateUser \/ DeleteUser
  BY <1>1, <1>t DEF UpdateUser, DeleteUser, Manageable
<1>2. CASE AddRole
  BY <1>2, <1>t DEF AddRole
<1>3. CASE RemoveRole
  BY <1>3, <1>t DEF RemoveRole
<1>4. CASE PromoteToSuperadmin
  <2>1. PICK x \in Email :
           /\ Active(x)
           /\ status' = [y \in Email |-> IF y \in Replaced(x) THEN "inactive" ELSE status[y]]
           /\ roles' = [y \in Email |->
                IF y = x THEN (roles[x] \ {"admin"}) \cup {"superadmin"}
                ELSE IF y \in Replaced(x) THEN DemotedRoles(roles[y]) ELSE roles[y]]
    BY <1>4 DEF PromoteToSuperadmin
  <2>2. e # x /\ e \notin Replaced(x)
    BY <2>1 DEF DemotedRoles
  <2> QED BY <2>1, <2>2
<1>5. CASE ImportUser
  <2>1. status[e] = "none" => roles[e] = {}
    BY DEF TypeOK
  <2> QED BY <2>1, <1>5, <1>t DEF ImportUser
<1>6. ASSUME NEW c \in Caller, AcceptTx(c)
      PROVE  roles[e] = {} /\ (status[e] = "none" => status'[e] \in {"none", "inactive"})
  <2> DEFINE i == inv[c]
             out == IF "superadmin" \in grants[i] THEN Replaced(to[i]) ELSE {}
  <2>1. grants[i] # {}
    BY <1>6 DEF AcceptTx, Acceptable, Pending, TypeOK
  <2>2. /\ status' = [x \in Email |->
             IF x = to[i] THEN "active" ELSE IF x \in out THEN "inactive" ELSE status[x]]
        /\ roles' = [x \in Email |->
             IF x = to[i] THEN roles[to[i]] \cup grants[i]
             ELSE IF x \in out THEN DemotedRoles(roles[x]) ELSE roles[x]]
    BY <1>6 DEF AcceptTx
  <2> HIDE DEF i, out
  <2>3. e # to[i] /\ e \notin out
    BY <2>1, <2>2 DEF DemotedRoles
  <2> QED BY <2>2, <2>3
<1>7. CASE InviteExpires \/ UNCHANGED vars
  BY <1>0, <1>7 DEF InviteExpires, vars
<1> QED BY <1>0, <1>1, <1>2, <1>3, <1>4, <1>5, <1>6, <1>7, RequestWrites DEF Next

\* LastRoleKept: with the roles every invite has, the check in removeRole is
\* enough, since a superadmin who is replaced becomes an admin in the same step.
THEOREM LastRoleAlwaysKept == Spec => LastRoleKept
<1>1. TypeOK /\ [Next]_vars =>
        [\A e \in Email : roles'[e] = {} =>
            roles[e] = {} /\ (status[e] = "none" => status'[e] \in {"none", "inactive"})]_vars
  BY LastRoleStep
<1> QED BY <1>1, Typed, PTL DEF Spec, LastRoleKept

(***************************************************************************)
(* One account of each invite.                                             *)
(***************************************************************************)

\* An invite that could still be accepted has not been.
Unspent == \A i \in Invite : state[i] = "new" \/ Pending(i) => accepted[i] = 0

LEMMA AcceptedOnceStep == TypeOK /\ AcceptedOnce /\ Unspent /\ [Next]_vars => (AcceptedOnce /\ Unspent)'
<1> SUFFICES ASSUME TypeOK, AcceptedOnce, Unspent, [Next]_vars PROVE (AcceptedOnce /\ Unspent)'
  OBVIOUS
<1> USE DEF AcceptedOnce, Unspent, Pending
<1>t. /\ state \in [Invite -> {"new", "pending", "overdue", "accepted", "revoked", "expired"}]
      /\ accepted \in [Invite -> Nat]
  BY DEF TypeOK
<1>0. ASSUME UNCHANGED <<inviteVars, history>> PROVE (AcceptedOnce /\ Unspent)'
  BY <1>0 DEF inviteVars, history
<1>1. CASE UpdateUser \/ AddRole \/ RemoveRole \/ DeleteUser \/ PromoteToSuperadmin \/ ImportUser
  BY <1>1, <1>0 DEF UpdateUser, AddRole, RemoveRole, DeleteUser, PromoteToSuperadmin, ImportUser
<1>2. CASE InviteExpires
  BY <1>2, <1>t DEF InviteExpires, history
<1>3. ASSUME NEW c \in Caller, Request(c) PROVE (AcceptedOnce /\ Unspent)'
  <2>1. CASE InviteUser(c) \/ InviteSuperadmin(c) \/ ResendRead(c) \/ AcceptRead(c) \/ AcceptRefused(c) \/ HandlerFails(c)
    BY <2>1, <1>0 DEF InviteUser, InviteSuperadmin, ResendRead, AcceptRead, AcceptRefused, HandlerFails
  <2>2. CASE ReplaceSuperadmin(c) \/ CreateRevoke(c) \/ ResendRevoke(c) \/ AcceptExpired(c)
    BY <2>2, <1>t DEF ReplaceSuperadmin, CreateRevoke, ResendRevoke, AcceptExpired, history
  <2>3. CASE CreateInvite(c)
    BY <2>3, <1>t DEF CreateInvite, history
  <2>4. CASE AcceptTx(c)
    <3>1. inv[c] \in Invite /\ accepted[inv[c]] = 0
      BY <2>4 DEF AcceptTx, Acceptable, TypeOK
    <3>2. /\ state' = [state EXCEPT ![inv[c]] = "accepted"]
          /\ accepted' = [accepted EXCEPT ![inv[c]] = @ + 1]
      BY <2>4 DEF AcceptTx
    <3> QED BY <3>1, <3>2, <1>t
  <2> QED BY <1>3, <2>1, <2>2, <2>3, <2>4 DEF Request
<1>4. CASE UNCHANGED vars
  BY <1>4, <1>0 DEF vars
<1> QED BY <1>1, <1>2, <1>3, <1>4 DEF Next

\* AcceptedOnce, with any number of acceptances, resends and new invites at once.
THEOREM AcceptedAtMostOnce == Spec => []AcceptedOnce
<1>1. Init => AcceptedOnce /\ Unspent
  BY DEF Init, AcceptedOnce, Unspent
<1> QED BY <1>1, AcceptedOnceStep, Typed, PTL DEF Spec

(***************************************************************************)
(* The limit on admins.                                                    *)
(***************************************************************************)

LEMMA AdminsFinite == IsFiniteSet(ActiveAdmins) /\ IsFiniteSet(ActiveAdmins') /\ Cardinality(ActiveAdmins) \in Nat
<1>1. ActiveAdmins \subseteq Email /\ ActiveAdmins' \subseteq Email
  BY DEF ActiveAdmins
<1> QED BY <1>1, FiniteAssumption, FS_Subset, FS_CardinalityType

\* One more admin than there were, when there were fewer than the limit.
LEMMA OneMore ==
    ASSUME BelowAdminLimit, NEW e \in Email, ActiveAdmins' \subseteq ActiveAdmins \cup {e}
    PROVE  WithinAdminLimit'
<1>1. IsFiniteSet(ActiveAdmins \cup {e}) /\ Cardinality(ActiveAdmins \cup {e}) <= Cardinality(ActiveAdmins) + 1
  <2>1. /\ IsFiniteSet(ActiveAdmins \cup {e})
        /\ Cardinality(ActiveAdmins \cup {e}) =
             IF e \in ActiveAdmins THEN Cardinality(ActiveAdmins) ELSE Cardinality(ActiveAdmins) + 1
    BY AdminsFinite, FS_AddElement
  <2> QED BY <2>1, AdminsFinite
<1>2. ActiveAdmins' \ revived' \subseteq ActiveAdmins \cup {e}
  OBVIOUS
<1>3. Cardinality(ActiveAdmins' \ revived') <= Cardinality(ActiveAdmins \cup {e})
  BY <1>1, <1>2, FS_Subset
<1>4. Cardinality(ActiveAdmins' \ revived') \in Nat /\ Cardinality(ActiveAdmins \cup {e}) \in Nat
  BY <1>1, <1>2, FS_Subset, FS_CardinalityType
<1> QED BY <1>1, <1>3, <1>4, AdminsFinite, LimitAssumption DEF BelowAdminLimit, WithinAdminLimit

LEMMA NoMore ==
    ASSUME WithinAdminLimit, ActiveAdmins' \ revived' \subseteq ActiveAdmins \ revived
    PROVE  WithinAdminLimit'
<1>1. IsFiniteSet(ActiveAdmins \ revived)
  BY AdminsFinite, FS_Subset
<1>2. Cardinality(ActiveAdmins' \ revived') <= Cardinality(ActiveAdmins \ revived)
  BY <1>1, FS_Subset
<1>3. Cardinality(ActiveAdmins' \ revived') \in Nat /\ Cardinality(ActiveAdmins \ revived) \in Nat
  BY <1>1, FS_Subset, FS_CardinalityType
<1> QED BY <1>2, <1>3, LimitAssumption DEF WithinAdminLimit

LEMMA WithinLimitStep == TypeOK /\ WithinAdminLimit /\ [Next]_vars => WithinAdminLimit'
<1> SUFFICES ASSUME TypeOK, WithinAdminLimit, [Next]_vars PROVE WithinAdminLimit'
  OBVIOUS
<1>t. status \in [Email -> {"none", "inactive", "active", "deleted"}] /\ roles \in [Email -> SUBSET Role]
  BY DEF TypeOK
<1>0. ASSUME UNCHANGED <<userVars, history>> PROVE WithinAdminLimit'
  BY <1>0, RolesFrame, NoMore DEF history
<1>1. CASE UpdateUser
  <2>1. PICK e \in Email, s \in {"active", "inactive"} :
             /\ "admin" \in roles[e] /\ ~Active(e) /\ s = "active" => BelowAdminLimit
             /\ status' = [status EXCEPT ![e] = s] /\ UNCHANGED <<roles, revived>>
    BY <1>1 DEF UpdateUser, history
  <2>2. CASE BelowAdminLimit
    <3>1. ActiveAdmins' \subseteq ActiveAdmins \cup {e}
      BY <2>1, <1>t DEF ActiveAdmins, Active
    <3> QED BY <3>1, <2>2, OneMore
  <2>3. CASE ~BelowAdminLimit
    <3>1. ActiveAdmins' \ revived' \subseteq ActiveAdmins \ revived
      BY <2>1, <2>3, <1>t DEF ActiveAdmins, Active
    <3> QED BY <3>1, NoMore
  <2> QED BY <2>2, <2>3
<1>2. CASE AddRole
  <2>1. PICK e \in Email, r \in {"admin", "rep"} :
             /\ r = "admin" => BelowAdminLimit
             /\ roles' = [roles EXCEPT ![e] = @ \cup {r}] /\ UNCHANGED <<status, revived>>
    BY <1>2 DEF AddRole, history
  <2>2. CASE r = "admin"
    <3>1. ActiveAdmins' \subseteq ActiveAdmins \cup {e}
      BY <2>1, <1>t DEF ActiveAdmins, Active
    <3> QED BY <3>1, <2>1, <2>2, OneMore
  <2>3. CASE r = "rep"
    <3>1. ActiveAdmins' \ revived' \subseteq ActiveAdmins \ revived
      BY <2>1, <2>3, <1>t DEF ActiveAdmins, Active
    <3> QED BY <3>1, NoMore
  <2> QED BY <2>2, <2>3
<1>3. CASE RemoveRole \/ DeleteUser \/ ImportUser
  <2>1. ActiveAdmins' \ revived' \subseteq ActiveAdmins \ revived
    BY <1>3, <1>t DEF RemoveRole, DeleteUser, ImportUser, ActiveAdmins, Active, history
  <2> QED BY <2>1, NoMore
<1>4. CASE PromoteToSuperadmin
  <2>1. ActiveAdmins' \ revived' \subseteq ActiveAdmins \ revived
    BY <1>4, <1>t DEF PromoteToSuperadmin, ActiveAdmins, ActiveSuperadmins, Active, Replaced, DemotedRoles, history
  <2> QED BY <2>1, NoMore
<1>5. CASE InviteExpires
  BY <1>5, <1>0 DEF InviteExpires
<1>6. ASSUME NEW c \in Caller, Request(c) PROVE WithinAdminLimit'
  <2>1. CASE AcceptTx(c)
    <3> DEFINE i == inv[c]
               e == to[inv[c]]
    <3>1. e \in Email
      BY <2>1 DEF AcceptTx, TypeOK
    <3>2. ActiveAdmins' \subseteq ActiveAdmins \cup {e}
      BY <2>1, <3>1, <1>t DEF AcceptTx, ActiveAdmins, ActiveSuperadmins, Active, Replaced, DemotedRoles
    <3>3. CASE "admin" \in grants[i]
      BY <2>1, <3>1, <3>2, <3>3, OneMore DEF AcceptTx, Acceptable
    <3>4. CASE "admin" \notin grants[i]
      <4>1. revived \subseteq revived'
        BY <2>1 DEF AcceptTx
      <4>2. e \in ActiveAdmins' => e \in revived'
        <5>1. e \in ActiveAdmins' => "admin" \in roles[e]
          BY <2>1, <3>1, <3>4, <1>t DEF AcceptTx, ActiveAdmins
        <5> QED BY <5>1, <2>1, <3>4 DEF AcceptTx
      <4>3. ActiveAdmins' \ revived' \subseteq ActiveAdmins \ revived
        BY <3>2, <4>1, <4>2
      <4> QED BY <4>3, NoMore
    <3> QED BY <3>3, <3>4
  <2>2. CASE ~AcceptTx(c)
    BY <1>6, <2>2, <1>0 DEF Request, InviteUser, ReplaceSuperadmin, InviteSuperadmin, ResendRead, ResendRevoke,
       CreateRevoke, CreateInvite, AcceptRead, AcceptExpired, AcceptRefused, HandlerFails
  <2> QED BY <2>1, <2>2
<1>7. CASE UNCHANGED vars
  BY <1>7, <1>0 DEF vars
<1> QED BY <1>1, <1>2, <1>3, <1>4, <1>5, <1>6, <1>7 DEF Next

\* WithinAdminLimit, for any limit, any number of pending invites and any
\* number of them accepted together.
THEOREM LimitAlwaysKept == Spec => []WithinAdminLimit
<1>1. Init => WithinAdminLimit
  <2>1. ASSUME Init PROVE Cardinality(ActiveAdmins \ revived) = 0
    <3>1. ActiveAdmins \ revived = {}
      BY <2>1 DEF Init, ActiveAdmins, Active
    <3> QED BY <3>1, FS_EmptySet
  <2> QED BY <2>1, LimitAssumption DEF WithinAdminLimit
<1> QED BY <1>1, WithinLimitStep, Typed, PTL DEF Spec
=============================================================================
