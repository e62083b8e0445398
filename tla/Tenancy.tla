-------------------------------- MODULE Tenancy --------------------------------
(***************************************************************************)
(* One organisation and its people: creation, invitations and activation,  *)
(* removal of roles (platform/routes.ts), the role guard (auth/guards.ts), *)
(* plan, suspension (platform/subscriptions.ts, entitlements.ts), support  *)
(* access (support-access.ts) and the V2 flags (v2/flags.ts).  An          *)
(* administrator's request is the guard and then its handler.  Platform    *)
(* administrators' requests are one step: no other step changes what their *)
(* guard asks.                                                             *)
(***************************************************************************)
EXTENDS Integers, FiniteSets

CONSTANTS
  User, Role,   \* Role holds "org_admin"
  Activation,   \* account_activation_tokens rows
  Caller,       \* activations that may run at a time
  Grant         \* support_access_grants rows

ASSUME TenancyAssumption == "org_admin" \in Role

VARIABLES
  org,         \* organisations.status, "none" before its creation
  member,      \* org_memberships
  account,     \* user -> users.status
  signedIn,    \* users with a session that is not revoked
  task,        \* administrator -> the handler of his request
  activation,  \* token -> whose it is and what has become of it
  activating,  \* caller -> the token whose row it holds: a set of one at most
  uses,        \* history: token -> activations committed with it
  subscription,\* org_subscriptions.status
  support,     \* grant -> its status
  flag         \* org_feature_flags.enabled, of the one flag modelled

tenancyvars == <<org, member, account, signedIn, task, activation, activating,
                 uses, subscription, support, flag>>
people == <<org, member, account, signedIn, task, activation, activating, uses>>
platform == <<subscription, support, flag>>

NoTask == [op |-> "none", on |-> {}]
Removal == {<<u, r>> : u \in User, r \in Role}

TenancyTypeOK ==
  /\ org \in {"none", "active", "suspended"}
  /\ member \subseteq Removal
  /\ account \in [User -> {"none", "invited", "active"}]
  /\ signedIn \subseteq User
  /\ task \in [User -> [op : {"none", "invite", "approve", "remove", "delete"},
                        on : SUBSET Removal]]
  /\ activation \in [Activation -> [state : {"none", "live", "used", "expired"},
                                    of : SUBSET User]]
  /\ activating \in [Caller -> SUBSET Activation]
  /\ uses \in [Activation -> Nat]
  /\ subscription \in {"none", "active", "suspended"}
  /\ support \in [Grant -> {"none", "pending", "approved", "expired"}]
  /\ flag \in BOOLEAN

TenancyInit ==
  /\ org = "none" /\ member = {} /\ signedIn = {}
  /\ account = [u \in User |-> "none"]
  /\ task = [u \in User |-> NoTask]
  /\ activation = [a \in Activation |-> [state |-> "none", of |-> {}]]
  /\ activating = [c \in Caller |-> {}]
  /\ uses = [a \in Activation |-> 0]
  /\ subscription = "none"
  /\ support = [g \in Grant |-> "none"]
  /\ flag = FALSE

-------------------------------------------------------------------------------
(* People. *)

(* The user is created or reused, the role granted if he lacks it, and a   *)
(* new token issued: earlier ones stay good.                               *)
InviteUser(u, r) ==
  /\ account' = [account EXCEPT ![u] = IF @ = "none" THEN "invited" ELSE @]
  /\ member' = member \cup {<<u, r>>}
  /\ \E a \in Activation :
       /\ activation[a].state = "none"
       /\ activation' = [activation EXCEPT ![a] = [state |-> "live", of |-> {u}]]

CreateOrganisation(u) ==
  /\ org = "none" /\ org' = "active"
  /\ InviteUser(u, "org_admin")
  /\ UNCHANGED <<signedIn, task, activating, uses, platform>>

(* Signing in asks for an active account and for no role. *)
SignIn(u) ==
  /\ account[u] = "active"
  /\ signedIn' = signedIn \cup {u}
  /\ UNCHANGED <<org, member, account, task, activation, activating, uses, platform>>

(* requireOrgRole: a live session, the role, an organisation not suspended.*)
HasOrgRole(u, r) == u \in signedIn /\ <<u, r>> \in member /\ org = "active"

RequireOrgRole(u) ==
  /\ task[u].op = "none" /\ HasOrgRole(u, "org_admin")
  /\ \/ task' = [task EXCEPT ![u].op = "approve"]
     \/ \E op \in {"invite", "remove"}, p \in Removal :
          task' = [task EXCEPT ![u] = [op |-> op, on |-> {p}]]
  /\ UNCHANGED <<org, member, account, signedIn, activation, activating, uses, platform>>

Answer(u) == task' = [task EXCEPT ![u] = NoTask]

PostUser(u) ==
  /\ task[u].op = "invite" /\ Answer(u)
  /\ \E p \in task[u].on : InviteUser(p[1], p[2])
  /\ UNCHANGED <<org, signedIn, activating, uses, platform>>

(* The other administrators are counted, the row is not locked... *)
OtherAdmins(v) == {w \in User \ {v} : <<w, "org_admin">> \in member}

CountOtherAdmins(u) ==
  /\ task[u].op = "remove"
  /\ \E p \in task[u].on :
       IF p[2] = "org_admin" /\ OtherAdmins(p[1]) = {}
         THEN Answer(u)
         ELSE task' = [task EXCEPT ![u].op = "delete"]
  /\ UNCHANGED <<org, member, account, signedIn, activation, activating, uses, platform>>

(* ...and then it is deleted, and the user signed out everywhere. *)
DeleteRole(u) ==
  /\ task[u].op = "delete" /\ Answer(u)
  /\ \E p \in task[u].on :
       /\ member' = member \ {p}
       /\ signedIn' = IF p \in member THEN signedIn \ {p[1]} ELSE signedIn
  /\ UNCHANGED <<org, account, activation, activating, uses, platform>>

-------------------------------------------------------------------------------
(* Activation. *)

ActivationExpires(a) ==
  /\ activation[a].state = "live"
  /\ \A c \in Caller : a \notin activating[c]
  /\ activation' = [activation EXCEPT ![a].state = "expired"]
  /\ UNCHANGED <<org, member, account, signedIn, task, activating, uses, platform>>

(* Wrong on purpose: the row is read and not locked. *)
LockActivationShared(c, a) ==
  /\ activating[c] = {} /\ activation[a].state = "live"
  /\ activating' = [activating EXCEPT ![c] = {a}]
  /\ UNCHANGED <<org, member, account, signedIn, task, activation, uses, platform>>

(* FOR UPDATE of a row with used_at IS NULL: whoever waits for it finds it *)
(* used.                                                                   *)
LockActivation(c, a) ==
  /\ activating[c] = {} /\ activation[a].state = "live"
  /\ \A d \in Caller : a \notin activating[d]
  /\ activating' = [activating EXCEPT ![c] = {a}]
  /\ UNCHANGED <<org, member, account, signedIn, task, activation, uses, platform>>

CommitActivation(c) ==
  /\ \E a \in activating[c] :
       /\ activation' = [activation EXCEPT ![a].state = "used"]
       /\ account' = [u \in User |-> IF u \in activation[a].of THEN "active" ELSE account[u]]
       /\ uses' = [uses EXCEPT ![a] = @ + 1]
  /\ activating' = [activating EXCEPT ![c] = {}]
  /\ UNCHANGED <<org, member, signedIn, task, platform>>

AbortActivation(c) ==
  /\ activating[c] # {}
  /\ activating' = [activating EXCEPT ![c] = {}]
  /\ UNCHANGED <<org, member, account, signedIn, task, activation, uses, platform>>

-------------------------------------------------------------------------------
(* Plan, suspension, support, flags. *)

(* A first subscription is active, even of a suspended organisation; a     *)
(* change of plan leaves the status alone.                                 *)
AssignPlan ==
  /\ org # "none"
  /\ subscription' = IF subscription = "none" THEN "active" ELSE subscription
  /\ UNCHANGED <<people, support, flag>>

SetSuspended(to) ==
  /\ org # "none" /\ org' = to
  /\ subscription' = IF subscription = "none" THEN subscription ELSE to
  /\ UNCHANGED <<member, account, signedIn, task, activation, activating, uses,
                 support, flag>>

RequestSupport(g, breakGlass) ==
  /\ org # "none" /\ support[g] = "none"
  /\ support' = [support EXCEPT ![g] = IF breakGlass THEN "approved" ELSE "pending"]
  /\ UNCHANGED <<people, subscription, flag>>

(* A pending grant whose time is over is approved all the same. *)
ApproveSupport(u) ==
  /\ task[u].op = "approve" /\ Answer(u)
  /\ \/ \E g \in Grant : /\ support[g] = "pending"
                         /\ support' = [support EXCEPT ![g] = "approved"]
     \/ UNCHANGED support
  /\ UNCHANGED <<org, member, account, signedIn, activation, activating, uses,
                 subscription, flag>>

SupportExpires(g) ==
  /\ support[g] = "approved"
  /\ support' = [support EXCEPT ![g] = "expired"]
  /\ UNCHANGED <<people, subscription, flag>>

PutFlag(on) ==
  /\ org # "none" /\ flag' = on
  /\ UNCHANGED <<people, subscription, support>>

-------------------------------------------------------------------------------
TenancyNext ==
  \/ \E u \in User :
       \/ CreateOrganisation(u) \/ SignIn(u) \/ RequireOrgRole(u)
       \/ PostUser(u) \/ CountOtherAdmins(u) \/ DeleteRole(u) \/ ApproveSupport(u)
  \/ \E a \in Activation :
       ActivationExpires(a) \/ \E c \in Caller : LockActivation(c, a)
  \/ \E c \in Caller : CommitActivation(c) \/ AbortActivation(c)
  \/ AssignPlan
  \/ \E to \in {"active", "suspended"} : SetSuspended(to)
  \/ \E g \in Grant : SupportExpires(g) \/ \E b \in BOOLEAN : RequestSupport(g, b)
  \/ \E on \in BOOLEAN : PutFlag(on)

TenancySpec == TenancyInit /\ [][TenancyNext]_tenancyvars

-------------------------------------------------------------------------------
(* An activation token sets one password, whoever else presents it at the  *)
(* same time (platform/routes.ts:283).                                     *)
TokenUsedOnce == \A a \in Activation : uses[a] <= 1

(* "so the org can never lock itself out" (platform/routes.ts:203): an     *)
(* organisation that has been created keeps an administrator.              *)
AnAdminRemains == org # "none" => \E u \in User : <<u, "org_admin">> \in member
===============================================================================
