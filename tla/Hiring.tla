-------------------------------- MODULE Hiring --------------------------------
(***************************************************************************)
(* Candidates and invitations of one organisation (org/hiring.ts) under    *)
(* its plan (platform/subscriptions.ts, platform/entitlements.ts).  Import *)
(* and issue are transactions of several statements at READ COMMITTED that *)
(* lock nothing they have read; a reissue locks the invitation's row.      *)
(***************************************************************************)
EXTENDS Integers, FiniteSets

CONSTANTS
  Clerk,      \* requests of hiring managers at a time
  Email,      \* the addresses candidates have
  Limit,      \* values of maxActiveAssessments
  NoLimit,    \* no subscription, or a plan without that limit
  MaxInvite   \* bound on the invitations issued

ASSUME HiringAssumption ==
  /\ Limit \subseteq Nat /\ NoLimit \notin Limit /\ MaxInvite \in Nat
  /\ IsFiniteSet(Clerk) /\ Clerk # {}

VARIABLES
  candidate,   \* address -> candidates.status, "absent" before the row
  office,      \* clerk -> the transaction he has open
  invite,      \* invitation id -> its row
  routing,     \* invitations with a row in invitation_lookup
  landing,     \* landing views that have read "sent" and not written yet
  planLimit,
  ceiling,     \* history: the largest limit that has been in force
  reissues     \* history: how many invitations were reissued

hiringvars == <<candidate, office, invite, routing, landing, planLimit, ceiling, reissues>>

Invite == 1..MaxInvite
Blank == [status |-> "none", past |-> FALSE]
Away == [op |-> "none", rows |-> {}, missed |-> {}, new |-> {}]

HiringTypeOK ==
  /\ candidate \in [Email -> {"absent", "created", "invited"}]
  /\ office \in [Clerk -> [op : {"none", "import", "issue"}, rows : SUBSET Email,
                           missed : SUBSET Email, new : SUBSET Email]]
  /\ invite \in [Invite -> [status : {"none", "sent", "opened", "accepted", "expired"},
                            past : BOOLEAN]]
  /\ routing \subseteq Invite /\ landing \subseteq Invite
  /\ planLimit \in Limit \cup {NoLimit} /\ ceiling \in Limit \cup {NoLimit}
  /\ reissues \in 0..MaxInvite

HiringInit ==
  /\ candidate = [e \in Email |-> "absent"]
  /\ office = [k \in Clerk |-> Away]
  /\ invite = [i \in Invite |-> Blank]
  /\ routing = {} /\ landing = {}
  /\ planLimit \in Limit \cup {NoLimit} /\ ceiling = planLimit
  /\ reissues = 0

-------------------------------------------------------------------------------
(* Candidates.  An INSERT waits for another's uncommitted row of the same  *)
(* (organisation, e-mail) and fails on a committed one.                    *)

InsertedByOthers(k) == UNION {office[h].new : h \in Clerk \ {k}}

CreateCandidate(e) ==
  /\ candidate[e] = "absent" /\ \A k \in Clerk : e \notin office[k].new
  /\ candidate' = [candidate EXCEPT ![e] = "created"]
  /\ UNCHANGED <<office, invite, routing, landing, planLimit, ceiling, reissues>>

(* The file is parsed before the transaction: rows are its valid lines,    *)
(* one for each address.                                                   *)
BeginImport(k) ==
  /\ office[k] = Away
  /\ \E rows \in SUBSET Email \ {{}} :
       office' = [office EXCEPT ![k] = [Away EXCEPT !.op = "import", !.rows = rows]]
  /\ UNCHANGED <<candidate, invite, routing, landing, planLimit, ceiling, reissues>>

LookForRow(k, e) ==
  /\ office[k].op = "import" /\ office[k].missed = {} /\ e \in office[k].rows
  /\ office' = [office EXCEPT ![k].rows = @ \ {e},
                              ![k].missed = IF candidate[e] = "absent" THEN {e} ELSE {}]
  /\ UNCHANGED <<candidate, invite, routing, landing, planLimit, ceiling, reissues>>

InsertRow(k, e) ==
  /\ office[k].missed = {e} /\ candidate[e] = "absent" /\ e \notin InsertedByOthers(k)
  /\ office' = [office EXCEPT ![k].missed = {}, ![k].new = @ \cup {e}]
  /\ UNCHANGED <<candidate, invite, routing, landing, planLimit, ceiling, reissues>>

FinishImport(k) ==
  /\ office[k].op = "import" /\ office[k].rows = {} /\ office[k].missed = {}
  /\ candidate' = [e \in Email |-> IF e \in office[k].new THEN "created" ELSE candidate[e]]
  /\ office' = [office EXCEPT ![k] = Away]
  /\ UNCHANGED <<invite, routing, landing, planLimit, ceiling, reissues>>

(* The unique index refuses a row that was missing when it was looked for, *)
(* two imports wait for each other's rows, or the connection is lost: the  *)
(* whole transaction is rolled back.                                       *)
Abandon(k) ==
  /\ office[k] # Away
  /\ office' = [office EXCEPT ![k] = Away]
  /\ UNCHANGED <<candidate, invite, routing, landing, planLimit, ceiling, reissues>>

-------------------------------------------------------------------------------
(* Invitations. *)

Active == {i \in Invite : invite[i].status \in {"sent", "opened", "accepted"}}

Fresh == {i \in Invite : invite[i].status = "none"}

(* Wrong on purpose: the plan's limit is not looked at. *)
BeginIssueUnlimited(k, e) ==
  /\ office[k] = Away /\ candidate[e] # "absent"
  /\ office' = [office EXCEPT ![k] = [Away EXCEPT !.op = "issue", !.rows = {e}]]
  /\ UNCHANGED <<candidate, invite, routing, landing, planLimit, ceiling, reissues>>

(* The template, the candidate and the job are there, and the count is     *)
(* below the limit; otherwise the answer is 404 or 422.                    *)
BeginIssue(k, e) ==
  /\ office[k] = Away /\ candidate[e] # "absent"
  /\ planLimit # NoLimit => Cardinality(Active) < planLimit
  /\ office' = [office EXCEPT ![k] = [Away EXCEPT !.op = "issue", !.rows = {e}]]
  /\ UNCHANGED <<candidate, invite, routing, landing, planLimit, ceiling, reissues>>

CommitIssue(k) ==
  /\ office[k].op = "issue" /\ Fresh # {}
  /\ LET i == CHOOSE j \in Fresh : \A f \in Fresh : j <= f
     IN  /\ invite' = [invite EXCEPT ![i].status = "sent"]
         /\ routing' = routing \cup {i}
  /\ candidate' = [e \in Email |->
       IF e \in office[k].rows /\ candidate[e] = "created" THEN "invited" ELSE candidate[e]]
  /\ office' = [office EXCEPT ![k] = Away]
  /\ UNCHANGED <<landing, planLimit, ceiling, reissues>>

(* An overdue row is marked "expired", and only from there does the        *)
(* machine reissue: a fresh row, routed, in the old one's place.  The plan *)
(* is not asked, and the old row stays "expired".                          *)
ReissueInvite(i) ==
  /\ Fresh # {}
  /\ \/ invite[i].status = "expired"
     \/ invite[i].status \in {"sent", "opened"} /\ invite[i].past
  /\ LET j == CHOOSE m \in Fresh : \A f \in Fresh : m <= f
     IN  /\ invite' = [invite EXCEPT ![i].status = "expired", ![j].status = "sent"]
         /\ routing' = (routing \cup {j}) \ {i}
  /\ reissues' = reissues + 1
  /\ UNCHANGED <<candidate, office, landing, planLimit, ceiling>>

(* expires_at passes: the token is refused from now on. *)
InviteFallsDue(i) ==
  /\ invite[i].status # "none" /\ ~invite[i].past
  /\ invite' = [invite EXCEPT ![i].past = TRUE]
  /\ UNCHANGED <<candidate, office, routing, landing, planLimit, ceiling, reissues>>

-------------------------------------------------------------------------------
(* What the candidate's portal does to the row. *)

Reachable(i) == i \in routing /\ ~invite[i].past

ViewLanding(i) ==
  /\ Reachable(i) /\ invite[i].status = "sent" /\ i \notin landing
  /\ landing' = landing \cup {i}
  /\ UNCHANGED <<candidate, office, invite, routing, planLimit, ceiling, reissues>>

(* "opened" is written whatever the row says by then. *)
MarkOpened(i) ==
  /\ i \in landing /\ landing' = landing \ {i}
  /\ invite' = [invite EXCEPT ![i].status = "opened"]
  /\ UNCHANGED <<candidate, office, routing, planLimit, ceiling, reissues>>

(* The V1 acceptance asks for "opened", the V2 disclosure for nothing. *)
AcceptInvite(i) ==
  /\ Reachable(i) /\ invite[i].status \in {"sent", "opened"}
  /\ invite' = [invite EXCEPT ![i].status = "accepted"]
  /\ UNCHANGED <<candidate, office, routing, landing, planLimit, ceiling, reissues>>

-------------------------------------------------------------------------------
(* The platform assigns a plan. *)

AssignPlan(l) ==
  /\ planLimit' = l
  /\ ceiling' = IF ceiling = NoLimit \/ l = NoLimit THEN NoLimit
                ELSE IF l > ceiling THEN l ELSE ceiling
  /\ UNCHANGED <<candidate, office, invite, routing, landing, reissues>>

HiringNext ==
  \/ \E e \in Email : CreateCandidate(e)
  \/ \E k \in Clerk :
       \/ BeginImport(k) \/ FinishImport(k) \/ Abandon(k) \/ CommitIssue(k)
       \/ \E e \in Email : LookForRow(k, e) \/ InsertRow(k, e) \/ BeginIssue(k, e)
  \/ \E i \in Invite :
       \/ ReissueInvite(i) \/ InviteFallsDue(i)
       \/ ViewLanding(i) \/ MarkOpened(i) \/ AcceptInvite(i)
  \/ \E l \in Limit \cup {NoLimit} : AssignPlan(l)

HiringSpec == HiringInit /\ [][HiringNext]_hiringvars

-------------------------------------------------------------------------------
(* Properties. *)

(* The plan's limit on active assessments is a count followed by an        *)
(* INSERT, and a reissue does not count: the organisation is past the      *)
(* largest limit it has had by no more than the requests that could pass   *)
(* the check together, and one for each reissue.                           *)
PlanOvershootBounded ==
  ceiling # NoLimit =>
    Cardinality(Active) + 1 <= ceiling + Cardinality(Clerk) + reissues

===============================================================================
