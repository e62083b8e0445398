---------------------------- MODULE DataLifecycle ----------------------------
(***************************************************************************)
(* What removes the data of one candidate, and what must not: requests for *)
(* erasure and legal holds (org/data-rights.ts), the retention sweep       *)
(* (jobs/retention.ts) and the retention worker of the V2 tables           *)
(* (jobs/retention-v2.ts).                                                 *)
(*                                                                         *)
(* An erasure and a sweep are transactions of several statements at READ   *)
(* COMMITTED: each statement reads what is committed when it runs, and     *)
(* what they delete is gone for the others at their COMMIT.                *)
(***************************************************************************)
EXTENDS Integers, FiniteSets

CONSTANTS
  Request,   \* the candidate's requests for erasure
  Hold,      \* legal_holds rows
  Sitting,   \* the candidate's sessions
  EventRow,  \* evidence_events rows, each written once at most
  ScoreRow,  \* criterion_scores and evidence_ledger_claims rows, the same
  SweepCap   \* maxDeletionsPerOrgPerCategory

ASSUME DataAssumption ==
  /\ SweepCap \in Nat /\ EventRow \cap ScoreRow = {}
  /\ {"unwritten", "deleted"} \cap Sitting = {}

VARIABLES
  age,        \* sitting -> "none", "open", or terminal and "recent" or
              \* "past" the retention window
  owner,      \* row -> its sitting, or "unwritten", "deleted"
  v2rows,     \* sittings with rows in the tables of the V2 runtime
  identity,   \* candidates.status: "named" or "anonymised"
  routed,     \* the candidate's token resolves (invitation_lookup)
  resolved,   \* a portal request has resolved it and not written yet
  holds,      \* active legal holds
  request,    \* data_rights_requests.status, "none" before the row
  erasing,    \* request -> its fulfilling transaction
  sweep,      \* the sweep's transaction
  known,      \* history: rows there when the request's transaction began
  spared      \* history: a hold has been active since the sweep began

datavars == <<age, owner, v2rows, identity, routed, resolved, holds, request,
              erasing, sweep, known, spared>>
subject == <<age, owner, v2rows, identity, routed, resolved>>

Row == EventRow \cup ScoreRow
ErasureIdle == [at |-> "idle", sittings |-> {}, gone |-> {}]
SweepIdle == [at |-> "idle", gone |-> {}, names |-> FALSE]

RequestState == {"none", "received", "identity_verification", "in_progress",
                 "awaiting_controller", "fulfilled", "refused_documented",
                 "withdrawn_by_subject"}

(* dataRightsMachine; "fulfil" is the erasure below. *)
RequestTransition ==
  { <<"received", "identity_verification">>,
    <<"identity_verification", "in_progress">>,
    <<"in_progress", "awaiting_controller">>,
    <<"awaiting_controller", "in_progress">>,
    <<"in_progress", "refused_documented">> }
  \cup { <<s, "withdrawn_by_subject">> :
           s \in {"received", "identity_verification", "in_progress", "awaiting_controller"} }

DataTypeOK ==
  /\ age \in [Sitting -> {"none", "open", "recent", "past"}]
  /\ owner \in [Row -> Sitting \cup {"unwritten", "deleted"}]
  /\ v2rows \subseteq Sitting
  /\ identity \in {"named", "anonymised"}
  /\ routed \in BOOLEAN /\ resolved \in BOOLEAN
  /\ holds \subseteq Hold
  /\ request \in [Request -> RequestState]
  /\ erasing \in [Request -> [at : {"idle", "checked", "gathered", "deleted"},
                              sittings : SUBSET Sitting, gone : SUBSET Row]]
  /\ sweep \in [at : {"idle", "counted", "deleted", "anonymised"},
                gone : SUBSET EventRow, names : BOOLEAN]
  /\ known \in [Request -> SUBSET Row]
  /\ spared \in BOOLEAN

DataInit ==
  /\ age = [s \in Sitting |-> "none"]
  /\ owner = [i \in Row |-> "unwritten"]
  /\ v2rows = {}
  /\ identity = "named" /\ routed = TRUE /\ resolved = FALSE
  /\ holds = {}
  /\ request = [r \in Request |-> "none"]
  /\ erasing = [r \in Request |-> ErasureIdle] /\ sweep = SweepIdle
  /\ known = [r \in Request |-> {}] /\ spared = FALSE

-------------------------------------------------------------------------------
(* The rest of the system: sittings start, end and age, and leave rows.    *)

StartSitting(s) ==
  /\ routed
  /\ age[s] = "none" /\ age' = [age EXCEPT ![s] = "open"]
  /\ UNCHANGED <<owner, v2rows, identity, routed, resolved, holds, request, erasing, sweep, known, spared>>

Age(s) ==
  /\ age[s] \in {"open", "recent"}
  /\ age' = [age EXCEPT ![s] = IF age[s] = "open" THEN "recent" ELSE "past"]
  /\ UNCHANGED <<owner, v2rows, identity, routed, resolved, holds, request, erasing, sweep, known, spared>>

(* A portal handler resolves the token in a transaction of its own, before *)
(* the one it writes in.                                                   *)
ResolveToken ==
  /\ routed /\ resolved' = TRUE
  /\ UNCHANGED <<age, owner, v2rows, identity, routed, holds, request, erasing, sweep, known, spared>>

PortalWrite(s, i) ==
  /\ resolved /\ age[s] = "open" /\ owner[i] = "unwritten"
  /\ owner' = [owner EXCEPT ![i] = s]
  /\ resolved' = FALSE
  /\ UNCHANGED <<age, v2rows, identity, routed, holds, request, erasing, sweep, known, spared>>

ReviewWrite(s, i) ==
  /\ age[s] # "none" /\ owner[i] = "unwritten"
  /\ owner' = [owner EXCEPT ![i] = s]
  /\ UNCHANGED <<age, v2rows, identity, routed, resolved, holds, request, erasing, sweep, known, spared>>

RuntimeWrite(s) ==
  /\ age[s] = "open"
  /\ v2rows' = v2rows \cup {s}
  /\ UNCHANGED <<age, owner, identity, routed, resolved, holds, request, erasing, sweep, known, spared>>

-------------------------------------------------------------------------------
(* Legal holds.  Neither handler takes a lock. *)

PlaceHold(h) ==
  /\ h \notin holds /\ holds' = holds \cup {h}
  /\ UNCHANGED <<subject, request, erasing, sweep, known, spared>>

ReleaseHold(h) ==
  /\ h \in holds /\ holds' = holds \ {h}
  /\ spared' = (spared /\ holds' # {})
  /\ UNCHANGED <<subject, request, erasing, sweep, known>>

-------------------------------------------------------------------------------
(* Requests.  A transition locks the row, so none runs beside an erasure.  *)

ReceiveRequest(r) ==
  /\ routed
  /\ request[r] = "none" /\ request' = [request EXCEPT ![r] = "received"]
  /\ UNCHANGED <<subject, holds, erasing, sweep, known, spared>>

MoveRequest(r) ==
  /\ erasing[r].at = "idle"
  /\ \E t \in RequestTransition : t[1] = request[r] /\ request' = [request EXCEPT ![r] = t[2]]
  /\ UNCHANGED <<subject, holds, erasing, sweep, known, spared>>

Erase(r, tx) == erasing' = [erasing EXCEPT ![r] = tx]

PresentRows == {i \in Row : owner[i] \in Sitting}

(* The check for a hold is the first statement after the lock; one that is *)
(* there is answered with 409 and nothing is written.                      *)
BeginErasure(r) ==
  /\ request[r] = "in_progress" /\ erasing[r].at = "idle"
  /\ holds = {}
  /\ Erase(r, [ErasureIdle EXCEPT !.at = "checked"])
  /\ known' = [known EXCEPT ![r] = PresentRows]
  /\ UNCHANGED <<subject, holds, request, sweep, spared>>

(* Wrong on purpose: the sessions are those the portal still has open. *)
GatherOpenSittings(r) ==
  /\ erasing[r].at = "checked"
  /\ Erase(r, [erasing[r] EXCEPT !.at = "gathered",
                                 !.sittings = {s \in Sitting : age[s] = "open"}])
  /\ UNCHANGED <<subject, holds, request, sweep, known, spared>>

GatherSittings(r) ==
  /\ erasing[r].at = "checked"
  /\ Erase(r, [erasing[r] EXCEPT !.at = "gathered",
                                 !.sittings = {s \in Sitting : age[s] # "none"}])
  /\ UNCHANGED <<subject, holds, request, sweep, known, spared>>

DeleteRows(r) ==
  /\ erasing[r].at = "gathered"
  /\ Erase(r, [erasing[r] EXCEPT !.at = "deleted",
                                 !.gone = {i \in Row : owner[i] \in erasing[r].sittings}])
  /\ UNCHANGED <<subject, holds, request, sweep, known, spared>>

Without(gone) == [i \in Row |-> IF i \in gone THEN "deleted" ELSE owner[i]]

(* The routing, the name and the request's status go with the COMMIT. *)
CommitErasure(r) ==
  /\ erasing[r].at = "deleted"
  /\ owner' = Without(erasing[r].gone)
  /\ routed' = FALSE
  /\ identity' = "anonymised"
  /\ request' = [request EXCEPT ![r] = "fulfilled"]
  /\ Erase(r, ErasureIdle)
  /\ UNCHANGED <<age, v2rows, resolved, holds, sweep, known, spared>>

AbortErasure(r) ==
  /\ erasing[r].at # "idle" /\ Erase(r, ErasureIdle)
  /\ UNCHANGED <<subject, holds, request, sweep, known, spared>>

-------------------------------------------------------------------------------
(* The retention sweep, with --execute.  It leaves scores and claims.      *)

Eligible ==
  IF holds # {} THEN {}
  ELSE {i \in EventRow : owner[i] \in Sitting /\ age[owner[i]] = "past"}

EligibleName ==
  /\ identity = "named" /\ holds = {}
  /\ \A s \in Sitting : age[s] # "open"
  /\ \E s \in Sitting : age[s] = "past"

(* Over the cap nothing is deleted at all; the report says so. *)
BeginSweep ==
  /\ sweep.at = "idle" /\ Cardinality(Eligible) <= SweepCap
  /\ sweep' = [SweepIdle EXCEPT !.at = "counted"]
  /\ spared' = (holds # {})
  /\ UNCHANGED <<subject, holds, request, erasing, known>>

SweepDelete ==
  /\ sweep.at = "counted"
  /\ sweep' = [sweep EXCEPT !.at = "deleted", !.gone = Eligible]
  /\ UNCHANGED <<subject, holds, request, erasing, known, spared>>

(* Wrong on purpose: the hold is looked for when the sweep counts, not in  *)
(* the statement that anonymises.                                          *)
SweepAnonymiseUnchecked ==
  /\ sweep.at = "deleted"
  /\ sweep' = [sweep EXCEPT !.at = "anonymised",
                 !.names = \E s \in Sitting : age[s] = "past"]
  /\ UNCHANGED <<subject, holds, request, erasing, known, spared>>

SweepAnonymise ==
  /\ sweep.at = "deleted"
  /\ sweep' = [sweep EXCEPT !.at = "anonymised", !.names = EligibleName]
  /\ UNCHANGED <<subject, holds, request, erasing, known, spared>>

CommitSweep ==
  /\ sweep.at = "anonymised"
  /\ owner' = Without(sweep.gone)
  /\ identity' = IF sweep.names THEN "anonymised" ELSE identity
  /\ sweep' = SweepIdle
  /\ UNCHANGED <<age, v2rows, routed, resolved, holds, request, erasing, known, spared>>

AbortSweep ==
  /\ sweep.at # "idle" /\ sweep' = SweepIdle
  /\ UNCHANGED <<subject, holds, request, erasing, known, spared>>

(* One pass of the V2 worker: no hold is asked for. *)
V2Pass ==
  /\ \E s \in v2rows : age[s] = "past"
  /\ v2rows' = {s \in v2rows : age[s] # "past"}
  /\ UNCHANGED <<age, owner, identity, routed, resolved, holds, request, erasing, sweep, known, spared>>

DataNext ==
  \/ \E s \in Sitting : \/ StartSitting(s) \/ Age(s) \/ RuntimeWrite(s)
                        \/ \E i \in EventRow : PortalWrite(s, i)
                        \/ \E i \in Row : ReviewWrite(s, i)
  \/ ResolveToken
  \/ \E h \in Hold : PlaceHold(h) \/ ReleaseHold(h)
  \/ \E r \in Request : \/ ReceiveRequest(r) \/ MoveRequest(r) \/ BeginErasure(r)
                        \/ GatherSittings(r) \/ DeleteRows(r)
                        \/ CommitErasure(r) \/ AbortErasure(r)
  \/ BeginSweep \/ SweepDelete \/ SweepAnonymise \/ CommitSweep \/ AbortSweep
  \/ V2Pass

DataSpec == DataInit /\ [][DataNext]_datavars

-------------------------------------------------------------------------------
(* Properties. *)

(* "An active legal hold on a candidate suppresses ALL deletion": a sweep  *)
(* that some hold outlasts, not always the same one, takes nothing, though *)
(* its three statements look for it each on its own.                       *)
SweepSparesHeld == spared => sweep.gone = {} /\ ~sweep.names

(* A fulfilled request has left nothing that was there when it was taken   *)
(* up, whatever was written, swept or retried meanwhile.                   *)
FulfilledMeansErased ==
  \A r \in Request :
    request[r] = "fulfilled" => identity = "anonymised" /\ known[r] \cap PresentRows = {}

(* "Blocked entirely by an active legal hold": no request is fulfilled     *)
(* while one is active.                                                    *)
HoldBlocksErasure ==
  [][\A r \in Request : request[r] # "fulfilled" /\ request'[r] = "fulfilled" => holds = {}]_datavars

===============================================================================
