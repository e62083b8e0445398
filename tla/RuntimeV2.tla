------------------------------ MODULE RuntimeV2 ------------------------------
(***************************************************************************)
(* The V2 assessment runtime for one invitation: disclosure, the scored    *)
(* clock, artifact autosave, finalisation and its shutdown receipt.        *)
(*                                                                         *)
(* Every handler begins with SELECT .. FOR UPDATE of the session manifest  *)
(* (of the invitation before there is one), so handlers of a session do    *)
(* not interleave and each is one step.  What does come between is the end *)
(* of the transaction.  Disclose, autosave and finalise send their reply   *)
(* from inside it: they leave their image of the rows in tx, the candidate *)
(* has been answered, and COMMIT is still to come or to fail.  The other   *)
(* handlers reply after their COMMIT and write db at once.                 *)
(***************************************************************************)
EXTENDS StateMachines, Integers, FiniteSets

CONSTANTS
  Path,             \* artifact paths the candidate may write
  Required,         \* the paths filling the pack's required deliverable slots
  MaxArtifacts,     \* MAX_ARTIFACTS_PER_SESSION
  MaxVersions,      \* MAX_VERSIONS_PER_ARTIFACT
  Timebox,          \* seconds of scored time in the pack
  TicksPerSecond,   \* the clock is finer than the seconds the manifest stores
  MaxTime,          \* bound on the clock
  MaxSegments,      \* bound on starts and resumes
  MaxReceipts       \* bound on receipts drawn

ASSUME RuntimeAssumption ==
  /\ Required \subseteq Path
  /\ {MaxArtifacts, MaxVersions, Timebox, TicksPerSecond, MaxTime, MaxSegments, MaxReceipts}
       \subseteq Nat \ {0}

VARIABLES
  tokenLive,    \* invitation_lookup still resolves the candidate's token
  now,          \* the server's clock, in ticks
  db,           \* the committed rows of the session
  tx,           \* rows written by a transaction already answered, or NoRows
  told,         \* the receipts the candidate has been handed
  answer,       \* what the last reply to the candidate was
  activeTicks,  \* history: ticks spent in state "active"
  segments      \* history: how often the session became "active"

vars == <<tokenLive, now, db, tx, told, answer, activeTicks, segments>>

NoTime == -1
NoCode == 0
NoReceipt == [code |-> NoCode, heads |-> [p \in Path |-> 0]]

(* workspace_artifacts: version 0 is no row, final 0 a null final_version_no. *)
Rows ==
  [ state : SessionStateV2,
    status : SessionState \cup {"none"},
    activeSince : {NoTime} \cup 0..MaxTime,
    scored : Nat,
    latest : [Path -> 0..MaxVersions],
    final : [Path -> 0..MaxVersions],
    receipt : [code : 0..MaxReceipts, heads : [Path -> 0..MaxVersions]] ]

NoRows == [state |-> "none"]

TypeOK ==
  /\ tokenLive \in BOOLEAN
  /\ now \in 0..MaxTime
  /\ db \in Rows
  /\ tx \in Rows \cup {NoRows}
  /\ told \subseteq [code : 1..MaxReceipts, heads : [Path -> 0..MaxVersions]]
  /\ answer \in {"none", "ok", "receipt", "conflict", "incomplete", "internal_error"}
  /\ activeTicks \in 0..MaxTime
  /\ segments \in 0..MaxSegments

Init ==
  /\ tokenLive = TRUE
  /\ now = 0
  /\ db = [state |-> "invited", status |-> "none", activeSince |-> NoTime, scored |-> 0,
           latest |-> [p \in Path |-> 0], final |-> [p \in Path |-> 0],
           receipt |-> NoReceipt]
  /\ tx = NoRows
  /\ told = {}
  /\ answer = "none"
  /\ activeTicks = 0
  /\ segments = 0

-------------------------------------------------------------------------------
(* transition(): the machine, the clock columns, the V1 status.            *)

(* Wrong on purpose: the projection forgets the pauses ... *)
V1StatusWithoutPauses(s) ==
  CASE s = "invited" -> "created"
    [] s \in {"disclosed", "preflight"} -> "disclosure_pending"
    [] s \in {"active", "submitting"} -> "in_progress"
    [] OTHER -> s

(* ... or shows a session that only began to submit as submitted. *)
V1StatusEarly(s) ==
  CASE s = "invited" -> "created"
    [] s \in {"disclosed", "preflight"} -> "disclosure_pending"
    [] s = "active" -> "in_progress"
    [] s \in {"paused_tech", "support_review"} -> "paused"
    [] s = "submitting" -> "submitted"
    [] OTHER -> s

V1Status(s) ==
  CASE s = "invited" -> "created"
    [] s \in {"disclosed", "preflight"} -> "disclosure_pending"
    [] s = "ready" -> "ready"
    [] s \in {"active", "submitting"} -> "in_progress"
    [] s \in {"paused_tech", "support_review"} -> "paused"
    [] s = "reviewing" -> "under_review"
    [] s = "finalised" -> "review_finalised"
    [] OTHER -> s

Can(s, event) == \E t \in SessionStateV2 : <<s, event, t>> \in SessionTransitionV2

Seconds(since) == IF since = NoTime THEN 0 ELSE (now - since) \div TicksPerSecond

(* Wrong on purpose: the segment replaces what was charged before it. *)
ScoredByLastSegment(rows, event) ==
  IF event \in {"pause_tech", "begin_submit"} THEN Seconds(rows.activeSince) ELSE rows.scored

(* Whole seconds only: what is left of a segment's last second is dropped. *)
ScoredBy(rows, event) ==
  rows.scored + IF event \in {"pause_tech", "begin_submit"} THEN Seconds(rows.activeSince) ELSE 0

(* Wrong on purpose: beginning to submit charges the segment and leaves it open. *)
SinceAfterPauseOnly(rows, event) ==
  CASE event \in {"start", "resume"} -> now
    [] event = "pause_tech" -> NoTime
    [] OTHER -> rows.activeSince

SinceAfter(rows, event) ==
  CASE event \in {"start", "resume"} -> now
    [] event \in {"pause_tech", "begin_submit"} -> NoTime
    [] OTHER -> rows.activeSince

Transition(rows, event, t) ==
  [rows EXCEPT !.state = t, !.status = V1Status(t),
               !.activeSince = SinceAfter(rows, event), !.scored = ScoredBy(rows, event)]

Remaining == Timebox - db.scored - Seconds(db.activeSince)

-------------------------------------------------------------------------------
(* A handler starts when the token resolves and the row lock is free. *)
Handles == tokenLive /\ tx = NoRows

Reply(kind) == answer' = kind
Still == UNCHANGED <<tokenLive, now, activeTicks>>

(* Session, signed manifest and acceptance of the invitation; replied early. *)
Disclose ==
  /\ Handles /\ db.state = "invited"
  /\ tx' = [db EXCEPT !.state = "disclosed", !.status = "disclosure_pending"]
  /\ Reply("ok")
  /\ Still /\ UNCHANGED <<db, told, segments>>

Lifecycle(event) ==
  /\ Handles
  /\ \E t \in SessionStateV2 :
       <<db.state, event, t>> \in SessionTransitionV2 /\ db' = Transition(db, event, t)
  /\ event \in {"start", "resume"} => segments < MaxSegments
  /\ segments' = IF event \in {"start", "resume"} THEN segments + 1 ELSE segments
  /\ Reply("ok")
  /\ Still /\ UNCHANGED <<tx, told>>

(* Wrong on purpose: the projection reports the limit and moves nothing. *)
PollReportsOnly ==
  /\ Handles /\ db.state # "invited"
  /\ Reply("ok")
  /\ Still /\ UNCHANGED <<db, tx, told, segments>>

(* GET state: at the time limit an active session begins to submit. *)
Poll ==
  /\ Handles /\ db.state # "invited"
  /\ db' = IF db.state = "active" /\ Remaining <= 0
             THEN Transition(db, "begin_submit", "submitting") ELSE db
  /\ Reply("ok")
  /\ Still /\ UNCHANGED <<tx, told, segments>>

(* Wrong on purpose: an autosave that raced the submission is still taken. *)
WritableSubmitted == {"active", "paused_tech", "ready", "submitting", "submitted"}

Writable == {"active", "paused_tech", "ready"}

(* Autosave: compare baseVersionNo with the head, insert the next version. *)
Put(p, base) ==
  /\ Handles
  /\ db.state \in Writable
  /\ db.latest[p] # 0 \/ Cardinality({q \in Path : db.latest[q] # 0}) < MaxArtifacts
  /\ base = db.latest[p] /\ base < MaxVersions
  /\ tx' = [db EXCEPT !.latest[p] = base + 1]
  /\ Reply("ok")
  /\ Still /\ UNCHANGED <<db, told, segments>>

Missing == {p \in Required : db.latest[p] = 0}

(* The receipt exists: hand out the same one. *)
FinaliseReplay ==
  /\ Handles /\ db.receipt # NoReceipt
  /\ told' = told \cup {db.receipt}
  /\ Reply("receipt")
  /\ Still /\ UNCHANGED <<db, tx, segments>>

Finalisable == {"active", "submitting", "paused_tech"}

(* 409 and 422 change nothing. *)
FinaliseRefuse ==
  /\ Handles /\ db.receipt = NoReceipt /\ db.state # "invited"
  /\ \/ db.state \notin Finalisable /\ Reply("conflict")
     \/ db.state \in Finalisable /\ Missing # {} /\ Reply("incomplete")
  /\ Still /\ UNCHANGED <<db, tx, told, segments>>

(* begin_submit out of a pause is not in the table and nobody catches the  *)
(* throw: ROLLBACK, 500.                                                   *)
FinaliseThrow ==
  /\ Handles /\ db.receipt = NoReceipt
  /\ db.state \in Finalisable \ {"submitting"} /\ Missing = {}
  /\ ~Can(db.state, "begin_submit")
  /\ Reply("internal_error")
  /\ Still /\ UNCHANGED <<db, tx, told, segments>>

(* Begin to submit, freeze the finals, hash them, insert and reply. *)
Finalise ==
  /\ Handles /\ db.receipt = NoReceipt
  /\ db.state \in Finalisable /\ Missing = {}
  /\ db.state = "submitting" \/ Can(db.state, "begin_submit")
  /\ Cardinality(told) < MaxReceipts
  /\ LET begun == IF db.state = "submitting" THEN db
                  ELSE Transition(db, "begin_submit", "submitting")
         finals == [p \in Path |-> IF db.final[p] # 0 THEN db.final[p] ELSE db.latest[p]]
         receipt == [code |-> Cardinality(told) + 1, heads |-> finals]
     IN /\ tx' = [Transition(begun, "confirm_receipt", "submitted")
                    EXCEPT !.final = finals, !.receipt = receipt]
        /\ told' = told \cup {receipt}
  /\ Reply("receipt")
  /\ Still /\ UNCHANGED <<db, segments>>

-------------------------------------------------------------------------------
(* The end of an answered transaction: COMMIT, or a lost connection or a   *)
(* dead process, which PostgreSQL rolls back.                              *)

Commit ==
  /\ tx # NoRows
  /\ db' = tx /\ tx' = NoRows
  /\ Still /\ UNCHANGED <<told, answer, segments>>

Crash ==
  /\ tx # NoRows
  /\ tx' = NoRows
  /\ Still /\ UNCHANGED <<db, told, answer, segments>>

(* Reply and COMMIT fall within one tick. *)
Tick ==
  /\ tx = NoRows /\ now < MaxTime
  /\ now' = now + 1
  /\ activeTicks' = IF db.state = "active" THEN activeTicks + 1 ELSE activeTicks
  /\ UNCHANGED <<tokenLive, db, tx, told, answer, segments>>

TokenExpires ==
  /\ tokenLive /\ tokenLive' = FALSE
  /\ UNCHANGED <<now, db, tx, told, answer, activeTicks, segments>>

LifecycleEvent == {"complete_preflight", "check_in", "start", "pause_tech", "resume"}

Next ==
  \/ Disclose
  \/ \E event \in LifecycleEvent : Lifecycle(event)
  \/ Poll
  \/ \E p \in Path, base \in 0..MaxVersions : Put(p, base)
  \/ FinaliseReplay \/ FinaliseRefuse \/ FinaliseThrow \/ Finalise
  \/ Commit \/ Crash \/ Tick \/ TokenExpires

(* The workspace page polls the state every 30 s while it is open, and the *)
(* lock queue grants it its turn among the candidate's own saves.          *)
Fairness == WF_vars(Commit) /\ SF_vars(Poll)

Spec == Init /\ [][Next]_vars
FairSpec == Spec /\ Fairness

-------------------------------------------------------------------------------
(* Properties. *)

(* A receipt exists exactly in a submitted session, and it names what the  *)
(* candidate last saved on every path: no autosave slips in behind the     *)
(* freeze, no rolled-back finalisation leaves a frozen pointer behind.     *)
ReceiptSealsFinals ==
  IF db.receipt = NoReceipt
    THEN db.state # "submitted" /\ \A p \in Path : db.final[p] = 0
    ELSE /\ db.state = "submitted"
         /\ db.receipt.heads = db.final /\ db.final = db.latest
         /\ \A p \in Required : db.final[p] # 0

(* The scored clock charges only time spent active, and forgives less than *)
(* a second for each start or resume: pauses, crashes and the time limit   *)
(* neither charge a segment twice nor lose one.                            *)
TimeAccounted ==
  LET charged == (db.scored + Seconds(db.activeSince)) * TicksPerSecond IN
    /\ charged <= activeTicks
    /\ activeTicks - charged <= segments * (TicksPerSecond - 1)

(* Nothing handed over or saved is taken back: a committed receipt stays   *)
(* the session's receipt, its heads included, versions only grow by one    *)
(* and scored time is never refunded.                                      *)
NothingTakenBack ==
  [][ /\ db.receipt # NoReceipt => db' = db
      /\ \A p \in Path : db'.latest[p] \in {db.latest[p], db.latest[p] + 1}
      /\ db'.scored >= db.scored ]_vars

(* The status column the V1 views read walks the V1 session machine, and   *)
(* submits in the step that commits the receipt.                           *)
V1View == INSTANCE SessionLifecycle
            WITH status <- db.status, submission <- db.receipt # NoReceipt
ProjectionIsLifecycle == V1View!Spec

(* At the time limit a session stops being active, whatever the candidate  *)
(* keeps saving, as long as the page polls and the token lives.            *)
TimeLimitEnds ==
  db.state = "active" /\ Remaining <= 0 ~> db.state # "active" \/ ~tokenLive

(* "One receipt per session regardless of concurrency", durable for the    *)
(* candidate who was handed it.                                            *)
OneReceipt == Cardinality(told) <= 1

(* "validation failures leave the session active and mutable" *)
RefusalLeavesMutable == answer = "incomplete" => db.state \in Writable

===============================================================================
