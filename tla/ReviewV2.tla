------------------------------- MODULE ReviewV2 -------------------------------
(***************************************************************************)
(* The human review of one submitted V2 session: two rounds by two         *)
(* reviewers, each a set of anchored dimensions, the adjudication of what  *)
(* they disagree on, and appeals.                                          *)
(*                                                                         *)
(* Assign, the evidence bundle, the dimension PUT and finalise begin with  *)
(* SELECT .. FOR UPDATE of the session manifest and touch the review's     *)
(* rows under that lock: each is one step.  Closing an adjudication locks  *)
(* the adjudication instead, and an appeal locks nothing: each of these    *)
(* two reads, and then writes, with the others in between.  A transaction  *)
(* that does not commit changes nothing.                                   *)
(***************************************************************************)
EXTENDS StateMachines, Integers, FiniteSets

CONSTANTS
  Reviewer,    \* users who hold the role "reviewer"
  Admin,       \* users who hold "org_admin"; a user may hold both
  Nobody,      \* no row, no user
  Dimension,   \* the dimensions of the session's pack
  Anchor,      \* positions in ANCHORS
  MaxAppeals   \* bound on the appeals of a session

User == Reviewer \cup Admin

ASSUME ReviewAssumption == Nobody \notin User /\ Anchor \subseteq Nat /\ MaxAppeals \in Nat

VARIABLES
  state, status,  \* session_manifests.state_v2, assessment_sessions.status
  calibrated,     \* reviewers with a valid calibration record
  assigned,       \* review_assignments_v2: round -> reviewer
  completed,      \* round -> completed_at is set
  anchor,         \* review_dimensions_v2: round -> dimension -> anchor
  adjudication,   \* the session's adjudication
  closing,        \* a close holds the adjudication's row
  appeals,        \* appeal_cases: independent reviewer, and whether opened after the decision
  appealing,      \* the appeal whose INSERT is still to come
  seen            \* history: <<user, round>>, anchors of that round shown to another than its reviewer

vars == <<state, status, calibrated, assigned, completed, anchor, adjudication,
          closing, appeals, appealing, seen>>

Round == {1, 2}
Other(r) == 3 - r
NoAnchor == -1
Appeal == [reviewer : User, late : BOOLEAN]
NoAppeal == [reviewer |-> Nobody, late |-> FALSE]

TypeOK ==
  /\ state \in {"submitted", "reviewing", "finalised"}
  /\ status \in {"submitted", "under_review", "review_finalised"}
  /\ calibrated \subseteq Reviewer
  /\ assigned \in [Round -> Reviewer \cup {Nobody}]
  /\ completed \in [Round -> BOOLEAN]
  /\ anchor \in [Round -> [Dimension -> Anchor \cup {NoAnchor}]]
  /\ adjudication \in {"none", "open", "closed"}
  /\ closing \in BOOLEAN
  /\ appeals \subseteq Appeal
  /\ appealing \in Appeal \cup {NoAppeal}
  /\ seen \subseteq User \X Round

(* The runtime's receipt has been committed; nobody has looked at it yet. *)
Init ==
  /\ state = "submitted" /\ status = "submitted"
  /\ calibrated = {}
  /\ assigned = [r \in Round |-> Nobody]
  /\ completed = [r \in Round |-> FALSE]
  /\ anchor = [r \in Round |-> [d \in Dimension |-> NoAnchor]]
  /\ adjudication = "none" /\ closing = FALSE
  /\ appeals = {} /\ appealing = NoAppeal
  /\ seen = {}

-------------------------------------------------------------------------------
(* Calibration records come, and are revoked or expire. *)

Calibrate(u) ==
  /\ calibrated' = calibrated \cup {u}
  /\ UNCHANGED <<state, status, assigned, completed, anchor, adjudication, closing,
                 appeals, appealing, seen>>

LoseCalibration(u) ==
  /\ calibrated' = calibrated \ {u}
  /\ UNCHANGED <<state, status, assigned, completed, anchor, adjudication, closing,
                 appeals, appealing, seen>>

-------------------------------------------------------------------------------
(* Assignment: the unique key of (session, round) lets a round have one    *)
(* row for good.                                                           *)
Assign(u, r) ==
  /\ state \in {"submitted", "reviewing"}
  /\ u \in calibrated
  /\ assigned[Other(r)] # u
  /\ r = 2 => assigned[1] # Nobody
  /\ assigned[r] = Nobody
  /\ assigned' = [assigned EXCEPT ![r] = u]
  /\ state' = "reviewing"
  /\ status' = IF state = "submitted" THEN "under_review" ELSE status
  /\ UNCHANGED <<calibrated, completed, anchor, adjudication, closing, appeals,
                 appealing, seen>>

-------------------------------------------------------------------------------
(* The evidence bundle. *)

Mine(u) == {r \in Round : assigned[r] = u}

(* Wrong on purpose: everybody is shown every round once he is assigned. *)
VisibleToAssigned(u) == IF u \in Admin \/ Mine(u) # {} THEN Round ELSE {}

(* One's own round; an administrator without one is shown both. *)
Visible(u) == IF u \in Admin /\ Mine(u) = {} THEN Round ELSE Mine(u)

ReadBundle(u) ==
  /\ u \in Admin \/ Mine(u) # {}
  /\ seen' = seen \cup { <<u, r>> : r \in {q \in Visible(u) \ Mine(u) :
                                             \E d \in Dimension : anchor[q][d] # NoAnchor} }
  /\ UNCHANGED <<state, status, calibrated, assigned, completed, anchor, adjudication,
                 closing, appeals, appealing>>

-------------------------------------------------------------------------------
(* A reviewer's work on his round. *)

(* Wrong on purpose: a finalised round can be written again ... *)
WorksOnAny(u, r) == assigned[r] = u

WorksOn(u, r) == assigned[r] = u /\ ~completed[r]

(* ... or a decided session. *)
WritableLate == {"reviewing", "finalised"}

Writable == {"reviewing"}

(* Insert the dimension's row or overwrite it. *)
SaveDimension(u, r, d, a) ==
  /\ state \in Writable
  /\ WorksOn(u, r)
  /\ anchor' = [anchor EXCEPT ![r][d] = a]
  /\ UNCHANGED <<state, status, calibrated, assigned, completed, adjudication, closing,
                 appeals, appealing, seen>>

(* Two steps or more apart, among the dimensions round 1 has by now. *)
Disputed ==
  {d \in Dimension : /\ anchor[1][d] # NoAnchor
                     /\ anchor[1][d] - anchor[2][d] \notin -1..1}

(* Wrong on purpose: the column's default waives the second review. *)
NoSecondReview == FALSE

(* second_review_required: the column's default, written nowhere. *)
SecondReviewRequired == TRUE

Outcome(r) ==
  CASE r = 1 /\ SecondReviewRequired -> "awaiting_second_review"
    [] r = 2 /\ Disputed # {} -> "adjudication_opened"
    [] OTHER -> "finalised"

(* Wrong on purpose: the outcome is stored as the session's state. *)
StateIsOutcome(outcome) == outcome

StateAfter(outcome) == IF outcome = "finalised" THEN "finalised" ELSE state

(* Wrong on purpose: a round is complete with its first dimension. *)
Begun(r) == \E d \in Dimension : anchor[r][d] # NoAnchor

Whole(r) == \A d \in Dimension : anchor[r][d] # NoAnchor

(* The session's state is not looked at. *)
Finalise(u, r) ==
  /\ WorksOn(u, r) /\ Whole(r)
  /\ completed' = [completed EXCEPT ![r] = TRUE]
  /\ state' = StateAfter(Outcome(r))
  /\ status' = IF Outcome(r) = "finalised" THEN "review_finalised" ELSE status
  /\ adjudication' = IF Outcome(r) = "adjudication_opened" THEN "open" ELSE adjudication
  /\ UNCHANGED <<calibrated, assigned, anchor, closing, appeals, appealing, seen>>

-------------------------------------------------------------------------------
(* Closing the adjudication: its row is locked, the manifest is not. *)

CloseLock ==
  /\ adjudication = "open" /\ ~closing
  /\ closing' = TRUE
  /\ UNCHANGED <<state, status, calibrated, assigned, completed, anchor, adjudication,
                 appeals, appealing, seen>>

(* Wrong on purpose: the V1 status is forgotten. *)
CloseCommitV2Only ==
  /\ closing /\ closing' = FALSE
  /\ adjudication' = "closed"
  /\ state' = "finalised"
  /\ UNCHANGED <<status, calibrated, assigned, completed, anchor, appeals, appealing, seen>>

CloseCommit ==
  /\ closing /\ closing' = FALSE
  /\ adjudication' = "closed"
  /\ state' = "finalised" /\ status' = "review_finalised"
  /\ UNCHANGED <<calibrated, assigned, completed, anchor, appeals, appealing, seen>>

CloseAbort ==
  /\ closing /\ closing' = FALSE
  /\ UNCHANGED <<state, status, calibrated, assigned, completed, anchor, adjudication,
                 appeals, appealing, seen>>

-------------------------------------------------------------------------------
(* An appeal: who reviewed is read, then the case is inserted.  Any user   *)
(* may be named; the session's state is not looked at.                     *)

(* Wrong on purpose: only the first round's reviewer is looked up. *)
ReviewedFirst == {assigned[1]}

Reviewed == {assigned[r] : r \in Round}

AppealRead(u) ==
  /\ appealing = NoAppeal /\ Cardinality(appeals) < MaxAppeals
  /\ u \notin Reviewed
  /\ appealing' = [reviewer |-> u, late |-> state = "finalised"]
  /\ UNCHANGED <<state, status, calibrated, assigned, completed, anchor, adjudication,
                 closing, appeals, seen>>

AppealInsert ==
  /\ appealing # NoAppeal
  /\ appeals' = appeals \cup {appealing}
  /\ appealing' = NoAppeal
  /\ UNCHANGED <<state, status, calibrated, assigned, completed, anchor, adjudication,
                 closing, seen>>

AppealAbort ==
  /\ appealing # NoAppeal /\ appealing' = NoAppeal
  /\ UNCHANGED <<state, status, calibrated, assigned, completed, anchor, adjudication,
                 closing, appeals, seen>>

Next ==
  \/ \E u \in Reviewer : Calibrate(u) \/ LoseCalibration(u)
  \/ \E u \in Reviewer, r \in Round : Assign(u, r)
  \/ \E u \in User : ReadBundle(u) \/ AppealRead(u)
  \/ \E u \in User, r \in Round :
       \/ \E d \in Dimension, a \in Anchor : SaveDimension(u, r, d, a)
       \/ Finalise(u, r)
  \/ CloseLock \/ CloseCommit \/ CloseAbort
  \/ AppealInsert \/ AppealAbort

Spec == Init /\ [][Next]_vars

-------------------------------------------------------------------------------
(* Properties. *)

(* The session is decided exactly when the second round is in and nothing  *)
(* is being adjudicated: the first round never decides it, whichever round *)
(* comes first, and no decided session is left waiting for a decision.     *)
FinalisedExactly ==
  state = "finalised" <=> completed[2] /\ adjudication # "open"

(* No decided session holds anchors two steps apart that nobody            *)
(* adjudicated, first-round anchors written at any time included.          *)
NoDisagreementUnresolved ==
  state = "finalised" /\ adjudication # "closed" =>
    \A d \in Dimension : anchor[1][d] = NoAnchor \/ anchor[1][d] - anchor[2][d] \in -1..1

(* A completed round is a finished document: one reviewer, who is not the  *)
(* other round's, and every dimension.                                     *)
CompletedRoundsWhole ==
  \A r \in Round : completed[r] =>
    /\ assigned[r] # Nobody /\ assigned[r] # assigned[Other(r)]
    /\ \A d \in Dimension : anchor[r][d] # NoAnchor

(* What a completed round says is never touched again, by either reviewer, *)
(* by the adjudication or by an appeal.                                    *)
CompletedRoundStands ==
  [][ \A r \in Round : completed[r] =>
        completed'[r] /\ assigned'[r] = assigned[r] /\ anchor'[r] = anchor[r] ]_vars

(* The review writes both status columns by hand.  Both walk their own     *)
(* transition tables, in the same step.                                    *)
WalksMachines ==
  [][ \/ state' = state /\ status' = status
      \/ /\ \E t \in SessionTransitionV2 : t[1] = state /\ t[3] = state'
         /\ \E t \in SessionTransition : t[1] = status /\ t[3] = status' ]_vars

(* Whoever is not an administrator reviews without having been shown what  *)
(* the other round says, before or after.                                  *)
BlindUnlessAdmin ==
  \A r \in Round : assigned[r] \notin Admin => <<assigned[r], Other(r)>> \notin seen

(* An appeal opened once the session is decided goes to somebody who       *)
(* reviewed no round of it.                                                *)
LateAppealsIndependent ==
  \A c \in appeals : c.late => c.reviewer \notin {assigned[r] : r \in Round}

(* "Pilot policy: every V2 session requires a blind second review": a      *)
(* decided session has two completed reviews.                              *)
FinalisedOnTwoReviews == state = "finalised" => completed[1] /\ completed[2]

(* "round-2 reviewers never see round-1 anchors until they complete" *)
SecondReviewIsBlind == completed[2] \/ <<assigned[2], 1>> \notin seen

===============================================================================
