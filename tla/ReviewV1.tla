------------------------------- MODULE ReviewV1 -------------------------------
(***************************************************************************)
(* The first human review (org/reviews.ts): one review row per session, a  *)
(* first reviewer, an optional second, an administrator who adjudicates,   *)
(* the claims of the Evidence Ledger (org/claims.ts), and the report an    *)
(* employer reads once he has acknowledged the terms of its use            *)
(* (org/acknowledgements.ts).                                              *)
(*                                                                         *)
(* Assign and issue-report lock the session row first; every other handler *)
(* locks the review row, and finalise the session after it.  Each writes   *)
(* only under those locks, so each is one step.                            *)
(***************************************************************************)
EXTENDS StateMachines, Integers, FiniteSets

CONSTANTS
  Reviewer,         \* users who hold the role "reviewer"
  Admin,            \* users who hold "org_admin"; a user may hold both
  Manager,          \* users who may read reports: "org_admin", "hiring_manager"
  Nobody,           \* no user
  Criterion,        \* the criteria of the frozen template
  Score,            \* the scores in use, of 1..5
  VarianceTrigger,  \* controls.reviewerVarianceTrigger
  Evidence,         \* the session's evidence events
  ClaimId           \* bound on the claims of a review

ASSUME ReviewV1Assumption ==
  /\ Nobody \notin Reviewer \cup Admin
  /\ Score \subseteq 1..5
  /\ VarianceTrigger \in Nat \ {0}

VARIABLES
  status,         \* assessment_sessions.status
  calibrated,     \* reviewers with a valid calibration record
  review,         \* reviews.status, "none" before the row
  first, second,  \* reviewer_user_id, second_reviewer_user_id
  scores,         \* criterion_scores: criterion -> the three scores
  claims,         \* evidence_ledger_claims
  acknowledged,   \* employer_acknowledgements of the current document
  viewed          \* managers whose reading of the report is on record

v1vars == <<status, calibrated, review, first, second, scores, claims, acknowledged, viewed>>

ReviewState == {"none", "assigned", "in_review", "finalised"}
NoScore == 0
Mark == Score \cup {NoScore}
Scores == [first : Mark, second : Mark, adjudicated : Mark]
Unscored == [first |-> NoScore, second |-> NoScore, adjudicated |-> NoScore]

(* Four of the seven bands: the other three have "Clear"'s rule, none. *)
Band == {"Exceptional", "Strong", "Some", "Clear"}
LedgerClaim == [band : Band, references : SUBSET Evidence]
NoClaim == [band |-> "none", references |-> {}]

ReviewV1TypeOK ==
  /\ status \in SessionState
  /\ calibrated \subseteq Reviewer
  /\ review \in ReviewState
  /\ first \in Reviewer \cup {Nobody} /\ second \in Reviewer \cup {Nobody}
  /\ scores \in [Criterion -> Scores]
  /\ claims \in [ClaimId -> LedgerClaim \cup {NoClaim}]
  /\ acknowledged \subseteq Manager /\ viewed \subseteq Manager

ReviewV1Init ==
  /\ status = "submitted"
  /\ calibrated = {}
  /\ review = "none" /\ first = Nobody /\ second = Nobody
  /\ scores = [c \in Criterion |-> Unscored]
  /\ claims = [i \in ClaimId |-> NoClaim]
  /\ acknowledged = {} /\ viewed = {}

-------------------------------------------------------------------------------
(* Calibration records are written, and revoked or expire. *)

Calibrate(u) ==
  /\ calibrated' = calibrated \cup {u}
  /\ UNCHANGED <<status, review, first, second, scores, claims, acknowledged, viewed>>

LoseCalibration(u) ==
  /\ calibrated' = calibrated \ {u}
  /\ UNCHANGED <<status, review, first, second, scores, claims, acknowledged, viewed>>

-------------------------------------------------------------------------------
(* Assignment. *)

Fire(event) ==
  \E t \in SessionTransition : t[1] = status /\ t[2] = event /\ status' = t[3]

(* Wrong on purpose: a review is inserted whatever the session's status. *)
AssignAnywhere(u) ==
  /\ u \in calibrated
  /\ status' = "under_review"
  /\ review' = "assigned" /\ first' = u
  /\ UNCHANGED <<calibrated, second, scores, claims, acknowledged, viewed>>

(* Only a submitted session takes a review, so it has at most one row. *)
AssignReviewer(u) ==
  /\ u \in calibrated
  /\ Fire("begin_review")
  /\ review' = "assigned" /\ first' = u
  /\ UNCHANGED <<calibrated, second, scores, claims, acknowledged, viewed>>

(* May be called again, for somebody else, until the review is final; the  *)
(* scores of the one replaced stay.                                        *)
AssignSecondReviewer(u) ==
  /\ review \in {"assigned", "in_review"}
  /\ u # first /\ u \in calibrated
  /\ second' = u
  /\ UNCHANGED <<status, calibrated, review, first, scores, claims, acknowledged, viewed>>

-------------------------------------------------------------------------------
(* Scores.  A user writes the one column of his role on the review, the    *)
(* first that applies; a criterion sent without a score is set to null.    *)

Column(u) == CASE u = first -> "first"
               [] u # first /\ u = second -> "second"
               [] OTHER -> "adjudicated"

BothScored(c) == scores[c].first # NoScore /\ scores[c].second # NoScore

Payload == UNION { [S -> Mark] : S \in SUBSET Criterion \ {{}} }

(* Wrong on purpose: the status is compared in one place, with "assigned". *)
EditableAlways == {"assigned", "in_review", "finalised"}

Editable == {"assigned", "in_review"}

BeginsFor(u) == IF u = first /\ review = "assigned" THEN "in_review" ELSE review

SaveScores(u, payload) ==
  /\ review \in Editable
  /\ u \in {first, second} \cup Admin
  /\ Column(u) = "adjudicated" =>
       \A c \in DOMAIN payload : payload[c] # NoScore => BothScored(c)
  /\ review' = BeginsFor(u)
  /\ scores' = [c \in Criterion |->
                  IF c \in DOMAIN payload
                  THEN [scores[c] EXCEPT ![Column(u)] = payload[c]]
                  ELSE scores[c]]
  /\ UNCHANGED <<status, calibrated, first, second, claims, acknowledged, viewed>>

(* A payload is refused after the review has begun, by a return that       *)
(* commits: an unknown criterion, or another role's column.                *)
RefuseScores(u) ==
  /\ review \in Editable
  /\ u \in {first, second}
  /\ review' = BeginsFor(u)
  /\ UNCHANGED <<status, calibrated, first, second, scores, claims, acknowledged, viewed>>

-------------------------------------------------------------------------------
(* Claims of the Evidence Ledger: the first reviewer's, until he finalises.*)
(* What the band's rule asks besides references, the reviewer either says  *)
(* or is refused; it is not kept here.                                     *)

BandRule(band, references) ==
  band \in {"Exceptional", "Strong"} => Cardinality(references) >= 2

OwnReview(u) == u = first /\ review # "none"

CreateClaim(u, i, claim) ==
  /\ OwnReview(u) /\ review \in Editable
  /\ claims[i] = NoClaim
  /\ BandRule(claim.band, claim.references)
  /\ claims' = [claims EXCEPT ![i] = claim]
  /\ UNCHANGED <<status, calibrated, review, first, second, scores, acknowledged, viewed>>

UpdateClaim(u, i, claim) ==
  /\ OwnReview(u) /\ review \in Editable
  /\ claims[i] # NoClaim
  /\ BandRule(claim.band, claim.references)
  /\ claims' = [claims EXCEPT ![i] = claim]
  /\ UNCHANGED <<status, calibrated, review, first, second, scores, acknowledged, viewed>>

DeleteClaim(u, i) ==
  /\ OwnReview(u) /\ review \in Editable
  /\ claims[i] # NoClaim
  /\ claims' = [claims EXCEPT ![i] = NoClaim]
  /\ UNCHANGED <<status, calibrated, review, first, second, scores, acknowledged, viewed>>

-------------------------------------------------------------------------------
(* Finalisation: evaluate() over the scores as they are. *)

Apart(c) ==
  /\ BothScored(c)
  /\ scores[c].first - scores[c].second \notin (1 - VarianceTrigger)..(VarianceTrigger - 1)

(* Wrong on purpose: a difference is only looked for in one direction. *)
AdjudicationsRequiredUpward ==
  {c \in Criterion : /\ BothScored(c) /\ scores[c].adjudicated = NoScore
                     /\ scores[c].first - scores[c].second >= VarianceTrigger}

AdjudicationsRequired ==
  {c \in Criterion : Apart(c) /\ scores[c].adjudicated = NoScore}

(* How much is scored is not looked at. *)
FinaliseReview(u) ==
  /\ u = first
  /\ review = "in_review"
  /\ AdjudicationsRequired = {}
  /\ review' = "finalised"
  /\ Fire("finalise_review")
  /\ UNCHANGED <<calibrated, first, second, scores, claims, acknowledged, viewed>>

-------------------------------------------------------------------------------
(* The report. *)

(* Wrong on purpose: the report goes out as soon as somebody reviews. *)
IssueReportEarly ==
  /\ status \in {"under_review", "review_finalised"} /\ status' = "report_issued"
  /\ UNCHANGED <<calibrated, review, first, second, scores, claims, acknowledged, viewed>>

(* On the session's status alone. *)
IssueReport ==
  /\ Fire("issue_report")
  /\ UNCHANGED <<calibrated, review, first, second, scores, claims, acknowledged, viewed>>

Acknowledge(m) ==
  /\ acknowledged' = acknowledged \cup {m}
  /\ UNCHANGED <<status, calibrated, review, first, second, scores, claims, viewed>>

(* The profile is built from the finalised review of the session; without  *)
(* one the handler throws and its transaction records nothing.             *)
ViewProfile(m) ==
  /\ m \in acknowledged
  /\ status = "report_issued"
  /\ review = "finalised"
  /\ viewed' = viewed \cup {m}
  /\ UNCHANGED <<status, calibrated, review, first, second, scores, claims, acknowledged>>

ReviewV1Next ==
  \/ \E u \in Reviewer : \/ Calibrate(u) \/ LoseCalibration(u)
                         \/ AssignReviewer(u) \/ AssignSecondReviewer(u)
                         \/ RefuseScores(u) \/ FinaliseReview(u)
  \/ \E u \in Reviewer \cup Admin, payload \in Payload : SaveScores(u, payload)
  \/ \E u \in Reviewer, i \in ClaimId :
       \/ \E claim \in LedgerClaim : CreateClaim(u, i, claim) \/ UpdateClaim(u, i, claim)
       \/ DeleteClaim(u, i)
  \/ IssueReport
  \/ \E m \in Manager : Acknowledge(m) \/ ViewProfile(m)

ReviewV1Spec == ReviewV1Init /\ [][ReviewV1Next]_v1vars

-------------------------------------------------------------------------------
(* Properties. *)

(* "A finalised review is immutable": no reviewer, administrator or second *)
(* assignment changes the scores, the claims or the reviewers of one.      *)
FinalisedReviewStands ==
  [][ review = "finalised" =>
        /\ review' = "finalised" /\ first' = first /\ second' = second
        /\ scores' = scores /\ claims' = claims ]_v1vars

(* No finalised review leaves two scores apart without an adjudication,    *)
(* whichever of them came, changed or was withdrawn last.                  *)
VarianceAdjudicated ==
  review = "finalised" =>
    \A c \in Criterion : Apart(c) => scores[c].adjudicated # NoScore

===============================================================================
