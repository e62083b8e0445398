----------------------------- MODULE RecordsProofs -----------------------------
(***************************************************************************)
(* Theorems about an organisation's records: both reviews over one         *)
(* session, what erases a candidate's data and what must not, published    *)
(* courses, the retention policy.  They hold for any number of reviewers,  *)
(* criteria, requests, holds, rows, authors and administrators.            *)
(***************************************************************************)
EXTENDS MixedReviews, DataLifecycle, Learning, RetentionForm, FiniteSetTheorems, TLAPS

-------------------------------------------------------------------------------
(* Both reviews over one session row. *)

(* A V1 review is of a session that has left "submitted" for good, and a   *)
(* decided session has a finalised review of one kind or the other.        *)
ReviewsIInv ==
  /\ review # "none" => status # "submitted"
  /\ VarianceAdjudicated
  /\ DecidedByReview

(* What the V1 handlers may do to the session's status. *)
LEMMA V1Status ==
  ASSUME ReviewV1Next
  PROVE  /\ \/ status' = status
            \/ status = "submitted" /\ status' = "under_review"
            \/ status' = "review_finalised" /\ review' = "finalised"
            \/ status = "review_finalised" /\ status' = "report_issued"
         /\ review # "none" => review' # "none"
         /\ review = "none" /\ review' # "none" => status = "submitted" /\ status' = "under_review"
  BY DEF ReviewV1Next, Calibrate, LoseCalibration, AssignReviewer, AssignSecondReviewer, RefuseScores,
         FinaliseReview, SaveScores, CreateClaim, UpdateClaim, DeleteClaim, IssueReport, Acknowledge,
         ViewProfile, Fire, SessionTransition, Editable, BeginsFor, Unsubmitted

(* A finalised V1 review is what it was, whatever V1 handler runs. *)
LEMMA V1Finalised ==
  ASSUME ReviewV1Next, review = "finalised", status # "submitted"
  PROVE  /\ review' = "finalised" /\ first' = first /\ second' = second
         /\ scores' = scores /\ claims' = claims
  BY DEF ReviewV1Next, Calibrate, LoseCalibration, AssignReviewer, AssignSecondReviewer, RefuseScores,
         FinaliseReview, SaveScores, CreateClaim, UpdateClaim, DeleteClaim, IssueReport, Acknowledge,
         ViewProfile, Fire, SessionTransition, Editable, OwnReview, Unsubmitted

(* A V1 review is finalised with every variance adjudicated. *)
LEMMA V1Finalises ==
  ASSUME ReviewV1Next, review # "finalised", review' = "finalised"
  PROVE  AdjudicationsRequired = {} /\ scores' = scores
  BY DEF ReviewV1Next, Calibrate, LoseCalibration, AssignReviewer, AssignSecondReviewer, RefuseScores,
         FinaliseReview, SaveScores, CreateClaim, UpdateClaim, DeleteClaim, IssueReport, Acknowledge,
         ViewProfile, Editable, BeginsFor

(* What the V2 handlers may do to the row they share with V1. *)
LEMMA V2Status ==
  ASSUME V2!Next
  PROVE  /\ \/ status' = status
            \/ status' = "under_review"
            \/ status' = "review_finalised" /\ state' = "finalised"
         /\ state = "finalised" => state' = "finalised"
  BY DEF V2!Next, V2!Calibrate, V2!LoseCalibration, V2!Assign, V2!ReadBundle, V2!AppealRead,
         V2!SaveDimension, V2!Finalise, V2!StateAfter, V2!CloseLock, V2!CloseCommit, V2!CloseAbort,
         V2!AppealInsert, V2!AppealAbort

LEMMA ReviewsInit == ASSUME MixedInit PROVE ReviewsIInv
  BY DEF MixedInit, ReviewV1Init, ReviewsIInv, VarianceAdjudicated, DecidedByReview

LEMMA ReviewsStep == ASSUME ReviewsIInv, [MixedNext]_mixedvars PROVE ReviewsIInv'
<1>1. CASE ReviewV1Next /\ UNCHANGED v2Only
  <2>1. (review # "none" => status # "submitted")'
    BY <1>1, V1Status DEF ReviewsIInv
  <2>2. VarianceAdjudicated'
    <3>1. CASE review = "finalised"
      BY <1>1, <3>1, V1Finalised DEF ReviewsIInv, VarianceAdjudicated, Apart, BothScored
    <3>2. CASE review # "finalised"
      BY <1>1, <3>2, V1Finalises DEF AdjudicationsRequired, VarianceAdjudicated, Apart, BothScored
    <3>. QED BY <3>1, <3>2
  <2>3. DecidedByReview'
    BY <1>1, V1Status, V1Finalised DEF ReviewsIInv, DecidedByReview, v2Only
  <2>. QED BY <2>1, <2>2, <2>3 DEF ReviewsIInv
<1>2. CASE V2!Next /\ UNCHANGED v1Only
  BY <1>2, V2Status DEF ReviewsIInv, VarianceAdjudicated, Apart, BothScored, DecidedByReview, v1Only
<1>3. CASE UNCHANGED mixedvars
  BY <1>3 DEF mixedvars, v1vars, v2Only, ReviewsIInv, VarianceAdjudicated, Apart, BothScored,
              DecidedByReview
<1>. QED BY <1>1, <1>2, <1>3 DEF MixedNext

LEMMA ReviewsInvariant == MixedSpec => []ReviewsIInv
  BY ReviewsInit, ReviewsStep, PTL DEF MixedSpec

(* No V1 review is final with two scores apart and nobody's decision       *)
(* between them, whatever was saved last (org/reviews.ts, evaluate).       *)
THEOREM VariancesAdjudicated == MixedSpec => []VarianceAdjudicated
<1>1. ReviewsIInv => VarianceAdjudicated
  BY DEF ReviewsIInv
<1>. QED BY <1>1, ReviewsInvariant, PTL

(* A session is decided, and its report issued, only when some human       *)
(* review of it is final, though each of the two reviews writes the status *)
(* the other looks at.                                                     *)
THEOREM HumansDecide == MixedSpec => []DecidedByReview
<1>1. ReviewsIInv => DecidedByReview
  BY DEF ReviewsIInv
<1>. QED BY <1>1, ReviewsInvariant, PTL

(* A finalised V1 review stands: no later assignment, score or claim       *)
(* changes it, the V2 review's handlers included.                          *)
THEOREM FinalisedStands == MixedSpec => FinalisedReviewStands
<1>1. ASSUME ReviewsIInv, [MixedNext]_mixedvars
      PROVE  [review = "finalised" =>
                /\ review' = "finalised" /\ first' = first /\ second' = second
                /\ scores' = scores /\ claims' = claims]_v1vars
  <2>1. CASE ReviewV1Next
    BY <1>1, <2>1, V1Finalised DEF ReviewsIInv
  <2>2. CASE UNCHANGED v1Only
    BY <2>2 DEF v1Only
  <2>3. CASE UNCHANGED mixedvars
    BY <2>3 DEF mixedvars
  <2>. QED BY <1>1, <2>1, <2>2, <2>3 DEF MixedNext
<1>. QED BY <1>1, ReviewsInvariant, PTL DEF MixedSpec, FinalisedReviewStands

(* The lemmas about the V2 review, of the row it shares. *)
V2P == INSTANCE ReviewV2Proofs

(* They are about the same handlers. *)
LEMMA SameReview == V2!Next => V2P!Next
<1>1. /\ V2!User = V2P!User /\ V2!Round = V2P!Round /\ V2!Writable = V2P!Writable
      /\ V2!NoAnchor = V2P!NoAnchor /\ V2!NoAppeal = V2P!NoAppeal
      /\ V2!SecondReviewRequired = V2P!SecondReviewRequired
  BY DEF V2!User, V2P!User, V2!Round, V2P!Round, V2!Writable, V2P!Writable, V2!NoAnchor,
         V2P!NoAnchor, V2!NoAppeal, V2P!NoAppeal, V2!SecondReviewRequired,
         V2P!SecondReviewRequired
<1>2. V2!Reviewed = V2P!Reviewed /\ V2!Disputed = V2P!Disputed
  BY <1>1 DEF V2!Reviewed, V2P!Reviewed, V2!Disputed, V2P!Disputed
<1>3. \A u : V2!Mine(u) = V2P!Mine(u) /\ V2!Visible(u) = V2P!Visible(u)
  BY <1>1 DEF V2!Mine, V2P!Mine, V2!Visible, V2P!Visible
<1>4. \A r : V2!Outcome(r) = V2P!Outcome(r)
  BY <1>1, <1>2, Zenon DEF V2!Outcome, V2P!Outcome
<1>5. \A r : /\ V2!Other(r) = V2P!Other(r)
             /\ V2!Whole(r) <=> V2P!Whole(r)
             /\ V2!StateAfter(r) = V2P!StateAfter(r)
             /\ \A u : V2!WorksOn(u, r) <=> V2P!WorksOn(u, r)
  BY <1>1 DEF V2!Other, V2P!Other, V2!Whole, V2P!Whole, V2!StateAfter, V2P!StateAfter,
              V2!WorksOn, V2P!WorksOn
<1>6. \A u : V2!AppealRead(u) => V2P!AppealRead(u)
  BY <1>1, <1>2 DEF V2!AppealRead, V2P!AppealRead, V2!Cardinality, V2P!Cardinality
<1>7. \A u, r : V2!Finalise(u, r) => V2P!Finalise(u, r)
  BY <1>4, <1>5 DEF V2!Finalise, V2P!Finalise
<1>8. \A u : V2!ReadBundle(u) => V2P!ReadBundle(u)
  BY <1>1, <1>3 DEF V2!ReadBundle, V2P!ReadBundle
<1>9. \A u, r : /\ V2!Assign(u, r) => V2P!Assign(u, r)
                /\ \A d, a : V2!SaveDimension(u, r, d, a) => V2P!SaveDimension(u, r, d, a)
  BY <1>1, <1>5
     DEF V2!Assign, V2P!Assign, V2!SaveDimension, V2P!SaveDimension
<1>10. /\ \A u : /\ V2!Calibrate(u) => V2P!Calibrate(u)
                 /\ V2!LoseCalibration(u) => V2P!LoseCalibration(u)
       /\ V2!CloseLock => V2P!CloseLock
       /\ V2!CloseCommit => V2P!CloseCommit
       /\ V2!CloseAbort => V2P!CloseAbort
       /\ V2!AppealInsert => V2P!AppealInsert
       /\ V2!AppealAbort => V2P!AppealAbort
  BY <1>1 DEF V2!Calibrate, V2P!Calibrate, V2!LoseCalibration, V2P!LoseCalibration,
     V2!CloseLock, V2P!CloseLock, V2!CloseCommit, V2P!CloseCommit, V2!CloseAbort,
     V2P!CloseAbort, V2!AppealInsert, V2P!AppealInsert, V2!AppealAbort, V2P!AppealAbort
<1>11. ASSUME V2!Next PROVE V2P!Next
  <2>1. CASE \E u \in Reviewer : V2!Calibrate(u) \/ V2!LoseCalibration(u)
    BY <2>1, <1>10 DEF V2P!Next
  <2>2. CASE \E u \in Reviewer, r \in V2!Round : V2!Assign(u, r)
    BY <2>2, <1>1, <1>9 DEF V2P!Next
  <2>3. CASE \E u \in V2!User : V2!ReadBundle(u) \/ V2!AppealRead(u)
    BY <2>3, <1>1, <1>6, <1>8 DEF V2P!Next
  <2>4. CASE \E u \in V2!User, r \in V2!Round, d \in Dimension, a \in Anchor :
               V2!SaveDimension(u, r, d, a)
    BY <2>4, <1>1, <1>9 DEF V2P!Next
  <2>5. CASE \E u \in V2!User, r \in V2!Round : V2!Finalise(u, r)
    BY <2>5, <1>1, <1>7 DEF V2P!Next
  <2>6. CASE \/ V2!CloseLock \/ V2!CloseCommit \/ V2!CloseAbort
             \/ V2!AppealInsert \/ V2!AppealAbort
    BY <2>6, <1>10 DEF V2P!Next
  <2>. QED BY <1>11, <2>1, <2>2, <2>3, <2>4, <2>5, <2>6 DEF V2!Next
<1>. QED BY <1>11

(* What the V2 review keeps for itself (OwnInv of ReviewV2Proofs) it keeps *)
(* beside the other review: a step of V1 writes none of its rows, and a     *)
(* step of its own keeps them whatever status V1 has written.               *)
LEMMA V2OwnInvariant == MixedSpec => []V2P!OwnInv
<1>1. V2P!ReviewAssumption
  BY ReviewV1Assumption, MixedAssumption DEF V2P!ReviewAssumption, V2P!User
<1>2. MixedInit => V2P!OwnInv
  <2>. SUFFICES ASSUME MixedInit PROVE V2P!OwnInv
    OBVIOUS
  <2>. USE DEF MixedInit, ReviewV1Init, V2P!Round, V2P!NoAppeal, V2P!NoAnchor, V2!Round,
               V2!NoAppeal, V2!NoAnchor
  <2>1. V2P!OwnTypeOK
    BY DEF V2P!OwnTypeOK
  <2>2. V2P!RoundsFilled /\ V2P!CompletedRoundsWhole /\ V2P!Adjudicated
    BY DEF V2P!RoundsFilled, V2P!CompletedRoundsWhole, V2P!Adjudicated
  <2>3. V2P!FinalisedExactly /\ V2P!NoDisagreementUnresolved
    BY DEF V2P!FinalisedExactly, V2P!NoDisagreementUnresolved
  <2>4. V2P!SeenByAdmins /\ V2P!AppealStands
    BY DEF V2P!SeenByAdmins, V2P!AppealStands
  <2>. QED BY <2>1, <2>2, <2>3, <2>4 DEF V2P!OwnInv
<1>3. V2P!OwnInv /\ [MixedNext]_mixedvars => V2P!OwnInv'
  <2>. SUFFICES ASSUME V2P!OwnInv, [MixedNext]_mixedvars PROVE V2P!OwnInv'
    OBVIOUS
  <2>1. CASE V2!Next
    BY <1>1, <2>1, SameReview, V2P!StepOwnInv
  <2>2. CASE UNCHANGED v2Only /\ calibrated' \subseteq Reviewer
    BY <2>2
       DEF v2Only, V2P!OwnInv, V2P!OwnTypeOK, V2P!RoundsFilled, V2P!CompletedRoundsWhole,
           V2P!Adjudicated, V2P!FinalisedExactly, V2P!NoDisagreementUnresolved, V2P!SeenByAdmins,
           V2P!AppealStands
  <2>3. calibrated \subseteq Reviewer
    BY DEF V2P!OwnInv, V2P!OwnTypeOK
  <2>4. CASE ReviewV1Next /\ UNCHANGED v2Only
    <3>1. calibrated' \subseteq Reviewer
      BY <2>3, <2>4
         DEF ReviewV1Next, Calibrate, LoseCalibration, AssignReviewer, AssignSecondReviewer,
             RefuseScores, FinaliseReview, SaveScores, CreateClaim, UpdateClaim, DeleteClaim,
             IssueReport, Acknowledge, ViewProfile
    <3>. QED BY <2>2, <2>4, <3>1
  <2>5. CASE UNCHANGED mixedvars
    BY <2>2, <2>3, <2>5 DEF mixedvars, v1vars
  <2>. QED BY <2>1, <2>4, <2>5 DEF MixedNext
<1>. QED BY <1>2, <1>3, PTL DEF MixedSpec

(* The V1 handlers move the status of a session the V2 review decides      *)
(* (org/reviews.ts:127, 505, 550).  What that review promises of its own   *)
(* rows holds all the same: decided by the second round, no disagreement    *)
(* left open, whole rounds, blind reviewers, independent appeals.           *)
THEOREM ReviewsApart ==
  MixedSpec => [](/\ V2!FinalisedExactly /\ V2!NoDisagreementUnresolved
                  /\ V2!CompletedRoundsWhole /\ V2!BlindUnlessAdmin
                  /\ V2!LateAppealsIndependent)
<1>1. V2P!OwnInv => /\ V2P!FinalisedExactly /\ V2P!NoDisagreementUnresolved
                   /\ V2P!CompletedRoundsWhole /\ V2P!BlindUnlessAdmin
                   /\ V2P!LateAppealsIndependent
  BY DEF V2P!OwnInv, V2P!SeenByAdmins, V2P!BlindUnlessAdmin, V2P!AppealStands,
         V2P!LateAppealsIndependent
<1>2. /\ V2P!FinalisedExactly /\ V2P!NoDisagreementUnresolved
      /\ V2P!CompletedRoundsWhole /\ V2P!BlindUnlessAdmin
      /\ V2P!LateAppealsIndependent
      => /\ V2!FinalisedExactly /\ V2!NoDisagreementUnresolved
         /\ V2!CompletedRoundsWhole /\ V2!BlindUnlessAdmin
         /\ V2!LateAppealsIndependent
  BY DEF V2!FinalisedExactly, V2P!FinalisedExactly, V2!NoDisagreementUnresolved,
       V2P!NoDisagreementUnresolved, V2!CompletedRoundsWhole, V2P!CompletedRoundsWhole,
       V2!BlindUnlessAdmin, V2P!BlindUnlessAdmin, V2!LateAppealsIndependent,
       V2P!LateAppealsIndependent, V2!User, V2P!User, V2!Round, V2P!Round, V2!Other, V2P!Other,
       V2!NoAnchor, V2P!NoAnchor, V2!Disputed, V2P!Disputed
<1>. QED BY <1>1, <1>2, V2OwnInvariant, PTL

(* A completed V2 round stands as well: no handler of V1 reaches its rows.  *)
THEOREM RoundsStandApart == MixedSpec => V2!CompletedRoundStands
<1>1. V2P!ReviewAssumption
  BY ReviewV1Assumption, MixedAssumption DEF V2P!ReviewAssumption, V2P!User
<1>2. ASSUME V2P!OwnInv, [MixedNext]_mixedvars PROVE V2P!RoundsKept
  <2>1. CASE V2!Next
    BY <1>1, <1>2, <2>1, SameReview, V2P!StepRoundsKept
  <2>2. CASE UNCHANGED v2Only
    BY <2>2 DEF v2Only, V2P!RoundsKept
  <2>3. CASE UNCHANGED mixedvars
    BY <2>2, <2>3 DEF mixedvars
  <2>. QED BY <1>2, <2>1, <2>2, <2>3 DEF MixedNext
<1>3. V2P!RoundsKept => \A r \in V2!Round : completed[r] =>
        completed'[r] /\ assigned'[r] = assigned[r] /\ anchor'[r] = anchor[r]
  BY DEF V2P!RoundsKept, V2!Round, V2P!Round
<1>4. V2P!OwnInv /\ [MixedNext]_mixedvars =>
        [ \A r \in V2!Round : completed[r] =>
            completed'[r] /\ assigned'[r] = assigned[r] /\ anchor'[r] = anchor[r] ]_(V2!vars)
  BY <1>2, <1>3
<1>. QED BY <1>4, V2OwnInvariant, PTL DEF MixedSpec, V2!CompletedRoundStands

(* A score written is one of the three of its criterion. *)
LEMMA ScoresTyped ==
  ASSUME scores \in [Criterion -> Scores], NEW u, NEW payload \in Payload, SaveScores(u, payload)
  PROVE  scores' \in [Criterion -> Scores]
<1>1. Column(u) \in {"first", "second", "adjudicated"}
  BY Zenon DEF Column
<1>. DEFINE column == Column(u)
<1>2. scores' = [c \in Criterion |-> IF c \in DOMAIN payload
                                     THEN [scores[c] EXCEPT ![column] = payload[c]]
                                     ELSE scores[c]]
  BY DEF SaveScores
<1>3. \A c \in DOMAIN payload : payload[c] \in Mark
  BY DEF Payload
<1>4. column \in {"first", "second", "adjudicated"}
  BY <1>1
<1>. HIDE DEF column
<1>5. ASSUME NEW c \in Criterion, c \in DOMAIN payload
      PROVE  [scores[c] EXCEPT ![column] = payload[c]] \in Scores
  <2>1. scores[c] \in [first : Mark, second : Mark, adjudicated : Mark] /\ payload[c] \in Mark
    BY <1>3, <1>5 DEF Scores
  <2>2. CASE column = "first"
    BY <2>1, <2>2 DEF Scores
  <2>3. CASE column = "second"
    BY <2>1, <2>3 DEF Scores
  <2>4. CASE column = "adjudicated"
    BY <2>1, <2>4 DEF Scores
  <2>. QED BY <1>4, <2>2, <2>3, <2>4
<1>. QED BY <1>2, <1>5

LEMMA ReviewV1Typed == ASSUME ReviewV1TypeOK, ReviewV1Next PROVE ReviewV1TypeOK'
<1>. USE DEF ReviewV1TypeOK
<1>1. ASSUME NEW u \in Reviewer, Calibrate(u) \/ LoseCalibration(u) PROVE ReviewV1TypeOK'
  BY <1>1 DEF Calibrate, LoseCalibration
<1>2. ASSUME NEW event, Fire(event) PROVE status' \in SessionState
  BY <1>2 DEF Fire, SessionTransition, SessionState
<1>3. ASSUME NEW u \in Reviewer, AssignReviewer(u) \/ AssignSecondReviewer(u)
      PROVE  ReviewV1TypeOK'
  BY <1>2, <1>3 DEF AssignReviewer, AssignSecondReviewer, ReviewState
<1>4. ASSUME NEW u \in Reviewer, RefuseScores(u) \/ FinaliseReview(u) PROVE ReviewV1TypeOK'
  BY <1>2, <1>4 DEF RefuseScores, FinaliseReview, BeginsFor, ReviewState
<1>5. ASSUME NEW u \in Reviewer \cup Admin, NEW payload \in Payload, SaveScores(u, payload)
      PROVE  ReviewV1TypeOK'
  BY <1>5, ScoresTyped DEF SaveScores, BeginsFor, ReviewState
<1>6. ASSUME NEW u \in Reviewer, NEW i \in ClaimId,
             \/ \E claim \in LedgerClaim : CreateClaim(u, i, claim) \/ UpdateClaim(u, i, claim)
             \/ DeleteClaim(u, i)
      PROVE  ReviewV1TypeOK'
  <2>1. \E claim \in LedgerClaim \cup {NoClaim} : claims' = [claims EXCEPT ![i] = claim]
    BY <1>6 DEF CreateClaim, UpdateClaim, DeleteClaim
  <2>2. UNCHANGED <<status, calibrated, review, first, second, scores, acknowledged, viewed>>
    BY <1>6 DEF CreateClaim, UpdateClaim, DeleteClaim
  <2>. QED BY <2>1, <2>2
<1>7. CASE IssueReport
  BY <1>2, <1>7 DEF IssueReport
<1>8. ASSUME NEW m \in Manager, Acknowledge(m) \/ ViewProfile(m) PROVE ReviewV1TypeOK'
  BY <1>8 DEF Acknowledge, ViewProfile
<1>. QED BY <1>1, <1>3, <1>4, <1>5, <1>6, <1>7, <1>8 DEF ReviewV1Next

(* Two reviews that write one status keep every row of the other's in its  *)
(* type, and the status a status of the session machine.                   *)
LEMMA MixedTyped == MixedSpec => []MixedTypeOK
<1>1. ReviewV1Init => ReviewV1TypeOK
  BY DEF ReviewV1Init, ReviewV1TypeOK, SessionState, ReviewState, Scores, Unscored, Mark, NoClaim
<1>2. ReviewV1TypeOK /\ V2P!OwnInv /\ [MixedNext]_mixedvars => ReviewV1TypeOK'
  <2>. SUFFICES ASSUME ReviewV1TypeOK, V2P!OwnInv, [MixedNext]_mixedvars PROVE ReviewV1TypeOK'
    OBVIOUS
  <2>1. CASE ReviewV1Next /\ UNCHANGED v2Only
    BY <2>1, ReviewV1Typed
  <2>2. CASE V2!Next /\ UNCHANGED v1Only
    <3>1. status' \in SessionState
      BY <2>2, V2Status DEF ReviewV1TypeOK, SessionState
    <3>2. calibrated' \subseteq Reviewer
      BY <2>2 DEF ReviewV1TypeOK, V2!Next, V2!Calibrate, V2!LoseCalibration, V2!Assign, V2!ReadBundle,
        V2!AppealRead, V2!SaveDimension, V2!Finalise, V2!CloseLock, V2!CloseCommit, V2!CloseAbort,
        V2!AppealInsert, V2!AppealAbort
    <3>. QED BY <2>2, <3>1, <3>2 DEF ReviewV1TypeOK, v1Only
  <2>3. CASE UNCHANGED mixedvars
    BY <2>3 DEF mixedvars, v1vars, ReviewV1TypeOK
  <2>. QED BY <2>1, <2>2, <2>3 DEF MixedNext
<1>3. ReviewV1TypeOK /\ V2P!OwnInv => MixedTypeOK
  BY DEF MixedTypeOK, V2P!OwnInv, V2P!OwnTypeOK, V2!Round, V2P!Round, V2!NoAnchor, V2P!NoAnchor
<1>4. MixedInit => ReviewV1Init
  BY DEF MixedInit
<1>. QED BY <1>1, <1>2, <1>3, <1>4, V2OwnInvariant, PTL DEF MixedSpec

-------------------------------------------------------------------------------
(* A candidate's data. *)

(* A row once written is its sitting's until it is deleted, and a sitting  *)
(* once begun is there for every later statement to find.                  *)
RowsOwned ==
  /\ age \in [Sitting -> {"none", "open", "recent", "past"}]
  /\ owner \in [Row -> Sitting \cup {"unwritten", "deleted"}]
  /\ \A i \in Row : owner[i] \in Sitting => age[owner[i]] # "none"

(* What an erasure has left to delete of the rows it is answerable for. *)
ErasureCovers(r) ==
  \A i \in known[r] :
    /\ owner[i] # "unwritten"
    /\ \/ owner[i] = "deleted"
       \/ /\ request[r] # "fulfilled"
          /\ erasing[r].at = "gathered" => owner[i] \in erasing[r].sittings
          /\ erasing[r].at = "deleted" => i \in erasing[r].gone

SweepTyped ==
  /\ spared \in BOOLEAN
  /\ sweep \in [at : {"idle", "counted", "deleted", "anonymised"}, gone : SUBSET EventRow, names : BOOLEAN]

ErasureIInv ==
  /\ RowsOwned
  /\ request \in [Request -> RequestState]
  /\ erasing \in [Request -> [at : {"idle", "checked", "gathered", "deleted"},
                              sittings : SUBSET Sitting, gone : SUBSET Row]]
  /\ known \in [Request -> SUBSET Row]
  /\ \A r \in Request : erasing[r].at # "idle" => request[r] = "in_progress"
  /\ \A r \in Request : request[r] = "fulfilled" => identity = "anonymised"
  /\ \A r \in Request : ErasureCovers(r)

LEMMA ErasureInit == ASSUME DataInit PROVE ErasureIInv
  BY DataAssumption
  DEF DataInit, ErasureIInv, RowsOwned, ErasureCovers, RequestState, ErasureIdle

(* Rows that are written, and sittings that begin and age. *)
LEMMA WritesKeepErasure ==
  ASSUME ErasureIInv, NEW s \in Sitting,
         StartSitting(s) \/ Age(s) \/ RuntimeWrite(s)
         \/ (\E i \in EventRow : PortalWrite(s, i)) \/ (\E i \in Row : ReviewWrite(s, i))
  PROVE  ErasureIInv'
<1>1. CASE StartSitting(s) \/ Age(s) \/ RuntimeWrite(s)
  BY <1>1 DEF StartSitting, Age, RuntimeWrite, ErasureIInv, RowsOwned, ErasureCovers
<1>2. ASSUME NEW i \in Row, owner[i] = "unwritten", age[s] # "none", owner' = [owner EXCEPT ![i] = s],
             UNCHANGED <<age, identity, request, erasing, known>>
      PROVE  ErasureIInv'
  <2>1. RowsOwned'
    BY <1>2 DEF ErasureIInv, RowsOwned
  <2>2. ASSUME NEW r \in Request PROVE ErasureCovers(r)'
    <3>1. i \notin known[r]
      BY <1>2, DataAssumption DEF ErasureIInv, ErasureCovers
    <3>. QED BY <1>2, <3>1 DEF ErasureIInv, RowsOwned, ErasureCovers
  <2>. QED BY <1>2, <2>1, <2>2 DEF ErasureIInv
<1>. QED BY <1>1, <1>2 DEF PortalWrite, ReviewWrite, Row

(* Deleting rows takes nothing back. *)
LEMMA DeletingKeepsErasure ==
  ASSUME ErasureIInv, NEW gone \in SUBSET Row, owner' = Without(gone),
         identity' \in {identity, "anonymised"}, UNCHANGED <<age, request, erasing, known>>
  PROVE  ErasureIInv'
  BY DataAssumption DEF ErasureIInv, RowsOwned, ErasureCovers, Without

LEMMA RequestKeepsErasure ==
  ASSUME ErasureIInv, NEW r \in Request,
         ReceiveRequest(r) \/ MoveRequest(r) \/ BeginErasure(r) \/ GatherSittings(r)
         \/ DeleteRows(r) \/ AbortErasure(r)
  PROVE  ErasureIInv'
<1>. USE DEF ErasureIInv, RowsOwned, subject
<1>1. CASE ReceiveRequest(r)
  BY <1>1 DEF ReceiveRequest, ErasureCovers, RequestState
<1>2. CASE MoveRequest(r)
  BY <1>2 DEF MoveRequest, ErasureCovers, RequestState, RequestTransition
<1>3. CASE BeginErasure(r)
  BY <1>3, DataAssumption DEF BeginErasure, ErasureCovers, Erase, ErasureIdle, PresentRows
<1>4. CASE GatherSittings(r)
  BY <1>4, ZenonT(40) DEF GatherSittings, ErasureCovers, Erase
<1>5. CASE DeleteRows(r)
  BY <1>5 DEF DeleteRows, ErasureCovers, Erase
<1>6. CASE AbortErasure(r)
  BY <1>6 DEF AbortErasure, ErasureCovers, Erase, ErasureIdle
<1>. QED BY <1>1, <1>2, <1>3, <1>4, <1>5, <1>6

LEMMA CommitKeepsErasure ==
  ASSUME ErasureIInv, NEW r \in Request, CommitErasure(r) PROVE ErasureIInv'
<1>1. /\ owner' = Without(erasing[r].gone) /\ identity' = "anonymised"
      /\ request' = [request EXCEPT ![r] = "fulfilled"]
      /\ erasing' = [erasing EXCEPT ![r] = ErasureIdle]
      /\ erasing[r].at = "deleted"
      /\ UNCHANGED <<age, known>>
  BY DEF CommitErasure, Erase
<1>2. \A i \in Row : owner'[i] = IF i \in erasing[r].gone THEN "deleted" ELSE owner[i]
  BY <1>1 DEF Without
<1>3. RowsOwned'
  BY <1>1, <1>2, DataAssumption DEF ErasureIInv, RowsOwned, Without
<1>4. ErasureCovers(r)'
  BY <1>1, <1>2 DEF ErasureIInv, ErasureCovers
<1>5. ASSUME NEW q \in Request \ {r} PROVE ErasureCovers(q)'
  BY <1>1, <1>2 DEF ErasureIInv, ErasureCovers
<1>6. /\ request' \in [Request -> RequestState]
      /\ erasing' \in [Request -> [at : {"idle", "checked", "gathered", "deleted"},
                                   sittings : SUBSET Sitting, gone : SUBSET Row]]
      /\ \A q \in Request : erasing'[q].at # "idle" => request'[q] = "in_progress"
  BY <1>1 DEF ErasureIInv, RequestState, ErasureIdle
<1>. QED BY <1>1, <1>3, <1>4, <1>5, <1>6 DEF ErasureIInv

LEMMA ErasureStep == ASSUME ErasureIInv, [DataNext]_datavars, SweepTyped PROVE ErasureIInv'
<1>1. ASSUME UNCHANGED <<age, owner, identity, request, erasing, known>> PROVE ErasureIInv'
  BY <1>1 DEF ErasureIInv, RowsOwned, ErasureCovers
<1>2. CASE CommitSweep
  <2>1. sweep.gone \in SUBSET Row
    BY DEF SweepTyped, Row
  <2>. QED BY <1>2, <2>1, DeletingKeepsErasure DEF CommitSweep
<1>3. CASE BeginSweep \/ SweepDelete \/ SweepAnonymise \/ AbortSweep
  BY <1>1, <1>3 DEF BeginSweep, SweepDelete, SweepAnonymise, AbortSweep, subject
<1>4. CASE ResolveToken \/ V2Pass \/ \E h \in Hold : PlaceHold(h) \/ ReleaseHold(h)
  BY <1>1, <1>4 DEF ResolveToken, V2Pass, PlaceHold, ReleaseHold, subject
<1>5. CASE UNCHANGED datavars
  BY <1>1, <1>5 DEF datavars
<1>. QED
  BY <1>2, <1>3, <1>4, <1>5, WritesKeepErasure, RequestKeepsErasure, CommitKeepsErasure DEF DataNext

(* A sweep that some hold outlasts has taken nothing. *)
SweepIInv == SweepTyped /\ (spared => holds # {}) /\ SweepSparesHeld

LEMMA SweepInit == ASSUME DataInit PROVE SweepIInv
  BY DEF DataInit, SweepIInv, SweepTyped, SweepSparesHeld, SweepIdle

LEMMA SweepStep == ASSUME SweepIInv, [DataNext]_datavars PROVE SweepIInv'
<1>. USE DEF SweepIInv, SweepTyped, SweepSparesHeld, SweepIdle
<1>1. ASSUME UNCHANGED <<holds, sweep, spared>> PROVE SweepIInv'
  BY <1>1
<1>2. CASE BeginSweep
  <2>1. sweep' = [at |-> "counted", gone |-> {}, names |-> FALSE] /\ holds' = holds
        /\ spared' = (holds # {})
    BY <1>2 DEF BeginSweep, subject
  <2>. QED BY <2>1
<1>3. CASE SweepDelete
  <2>1. sweep' = [sweep EXCEPT !.at = "deleted", !.gone = Eligible] /\ UNCHANGED <<holds, spared>>
        /\ sweep.at = "counted"
    BY <1>3 DEF SweepDelete
  <2>2. Eligible \in SUBSET EventRow /\ (holds # {} => Eligible = {})
    BY DEF Eligible
  <2>3. sweep'.at = "deleted" /\ sweep'.gone = Eligible /\ sweep'.names = sweep.names
        /\ sweep' \in [at : {"idle", "counted", "deleted", "anonymised"}, gone : SUBSET EventRow,
                       names : BOOLEAN]
    BY <2>1, <2>2
  <2>. QED BY <2>1, <2>2, <2>3
<1>4. CASE SweepAnonymise
  <2>1. sweep' = [sweep EXCEPT !.at = "anonymised", !.names = EligibleName] /\ UNCHANGED <<holds, spared>>
    BY <1>4 DEF SweepAnonymise
  <2>2. EligibleName \in BOOLEAN /\ (holds # {} => ~EligibleName)
    BY DEF EligibleName
  <2>3. sweep'.at = "anonymised" /\ sweep'.gone = sweep.gone /\ sweep'.names = EligibleName
    BY <2>1
  <2>. QED BY <2>1, <2>2, <2>3
<1>5. CASE CommitSweep \/ AbortSweep
  <2>1. sweep' = [at |-> "idle", gone |-> {}, names |-> FALSE] /\ UNCHANGED <<holds, spared>>
    BY <1>5 DEF CommitSweep, AbortSweep
  <2>. QED BY <2>1
<1>6. ASSUME NEW h \in Hold, PlaceHold(h) \/ ReleaseHold(h) PROVE SweepIInv'
  <2>1. sweep' = sweep
    BY <1>6 DEF PlaceHold, ReleaseHold
  <2>2. spared' \in BOOLEAN /\ (spared' => spared /\ holds' # {})
    BY <1>6 DEF PlaceHold, ReleaseHold
  <2>. QED BY <2>1, <2>2
<1>7. ASSUME NEW s \in Sitting,
             StartSitting(s) \/ Age(s) \/ RuntimeWrite(s)
             \/ (\E i \in EventRow : PortalWrite(s, i)) \/ (\E i \in Row : ReviewWrite(s, i))
      PROVE  SweepIInv'
  BY <1>1, <1>7 DEF StartSitting, Age, RuntimeWrite, PortalWrite, ReviewWrite
<1>8. ASSUME NEW r \in Request,
             ReceiveRequest(r) \/ MoveRequest(r) \/ BeginErasure(r) \/ GatherSittings(r)
             \/ DeleteRows(r) \/ CommitErasure(r) \/ AbortErasure(r)
      PROVE  SweepIInv'
  BY <1>1, <1>8 DEF ReceiveRequest, MoveRequest, BeginErasure, GatherSittings, DeleteRows, CommitErasure,
                    AbortErasure
<1>9. CASE ResolveToken \/ V2Pass \/ UNCHANGED datavars
  BY <1>1, <1>9 DEF ResolveToken, V2Pass, datavars
<1>. QED BY <1>2, <1>3, <1>4, <1>5, <1>6, <1>7, <1>8, <1>9 DEF DataNext

LEMMA SweepInvariant == DataSpec => []SweepIInv
  BY SweepInit, SweepStep, PTL DEF DataSpec

(* "An active legal hold on a candidate suppresses ALL deletion"           *)
(* (jobs/retention.ts): a sweep that some hold outlasts, not always the    *)
(* same one, takes nothing, though no statement of it locks the holds.     *)
THEOREM HeldAreSpared == DataSpec => []SweepSparesHeld
<1>1. SweepIInv => SweepSparesHeld
  BY DEF SweepIInv
<1>. QED BY <1>1, SweepInvariant, PTL

(* A fulfilled erasure has left none of the rows that were there when it   *)
(* was taken up (org/data-rights.ts), for any number of requests, sweeps,  *)
(* sittings and writers beside it.                                         *)
THEOREM FulfilledErases == DataSpec => []FulfilledMeansErased
<1>1. DataSpec => []SweepTyped
  <2>1. SweepIInv => SweepTyped
    BY DEF SweepIInv
  <2>. QED BY <2>1, SweepInvariant, PTL
<1>2. DataSpec => []ErasureIInv
  BY <1>1, ErasureInit, ErasureStep, PTL DEF DataSpec
<1>3. ErasureIInv => FulfilledMeansErased
  BY DataAssumption DEF ErasureIInv, ErasureCovers, FulfilledMeansErased, PresentRows
<1>. QED BY <1>2, <1>3, PTL

(* A hold is placed only while no erasure is under way. *)
HoldsComeBefore == holds' \subseteq holds \/ \A r \in Request : erasing[r].at = "idle"

(* No hold is active while an erasure is under way. *)
ErasesUnheld ==
  /\ DOMAIN erasing = Request /\ DOMAIN request = Request
  /\ \A r \in Request : erasing[r].at # "idle" => holds = {}

LEMMA UnheldStep ==
  ASSUME ErasesUnheld, HoldsComeBefore, [DataNext]_datavars
  PROVE  /\ ErasesUnheld'
         /\ \A r \in Request : request[r] # "fulfilled" /\ request'[r] = "fulfilled" => holds = {}
<1>. USE DEF ErasesUnheld
<1>1. ASSUME NEW h \in Hold, PlaceHold(h) \/ ReleaseHold(h)
      PROVE  ErasesUnheld' /\ request' = request
  BY <1>1 DEF PlaceHold, ReleaseHold, HoldsComeBefore
<1>2. ASSUME NEW r \in Request,
             BeginErasure(r) \/ GatherSittings(r) \/ DeleteRows(r) \/ AbortErasure(r)
      PROVE  ErasesUnheld' /\ request' = request
  <2>1. /\ UNCHANGED <<holds, request>>
        /\ holds = {} \/ erasing' = [erasing EXCEPT ![r] = ErasureIdle]
        /\ \E tx : erasing' = [erasing EXCEPT ![r] = tx]
    BY <1>2 DEF BeginErasure, GatherSittings, DeleteRows, AbortErasure, Erase
  <2>. QED BY <2>1 DEF ErasureIdle
<1>3. ASSUME NEW r \in Request, CommitErasure(r)
      PROVE  ErasesUnheld' /\ holds = {}
  BY <1>3 DEF CommitErasure, Erase, ErasureIdle
<1>4. ASSUME NEW r \in Request, ReceiveRequest(r) \/ MoveRequest(r)
      PROVE  ErasesUnheld' /\ \A q \in Request : request'[q] = "fulfilled" => request[q] = "fulfilled"
  <2>1. /\ UNCHANGED <<holds, erasing>>
        /\ \E next \in RequestState \ {"fulfilled"} : request' = [request EXCEPT ![r] = next]
    BY <1>4 DEF ReceiveRequest, MoveRequest, RequestTransition, RequestState
  <2>. QED BY <2>1
<1>5. ASSUME UNCHANGED <<holds, erasing, request>>
      PROVE  ErasesUnheld' /\ request' = request
  BY <1>5
<1>6. ASSUME NEW s \in Sitting,
             StartSitting(s) \/ Age(s) \/ RuntimeWrite(s)
             \/ (\E i \in EventRow : PortalWrite(s, i)) \/ (\E i \in Row : ReviewWrite(s, i))
      PROVE  ErasesUnheld' /\ request' = request
  BY <1>5, <1>6 DEF StartSitting, Age, RuntimeWrite, PortalWrite, ReviewWrite
<1>7. CASE ResolveToken \/ V2Pass \/ BeginSweep \/ SweepDelete \/ SweepAnonymise \/ CommitSweep
           \/ AbortSweep \/ UNCHANGED datavars
  BY <1>5, <1>7 DEF ResolveToken, V2Pass, BeginSweep, SweepDelete, SweepAnonymise, CommitSweep,
                    AbortSweep, datavars
<1>. QED BY <1>1, <1>2, <1>3, <1>4, <1>6, <1>7 DEF DataNext

(* "Blocked entirely by an active legal hold": no request is fulfilled     *)
(* under one, sweeps and other requests beside it, unless the hold was      *)
(* placed between an erasure's look and its COMMIT, which lock nothing     *)
(* that keeps it out (org/data-rights.ts:48).                             *)
THEOREM HeldUnlessLate == DataSpec /\ [][HoldsComeBefore]_datavars => HoldBlocksErasure
<1>1. DataInit => ErasesUnheld
  BY DEF DataInit, ErasesUnheld, ErasureIdle
<1>2. UNCHANGED datavars => HoldsComeBefore
  BY DEF datavars, HoldsComeBefore
<1>3. ErasesUnheld /\ [DataNext]_datavars /\ [HoldsComeBefore]_datavars =>
        ErasesUnheld'
        /\ [\A r \in Request : request[r] # "fulfilled" /\ request'[r] = "fulfilled" => holds = {}]_datavars
  BY <1>2, UnheldStep
<1>. QED BY <1>1, <1>3, PTL DEF DataSpec, HoldBlocksErasure

(* The types that no other invariant here gives. *)
SubjectTyped ==
  /\ v2rows \subseteq Sitting /\ identity \in {"named", "anonymised"}
  /\ routed \in BOOLEAN /\ resolved \in BOOLEAN /\ holds \subseteq Hold

LEMMA DataTyped == DataSpec => []DataTypeOK
<1>1. DataInit => SubjectTyped
  BY DEF DataInit, SubjectTyped
<1>2. SubjectTyped /\ [DataNext]_datavars => SubjectTyped'
  <2>. SUFFICES ASSUME SubjectTyped, [DataNext]_datavars PROVE SubjectTyped'
    OBVIOUS
  <2>. USE DEF SubjectTyped
  <2>1. ASSUME NEW s \in Sitting,
               StartSitting(s) \/ Age(s) \/ RuntimeWrite(s)
               \/ (\E i \in EventRow : PortalWrite(s, i)) \/ (\E i \in Row : ReviewWrite(s, i))
        PROVE  SubjectTyped'
    BY <2>1 DEF StartSitting, Age, RuntimeWrite, PortalWrite, ReviewWrite
  <2>2. ASSUME NEW h \in Hold, PlaceHold(h) \/ ReleaseHold(h) PROVE SubjectTyped'
    BY <2>2 DEF PlaceHold, ReleaseHold, subject
  <2>3. ASSUME NEW r \in Request,
               ReceiveRequest(r) \/ MoveRequest(r) \/ BeginErasure(r) \/ GatherSittings(r)
               \/ DeleteRows(r) \/ CommitErasure(r) \/ AbortErasure(r)
        PROVE  SubjectTyped'
    BY <2>3 DEF ReceiveRequest, MoveRequest, BeginErasure, GatherSittings, DeleteRows, CommitErasure,
                AbortErasure, subject
  <2>4. CASE \/ ResolveToken \/ V2Pass \/ BeginSweep \/ SweepDelete \/ SweepAnonymise
             \/ CommitSweep \/ AbortSweep \/ UNCHANGED datavars
    BY <2>4 DEF ResolveToken, V2Pass, BeginSweep, SweepDelete, SweepAnonymise, CommitSweep, AbortSweep,
                subject, datavars
  <2>. QED BY <2>1, <2>2, <2>3, <2>4 DEF DataNext
<1>3. SweepIInv => SweepTyped
  BY DEF SweepIInv
<1>4. SweepTyped /\ ErasureIInv /\ SubjectTyped => DataTypeOK
  BY DEF SweepTyped, ErasureIInv, RowsOwned, SubjectTyped, DataTypeOK
<1>. QED BY <1>1, <1>2, <1>3, <1>4, SweepInvariant, ErasureInit, ErasureStep, PTL DEF DataSpec

-------------------------------------------------------------------------------
(* Published courses. *)

(* Once a course is published nobody takes up a request on it: those under *)
(* way are the only ones who may still write, once each.                   *)
CourseTypes ==
  /\ authoring \in [Author -> [doing : {"none", "edit", "outline", "publish"},
                               chapters : SUBSET Chapter, lessons : SUBSET Slot]]
  /\ course \in {"draft", "published"} /\ late \in Nat
  /\ chapters \subseteq Chapter /\ lessons \subseteq Slot /\ frozen \subseteq Slot

CourseIInv ==
  /\ CourseTypes
  /\ course = "draft" => late = 0
  /\ course = "published" => late + Cardinality(UnderWay) <= Cardinality(Author) - 1

LEMMA CourseInit == ASSUME LearningInit PROVE CourseIInv
  BY DEF LearningInit, CourseIInv, CourseTypes, NoRequest, Slot

(* A request that is answered is no longer under way.                      *)
LEMMA AnsweredOne ==
  ASSUME CourseTypes, NEW a \in Author, authoring[a] # NoRequest, Answer(a)
  PROVE  /\ UnderWay' = UnderWay \ {a}
         /\ Cardinality(UnderWay) \in Nat /\ Cardinality(Author) \in Nat
         /\ Cardinality(UnderWay') = Cardinality(UnderWay) - 1
         /\ Cardinality(UnderWay) <= Cardinality(Author)
         /\ authoring' \in [Author -> [doing : {"none", "edit", "outline", "publish"},
                                       chapters : SUBSET Chapter, lessons : SUBSET Slot]]
<1>1. UnderWay' = UnderWay \ {a} /\ a \in UnderWay
  BY DEF CourseTypes, Answer, UnderWay
<1>2. IsFiniteSet(Author) /\ UnderWay \in SUBSET Author
  BY LearningAssumption DEF UnderWay
<1>3. IsFiniteSet(UnderWay) /\ Cardinality(UnderWay) <= Cardinality(Author)
  BY <1>2, FS_Subset
<1>4. Cardinality(UnderWay) \in Nat /\ Cardinality(Author) \in Nat
  BY <1>2, <1>3, FS_CardinalityType
<1>5. Cardinality(UnderWay \ {a}) = Cardinality(UnderWay) - 1
  BY <1>1, <1>3, FS_RemoveElement
<1>6. NoRequest \in [doing : {"none", "edit", "outline", "publish"},
                     chapters : SUBSET Chapter, lessons : SUBSET Slot]
  BY DEF NoRequest
<1>. QED BY <1>1, <1>3, <1>4, <1>5, <1>6 DEF Answer, CourseTypes

LEMMA CourseStep == ASSUME CourseIInv, [LearningNext]_learningvars PROVE CourseIInv'
<1>. USE DEF CourseIInv
<1>1. ASSUME UNCHANGED authored PROVE CourseIInv'
  BY <1>1 DEF authored, CourseTypes, UnderWay
<1>2. ASSUME NEW a \in Author, authoring[a] # NoRequest, Answer(a), Writes, UNCHANGED course,
             chapters' \subseteq Chapter, lessons' \subseteq Slot, frozen' \subseteq Slot
      PROVE  CourseIInv'
  BY <1>2, AnsweredOne DEF Writes, CourseTypes
<1>3. ASSUME NEW a \in Author, ReadDraft(a) PROVE CourseIInv'
  BY <1>3 DEF ReadDraft, CourseTypes
<1>4. ASSUME NEW a \in Author, ReadModules(a) \/ ReadLessons(a) PROVE CourseIInv'
  <2>1. Outlined(a) \subseteq Slot
    BY DEF Outlined, CourseTypes
  <2>2. CourseTypes'
    BY <1>4, <2>1 DEF ReadModules, ReadLessons, CourseTypes
  <2>3. /\ authoring[a].doing # "none" /\ authoring'[a].doing # "none"
        /\ \A b \in Author \ {a} : authoring'[b] = authoring[b]
    BY <1>4 DEF ReadModules, ReadLessons, CourseTypes
  <2>4. UnderWay' = UnderWay
    BY <2>3 DEF UnderWay, NoRequest
  <2>. QED BY <1>4, <2>2, <2>4 DEF ReadModules, ReadLessons
<1>5. ASSUME NEW a \in Author, Publish(a) PROVE CourseIInv'
  <2>1. authoring[a] # NoRequest /\ authoring[a].lessons \subseteq Slot
    BY <1>5 DEF Publish, NoRequest, CourseTypes
  <2>. QED BY <1>5, <2>1, AnsweredOne DEF Publish, Writes, CourseTypes
<1>6. ASSUME NEW a \in Author, DropRequest(a) PROVE CourseIInv'
  BY <1>6, AnsweredOne DEF DropRequest, CourseTypes
<1>7. ASSUME NEW a \in Author, NEW c \in Chapter, AddModule(a, c) PROVE CourseIInv'
  <2>1. authoring[a] # NoRequest
    BY <1>7 DEF AddModule, NoRequest
  <2>. QED BY <1>2, <1>7, <2>1 DEF AddModule, CourseTypes
<1>8. ASSUME NEW a \in Author, NEW x \in Slot, AddLesson(a, x) PROVE CourseIInv'
  <2>1. authoring[a] # NoRequest
    BY <1>8 DEF AddLesson, NoRequest
  <2>. QED BY <1>2, <1>8, <2>1 DEF AddLesson, CourseTypes
<1>9. CASE LinkCourse
  BY <1>9 DEF LinkCourse, CourseTypes, UnderWay
<1>10. CASE UNCHANGED learningvars
  BY <1>1, <1>10 DEF learningvars, authored
<1>11. CASE \E learners \in SUBSET Learner \ {{}} : BulkEnrol(learners)
  BY <1>1, <1>11 DEF BulkEnrol
<1>12. ASSUME NEW l \in Learner,
              \/ ReadForProgress(l) \/ ReadForCompletion(l) \/ CompleteEnrolment(l) \/ DropStudy(l)
              \/ \E x \in Slot : PracticeAttempt(l, x) \/ \E done \in BOOLEAN : SaveProgress(l, x, done)
       PROVE  CourseIInv'
  BY <1>1, <1>12 DEF ReadForProgress, ReadForCompletion, CompleteEnrolment, DropStudy, PracticeAttempt,
                     SaveProgress
<1>. QED
  BY <1>3, <1>4, <1>5, <1>6, <1>7, <1>8, <1>9, <1>10, <1>11, <1>12 DEF LearningNext

(* A published course is written to by the requests alone that were under  *)
(* way when it was published, once each: however many authors there are,   *)
(* by fewer of them than work at a time (org/learning.ts:236-250).         *)
THEOREM LateWritesAreFew == LearningSpec => []LateWritesBounded
<1>1. LearningSpec => []CourseIInv
  BY CourseInit, CourseStep, PTL DEF LearningSpec
<1>2. CourseIInv => LateWritesBounded
  <2>. SUFFICES ASSUME CourseIInv PROVE late <= Cardinality(Author) - 1
    BY DEF LateWritesBounded
  <2>1. IsFiniteSet(Author) /\ Author # {} /\ UnderWay \in SUBSET Author
    BY LearningAssumption DEF UnderWay
  <2>2. IsFiniteSet(UnderWay)
    BY <2>1, FS_Subset
  <2>3. Cardinality(Author) \in Nat \ {0} /\ Cardinality(UnderWay) \in Nat
    BY <2>1, <2>2, FS_CardinalityType, FS_EmptySet
  <2>. QED BY <2>3 DEF CourseIInv, CourseTypes
<1>. QED BY <1>1, <1>2, PTL

(* One author at a time: whoever is at work has read the draft as it is.   *)
AloneAtWork == \A a, b \in UnderWay : a = b

FrozenServed == course = "published" => frozen = lessons

AloneIInv ==
  /\ CourseTypes
  /\ \A x \in lessons : x[1] \in chapters
  /\ \A a \in UnderWay :
       /\ course = "draft" /\ authoring[a].chapters \subseteq chapters
       /\ authoring[a].doing \in {"outline", "publish"} => authoring[a].chapters = chapters
       /\ authoring[a].doing = "publish" => authoring[a].lessons = lessons
  /\ FrozenServed

LEMMA AloneStep ==
  AloneIInv /\ AloneAtWork /\ [LearningNext]_learningvars => AloneIInv'
<1>. SUFFICES ASSUME AloneIInv, AloneAtWork, [LearningNext]_learningvars PROVE AloneIInv'
  OBVIOUS
<1>. USE DEF AloneIInv, FrozenServed, UnderWay
<1>1. ASSUME UNCHANGED authored PROVE AloneIInv'
  BY <1>1 DEF authored, CourseTypes
<1>2. ASSUME NEW a \in Author, authoring[a] # NoRequest, Answer(a), Writes
      PROVE  /\ authoring' \in [Author -> [doing : {"none", "edit", "outline", "publish"},
                                           chapters : SUBSET Chapter, lessons : SUBSET Slot]]
             /\ UnderWay' = {} /\ late' \in Nat /\ course = "draft"
  <2>1. UnderWay' = UnderWay \ {a} /\ a \in UnderWay
    BY <1>2, AnsweredOne
  <2>2. UnderWay' = {}
    BY <2>1 DEF AloneAtWork
  <2>3. late' \in Nat
    BY <1>2 DEF Writes, CourseTypes
  <2>. QED BY <1>2, <2>1, <2>2, <2>3, AnsweredOne
<1>3. ASSUME NEW a \in Author, ReadDraft(a) \/ ReadModules(a) PROVE AloneIInv'
  <2>1. /\ authoring' \in [Author -> [doing : {"none", "edit", "outline", "publish"},
                                      chapters : SUBSET Chapter, lessons : SUBSET Slot]]
        /\ authoring'[a].doing \in {"edit", "outline"} /\ authoring'[a].chapters = chapters
        /\ \A b \in Author \ {a} : authoring'[b] = authoring[b]
    BY <1>3 DEF ReadDraft, ReadModules, CourseTypes
  <2>2. ReadModules(a) => a \in UnderWay
    BY DEF ReadModules, NoRequest
  <2>3. course = "draft" /\ UNCHANGED <<course, chapters, lessons, frozen, late>>
    BY <1>3, <2>2 DEF ReadDraft, ReadModules
  <2>4. CourseTypes'
    BY <2>1, <2>3 DEF CourseTypes
  <2>5. ASSUME NEW b \in Author, authoring'[b] # NoRequest
        PROVE  /\ authoring'[b].chapters \subseteq chapters
               /\ authoring'[b].doing \in {"outline", "publish"} => authoring'[b].chapters = chapters
               /\ authoring'[b].doing = "publish" => authoring'[b].lessons = lessons
    BY <2>1, <2>5
  <2>. QED BY <2>3, <2>4, <2>5
<1>4. ASSUME NEW a \in Author, ReadLessons(a) PROVE AloneIInv'
  <2>1. a \in UnderWay /\ Outlined(a) = lessons
    BY <1>4 DEF ReadLessons, Outlined, NoRequest
  <2>2. /\ authoring' \in [Author -> [doing : {"none", "edit", "outline", "publish"},
                                      chapters : SUBSET Chapter, lessons : SUBSET Slot]]
        /\ authoring'[a].chapters = authoring[a].chapters /\ authoring'[a].lessons = lessons
        /\ \A b \in Author \ {a} : authoring'[b] = authoring[b]
        /\ UNCHANGED <<course, chapters, lessons, frozen, late>>
    BY <1>4, <2>1 DEF ReadLessons, CourseTypes
  <2>3. authoring[a].chapters = chapters
    BY <1>4, <2>1 DEF ReadLessons
  <2>4. CourseTypes'
    BY <2>2 DEF CourseTypes
  <2>5. \A b \in Author : authoring'[b] # NoRequest =>
          /\ authoring'[b].chapters = chapters
          /\ authoring'[b].doing = "publish" => authoring'[b].lessons = lessons
    BY <2>1, <2>2, <2>3 DEF AloneAtWork
  <2>6. UnderWay' = {b \in Author : authoring'[b] # NoRequest} /\ course = "draft"
    BY <2>1
  <2>. QED BY <2>1, <2>2, <2>4, <2>5, <2>6
<1>5. ASSUME NEW a \in Author, Publish(a) PROVE AloneIInv'
  <2>1. authoring[a] # NoRequest
    BY <1>5 DEF Publish, NoRequest
  <2>. QED BY <1>2, <1>5, <2>1 DEF Publish, CourseTypes
<1>6. ASSUME NEW a \in Author, DropRequest(a) PROVE AloneIInv'
  <2>1. authoring' = [authoring EXCEPT ![a] = NoRequest]
    BY <1>6 DEF DropRequest, Answer
  <2>. QED BY <1>6, <2>1, AnsweredOne DEF DropRequest, CourseTypes
<1>7. ASSUME NEW a \in Author, NEW c \in Chapter, AddModule(a, c) PROVE AloneIInv'
  <2>1. authoring[a] # NoRequest
    BY <1>7 DEF AddModule, NoRequest
  <2>. QED BY <1>2, <1>7, <2>1 DEF AddModule, CourseTypes
<1>8. ASSUME NEW a \in Author, NEW x \in Slot, AddLesson(a, x) PROVE AloneIInv'
  <2>1. authoring[a] # NoRequest
    BY <1>8 DEF AddLesson, NoRequest
  <2>. QED BY <1>2, <1>8, <2>1 DEF AddLesson, CourseTypes
<1>9. CASE LinkCourse
  BY <1>9 DEF LinkCourse, CourseTypes
<1>10. CASE UNCHANGED learningvars
  BY <1>1, <1>10 DEF learningvars, authored
<1>11. CASE \E learners \in SUBSET Learner \ {{}} : BulkEnrol(learners)
  BY <1>1, <1>11 DEF BulkEnrol
<1>12. ASSUME NEW l \in Learner,
              \/ ReadForProgress(l) \/ ReadForCompletion(l) \/ CompleteEnrolment(l) \/ DropStudy(l)
              \/ \E x \in Slot : PracticeAttempt(l, x) \/ \E done \in BOOLEAN : SaveProgress(l, x, done)
       PROVE  AloneIInv'
  BY <1>1, <1>12 DEF ReadForProgress, ReadForCompletion, CompleteEnrolment, DropStudy, PracticeAttempt,
                     SaveProgress
<1>. QED
  BY <1>3, <1>4, <1>5, <1>6, <1>7, <1>8, <1>9, <1>10, <1>11, <1>12 DEF LearningNext

(* Where authors take turns, the checksum of a published course is of the  *)
(* lessons it serves, all of them, for ever: what learning.ts:281-283 says *)
(* of every publication is lost to a second author's request alone, whose  *)
(* lesson comes between the reading of the lessons and the UPDATE, or      *)
(* after it.                                                               *)
THEOREM FrozenIsServed == LearningSpec /\ []AloneAtWork => []FrozenServed
<1>1. LearningInit => AloneIInv
  BY DEF LearningInit, AloneIInv, FrozenServed, UnderWay, CourseTypes, NoRequest, Slot
<1>2. AloneIInv => FrozenServed
  BY DEF AloneIInv
<1>. QED BY <1>1, <1>2, AloneStep, PTL DEF LearningSpec

(* Whoever is, or is about to be, further than enrolled has been through a *)
(* lesson; progress is never taken back, and lessons stay.                 *)
StudyIInv ==
  /\ enrolment \in [Learner -> Enrolment]
  /\ studying \in [Learner -> [progress : Enrolment, completion : {"none", "in_progress"}]]
  /\ \A l \in Learner :
       enrolment[l] \in {"in_progress", "completed"} \/ studying[l].completion # "none"
         => \E x \in lessons : <<l, x>> \in DOMAIN progress

LEMMA StudyInit == ASSUME LearningInit PROVE StudyIInv
  BY DEF LearningInit, StudyIInv, NoStudy, Enrolment

LEMMA StudyStep == ASSUME StudyIInv, [LearningNext]_learningvars PROVE StudyIInv'
<1>. USE DEF StudyIInv
<1>1. ASSUME UNCHANGED learned, lessons \subseteq lessons' PROVE StudyIInv'
  BY <1>1 DEF learned
<1>2. ASSUME NEW a \in Author,
             \/ ReadDraft(a) \/ ReadModules(a) \/ ReadLessons(a) \/ Publish(a) \/ DropRequest(a)
             \/ (\E c \in Chapter : AddModule(a, c)) \/ \E x \in Slot : AddLesson(a, x)
      PROVE  StudyIInv'
  BY <1>1, <1>2 DEF ReadDraft, ReadModules, ReadLessons, Publish, DropRequest, AddModule, AddLesson
<1>3. CASE LinkCourse \/ UNCHANGED learningvars
  BY <1>1, <1>3 DEF LinkCourse, learningvars, learned
<1>4. CASE \E learners \in SUBSET Learner \ {{}} : BulkEnrol(learners)
  BY <1>4 DEF BulkEnrol, authored, Enrolment
<1>5. ASSUME NEW l \in Learner, ReadForProgress(l) \/ DropStudy(l) PROVE StudyIInv'
  BY <1>5 DEF ReadForProgress, DropStudy, authored, NoStudy, Enrolment
<1>6. ASSUME NEW l \in Learner, ReadForCompletion(l) PROVE StudyIInv'
  <2>1. enrolment[l] = "in_progress"
    BY <1>6 DEF ReadForCompletion, EnrolmentTransition
  <2>. QED BY <1>6, <2>1 DEF ReadForCompletion, authored
<1>7. ASSUME NEW l \in Learner, CompleteEnrolment(l) PROVE StudyIInv'
  BY <1>7 DEF CompleteEnrolment, authored, Enrolment
<1>8. ASSUME NEW l \in Learner, NEW x \in Slot, PracticeAttempt(l, x) PROVE StudyIInv'
  BY <1>8 DEF PracticeAttempt, authored
<1>9. ASSUME NEW l \in Learner, NEW x \in Slot, NEW done \in BOOLEAN, SaveProgress(l, x, done)
      PROVE  StudyIInv'
  <2>1. /\ lessons' = lessons /\ x \in lessons
        /\ DOMAIN progress' = DOMAIN progress \cup {<<l, x>>}
        /\ enrolment' = enrolment \/ enrolment' = [enrolment EXCEPT ![l] = "in_progress"]
        /\ studying' = [studying EXCEPT ![l].progress = "none"]
    BY <1>9 DEF SaveProgress, authored
  <2>2. /\ enrolment' \in [Learner -> Enrolment]
        /\ studying' \in [Learner -> [progress : Enrolment, completion : {"none", "in_progress"}]]
    BY <2>1 DEF Enrolment
  <2>3. ASSUME NEW k \in Learner,
               enrolment'[k] \in {"in_progress", "completed"} \/ studying'[k].completion # "none"
        PROVE  \E y \in lessons' : <<k, y>> \in DOMAIN progress'
    BY <2>1, <2>3
  <2>. QED BY <2>2, <2>3
<1>. QED BY <1>2, <1>3, <1>4, <1>5, <1>6, <1>7, <1>8, <1>9 DEF LearningNext

(* Nobody completes a course he has not begun: the requests of a learner    *)
(* write what an earlier read of his enrolment allowed, and may put a       *)
(* completed one back, but never complete one without a lesson's progress   *)
(* (org/learning.ts:675).                                                   *)
THEOREM CompletionsBegun == LearningSpec => []CompletedHasBegun
<1>1. StudyIInv => CompletedHasBegun
  BY DEF StudyIInv, CompletedHasBegun
<1>. QED BY <1>1, StudyInit, StudyStep, PTL DEF LearningSpec

(* The types that no other invariant here gives. *)
CourseTyped ==
  /\ linked \in BOOLEAN
  /\ DOMAIN progress \subseteq Learner \X lessons
  /\ progress \in [DOMAIN progress -> BOOLEAN]
  /\ attempts \subseteq Learner \X (lessons \cap Practice)

LEMMA LearningTyped == LearningSpec => []LearningTypeOK
<1>1. LearningInit => CourseTyped
  BY DEF LearningInit, CourseTyped
<1>2. CourseTyped /\ [LearningNext]_learningvars => CourseTyped'
  <2>. SUFFICES ASSUME CourseTyped, [LearningNext]_learningvars PROVE CourseTyped'
    OBVIOUS
  <2>. USE DEF CourseTyped
  <2>1. ASSUME NEW a \in Author,
               \/ ReadDraft(a) \/ ReadModules(a) \/ ReadLessons(a) \/ Publish(a) \/ DropRequest(a)
               \/ (\E c \in Chapter : AddModule(a, c)) \/ \E x \in Slot : AddLesson(a, x)
        PROVE  CourseTyped'
    BY <2>1 DEF ReadDraft, ReadModules, ReadLessons, Publish, DropRequest, AddModule, AddLesson, learned
  <2>2. CASE LinkCourse \/ UNCHANGED learningvars
    BY <2>2 DEF LinkCourse, learningvars, learned
  <2>3. CASE \E learners \in SUBSET Learner \ {{}} : BulkEnrol(learners)
    BY <2>3 DEF BulkEnrol, authored
  <2>4. ASSUME NEW l \in Learner,
               ReadForProgress(l) \/ ReadForCompletion(l) \/ CompleteEnrolment(l) \/ DropStudy(l)
        PROVE  CourseTyped'
    BY <2>4 DEF ReadForProgress, ReadForCompletion, CompleteEnrolment, DropStudy, authored
  <2>5. ASSUME NEW l \in Learner, NEW x \in Slot, PracticeAttempt(l, x) PROVE CourseTyped'
    BY <2>5 DEF PracticeAttempt, authored
  <2>6. ASSUME NEW l \in Learner, NEW x \in Slot, NEW done \in BOOLEAN, SaveProgress(l, x, done)
        PROVE  CourseTyped'
    <3>1. /\ progress' = [p \in DOMAIN progress \cup {<<l, x>>} |->
                            IF p = <<l, x>> THEN done ELSE progress[p]]
          /\ x \in lessons /\ UNCHANGED <<course, linked, lessons, attempts>>
      BY <2>6 DEF SaveProgress, authored
    <3>. QED BY <3>1
  <2>. QED BY <2>1, <2>2, <2>3, <2>4, <2>5, <2>6 DEF LearningNext
<1>3. LearningSpec => [](StudyIInv /\ CourseIInv)
  BY StudyInit, StudyStep, CourseInit, CourseStep, PTL DEF LearningSpec
<1>4. StudyIInv /\ CourseIInv /\ CourseTyped => LearningTypeOK
  BY DEF StudyIInv, CourseIInv, CourseTypes, CourseTyped, LearningTypeOK, Enrolment
<1>. QED BY <1>1, <1>2, <1>3, <1>4, PTL DEF LearningSpec

-------------------------------------------------------------------------------
(* The retention policy. *)

PolicyIInv == RetentionFormTypeOK /\ PolicyAsAudited

LEMMA PolicyInit == ASSUME RetentionFormInit PROVE PolicyIInv
  BY DEF RetentionFormInit, PolicyIInv, RetentionFormTypeOK, PolicyAsAudited, Put

(* The policy and its entry are committed together, and the log only grows.*)
LEMMA CommitKeepsPolicy ==
  ASSUME PolicyIInv, NEW p \in putting, CommitPolicy(p) PROVE PolicyIInv'
<1>1. p.to \in Policy /\ p.by \in Editor /\ told \in Seq(Policy)
  BY DEF PolicyIInv, RetentionFormTypeOK, Put
<1>2. policy' = p.to /\ told' = Append(told, p.to) /\ putting' = {} /\ UNCHANGED <<waiting, form>>
  BY DEF CommitPolicy
<1>3. /\ told' \in Seq(Policy) /\ told' # <<>> /\ told'[Len(told')] = policy'
      /\ DOMAIN told' = DOMAIN told \cup {Len(told) + 1}
      /\ \A i \in DOMAIN told : told'[i] = told[i]
      /\ told'[Len(told) + 1] = p.to
  BY <1>1, <1>2
<1>4. \A a \in Editor : updated'[a] = updated[a] \/ updated'[a] = {p.to}
  BY <1>1 DEF CommitPolicy, PolicyIInv, RetentionFormTypeOK
<1>5. updated' \in [Editor -> SUBSET Policy]
  BY <1>1 DEF CommitPolicy, PolicyIInv, RetentionFormTypeOK
<1>6. ASSUME NEW a \in Editor PROVE updated'[a] \subseteq {told'[i] : i \in DOMAIN told'}
  BY <1>3, <1>4 DEF PolicyIInv, PolicyAsAudited
<1>. QED BY <1>1, <1>2, <1>3, <1>5, <1>6 DEF PolicyIInv, RetentionFormTypeOK, PolicyAsAudited

LEMMA PolicyStep == ASSUME PolicyIInv, [RetentionFormNext]_retentionvars PROVE PolicyIInv'
<1>. USE DEF PolicyIInv, RetentionFormTypeOK, PolicyAsAudited
<1>1. ASSUME NEW a \in Editor, FillForm(a) PROVE PolicyIInv'
  BY <1>1 DEF FillForm
<1>2. ASSUME NEW a \in Editor, NEW p \in Policy, EditForm(a, p) PROVE PolicyIInv'
  BY <1>2 DEF EditForm
<1>3. ASSUME NEW a \in Editor, SavePolicy(a) PROVE PolicyIInv'
  <2>1. [by |-> a, to |-> form[a]] \in Put
    BY <1>3 DEF SavePolicy, Put
  <2>. QED BY <1>3, <2>1 DEF SavePolicy
<1>4. ASSUME NEW p \in waiting, UpdatePolicy(p) PROVE PolicyIInv'
  BY <1>4 DEF UpdatePolicy
<1>5. ASSUME NEW p \in putting, RollbackPolicy(p) PROVE PolicyIInv'
  BY <1>5 DEF RollbackPolicy
<1>6. CASE UNCHANGED retentionvars
  BY <1>6 DEF retentionvars
<1>. QED BY <1>1, <1>2, <1>3, <1>4, <1>5, <1>6, CommitKeepsPolicy DEF RetentionFormNext

(* The policy in force is the one the audit log last tells of, and a page  *)
(* says it has updated the policy to nothing the log does not tell of,     *)
(* however many administrators save at once (org/compliance.ts).           *)
THEOREM PolicyAudited == RetentionFormSpec => []PolicyAsAudited
<1>1. RetentionFormSpec => []PolicyIInv
  BY PolicyInit, PolicyStep, PTL DEF RetentionFormSpec
<1>2. PolicyIInv => PolicyAsAudited
  BY DEF PolicyIInv
<1>. QED BY <1>1, <1>2, PTL

-------------------------------------------------------------------------------
(* Types. *)

(* Every variable of the records keeps its type: a status the database's   *)
(* constraint allows, a score between the bounds or none, rows of sittings *)
(* that are there, progress in lessons that are there.                     *)
THEOREM RecordsTyped ==
  /\ MixedSpec => []MixedTypeOK
  /\ DataSpec => []DataTypeOK
  /\ LearningSpec => []LearningTypeOK
  /\ RetentionFormSpec => []RetentionFormTypeOK
<1>1. RetentionFormSpec => []RetentionFormTypeOK
  <2>1. PolicyIInv => RetentionFormTypeOK
    BY DEF PolicyIInv
  <2>. QED BY <2>1, PolicyInit, PolicyStep, PTL DEF RetentionFormSpec
<1>. QED BY <1>1, MixedTyped, DataTyped, LearningTyped, PTL

===============================================================================
