---------------------------- MODULE ReviewV2Proofs ----------------------------
(***************************************************************************)
(* Theorems about the review, for any reviewers, dimensions and anchors.   *)
(***************************************************************************)
EXTENDS ReviewV2, TLAPS

-------------------------------------------------------------------------------
(* The inductive invariant. *)

(* The types of what the review keeps for itself.  A session that has no   *)
(* manifest (state "none") may share the row, see MixedReviews.             *)
OwnTypeOK ==
  /\ state \in {"none", "submitted", "reviewing", "finalised"}
  /\ calibrated \subseteq Reviewer
  /\ assigned \in [Round -> Reviewer \cup {Nobody}]
  /\ completed \in [Round -> BOOLEAN]
  /\ anchor \in [Round -> [Dimension -> Anchor \cup {NoAnchor}]]
  /\ adjudication \in {"none", "open", "closed"}
  /\ closing \in BOOLEAN
  /\ appeals \subseteq Appeal
  /\ appealing \in Appeal \cup {NoAppeal}
  /\ seen \subseteq User \X Round

(* Round 1 is filled first, by somebody else than round 2, and the first   *)
(* assignment begins the review.                                           *)
RoundsFilled ==
  /\ state \in {"none", "submitted"} => assigned[1] = Nobody
  /\ assigned[2] # Nobody => assigned[1] # Nobody /\ assigned[1] # assigned[2]

(* Only the second round opens an adjudication, and only an open one is    *)
(* being closed.                                                           *)
Adjudicated ==
  /\ adjudication # "none" => completed[2]
  /\ closing => adjudication = "open"

SeenByAdmins == \A p \in seen : p[1] \in Admin

(* A decided session has both its reviewers, and whoever an appeal names   *)
(* from then on is neither.                                                *)
AppealStands ==
  \A c \in appeals \cup {appealing} :
    c.late => state = "finalised" /\ c.reviewer \notin {assigned[r] : r \in Round}

(* What the review keeps whatever becomes of the V1 status it writes.      *)
OwnInv ==
  /\ OwnTypeOK
  /\ RoundsFilled /\ CompletedRoundsWhole /\ Adjudicated
  /\ FinalisedExactly /\ NoDisagreementUnresolved
  /\ SeenByAdmins /\ AppealStands

(* The two status columns are written together. *)
Paired ==
  \/ state = "submitted" /\ status = "submitted"
  \/ state = "reviewing" /\ status = "under_review"
  \/ state = "finalised" /\ status = "review_finalised"

IInv == OwnInv /\ Paired

-------------------------------------------------------------------------------
(* A submitted session nobody was assigned to. *)
LEMMA InitOwnInv == ASSUME Init PROVE OwnInv
<1>1. OwnTypeOK
  BY ReviewAssumption DEF Init, OwnTypeOK, NoAppeal, Round
<1>2. RoundsFilled /\ CompletedRoundsWhole /\ Adjudicated
  BY DEF Init, RoundsFilled, CompletedRoundsWhole, Adjudicated, Round
<1>3. FinalisedExactly /\ NoDisagreementUnresolved
  BY DEF Init, FinalisedExactly, NoDisagreementUnresolved, Round
<1>4. SeenByAdmins /\ AppealStands
  BY DEF Init, SeenByAdmins, AppealStands, NoAppeal
<1>. QED BY <1>1, <1>2, <1>3, <1>4 DEF OwnInv

(* Calibration records are read by assignment only. *)
LEMMA CalibrationKeeps ==
  ASSUME OwnInv, NEW u \in Reviewer, Calibrate(u) \/ LoseCalibration(u)
  PROVE  OwnInv'
<1>1. UNCHANGED <<state, status, assigned, completed, anchor, adjudication, closing,
                  appeals, appealing, seen>>
  BY DEF Calibrate, LoseCalibration
<1>2. calibrated' \subseteq Reviewer
  BY DEF Calibrate, LoseCalibration, OwnInv, OwnTypeOK
<1>3. OwnTypeOK'
  BY <1>1, <1>2 DEF OwnInv, OwnTypeOK
<1>4. RoundsFilled' /\ CompletedRoundsWhole' /\ Adjudicated'
  BY <1>1 DEF OwnInv, RoundsFilled, CompletedRoundsWhole, Adjudicated
<1>5. FinalisedExactly' /\ NoDisagreementUnresolved'
  BY <1>1 DEF OwnInv, FinalisedExactly, NoDisagreementUnresolved
<1>6. SeenByAdmins' /\ AppealStands'
  BY <1>1 DEF OwnInv, SeenByAdmins, AppealStands
<1>. QED BY <1>3, <1>4, <1>5, <1>6 DEF OwnInv

(* Assignment fills a free round, before the decision. *)
LEMMA AssignKeeps ==
  ASSUME OwnInv, NEW u \in Reviewer, NEW r \in Round, Assign(u, r)
  PROVE  OwnInv'
<1>1. /\ OwnTypeOK /\ state # "finalised" /\ state' = "reviewing"
      /\ assigned[r] = Nobody /\ assigned' = [assigned EXCEPT ![r] = u]
      /\ UNCHANGED <<calibrated, completed, anchor, adjudication, closing, appeals, appealing, seen>>
  BY DEF OwnInv, Assign
<1>2. u # Nobody
  BY ReviewAssumption DEF User
<1>3. ~completed[r]
  BY <1>1 DEF OwnInv, CompletedRoundsWhole
<1>4. OwnTypeOK'
  BY <1>1 DEF OwnTypeOK, Assign, Round
<1>5. RoundsFilled'
  BY <1>1, <1>2 DEF OwnInv, OwnTypeOK, Assign, RoundsFilled, Round, Other
<1>6. CompletedRoundsWhole'
  <2>. SUFFICES ASSUME NEW q \in Round, completed[q]
                PROVE  /\ assigned'[q] # Nobody /\ assigned'[q] # assigned'[Other(q)]
                       /\ \A d \in Dimension : anchor[q][d] # NoAnchor
    BY <1>1 DEF CompletedRoundsWhole
  <2>1. q # r /\ r = Other(q) /\ q = Other(r)
    BY <1>3 DEF Round, Other
  <2>2. assigned[q] # Nobody /\ \A d \in Dimension : anchor[q][d] # NoAnchor
    BY DEF OwnInv, CompletedRoundsWhole
  <2>3. assigned[q] # u
    BY <2>1 DEF Assign
  <2>. QED BY <1>1, <2>1, <2>2, <2>3 DEF OwnTypeOK
<1>7. Adjudicated'
  BY <1>1 DEF OwnInv, Adjudicated
<1>8. FinalisedExactly' /\ NoDisagreementUnresolved'
  BY <1>1 DEF OwnInv, FinalisedExactly, NoDisagreementUnresolved
<1>9. SeenByAdmins' /\ AppealStands'
  BY <1>1 DEF OwnInv, SeenByAdmins, AppealStands
<1>. QED BY <1>4, <1>5, <1>6, <1>7, <1>8, <1>9 DEF OwnInv

(* The bundle shows another's round to administrators only. *)
LEMMA ReadBundleKeeps ==
  ASSUME OwnInv, NEW u \in User, ReadBundle(u)
  PROVE  OwnInv'
<1>1. UNCHANGED <<state, status, calibrated, assigned, completed, anchor, adjudication,
                  closing, appeals, appealing>>
  BY DEF ReadBundle
<1>2. \A p \in seen' : p \in seen \/ (p \in User \X Round /\ p[1] \in Admin)
  BY DEF ReadBundle, Visible, Mine
<1>3. OwnTypeOK'
  BY <1>1, <1>2 DEF OwnInv, OwnTypeOK
<1>4. RoundsFilled' /\ CompletedRoundsWhole' /\ Adjudicated'
  BY <1>1 DEF OwnInv, RoundsFilled, CompletedRoundsWhole, Adjudicated
<1>5. FinalisedExactly' /\ NoDisagreementUnresolved'
  BY <1>1 DEF OwnInv, FinalisedExactly, NoDisagreementUnresolved
<1>6. SeenByAdmins' /\ AppealStands'
  BY <1>1, <1>2 DEF OwnInv, SeenByAdmins, AppealStands
<1>. QED BY <1>3, <1>4, <1>5, <1>6 DEF OwnInv

(* A dimension is written before the decision and in a round still open.  *)
LEMMA SaveDimensionKeeps ==
  ASSUME OwnInv, NEW u \in User, NEW r \in Round, NEW d \in Dimension, NEW a \in Anchor,
         SaveDimension(u, r, d, a)
  PROVE  OwnInv'
<1>1. /\ state = "reviewing" /\ ~completed[r]
      /\ anchor' = [anchor EXCEPT ![r][d] = a]
      /\ UNCHANGED <<state, status, calibrated, assigned, completed, adjudication, closing,
                     appeals, appealing, seen>>
  BY DEF SaveDimension, Writable, WorksOn
<1>2. anchor' \in [Round -> [Dimension -> Anchor \cup {NoAnchor}]]
  BY <1>1 DEF OwnInv, OwnTypeOK
<1>3. OwnTypeOK'
  BY <1>1, <1>2 DEF OwnInv, OwnTypeOK
<1>4. \A q \in Round : completed[q] => anchor'[q] = anchor[q]
  BY <1>1 DEF OwnInv, OwnTypeOK
<1>5. RoundsFilled' /\ Adjudicated'
  BY <1>1 DEF OwnInv, RoundsFilled, Adjudicated
<1>6. CompletedRoundsWhole'
  BY <1>1, <1>4 DEF OwnInv, CompletedRoundsWhole
<1>7. FinalisedExactly' /\ NoDisagreementUnresolved'
  BY <1>1 DEF OwnInv, FinalisedExactly, NoDisagreementUnresolved
<1>8. SeenByAdmins' /\ AppealStands'
  BY <1>1 DEF OwnInv, SeenByAdmins, AppealStands
<1>. QED BY <1>3, <1>5, <1>6, <1>7, <1>8 DEF OwnInv

(* A round completes: the first changes nothing else, the second decides   *)
(* the session or opens its only adjudication.                             *)
LEMMA FinaliseKeeps ==
  ASSUME OwnInv, NEW u \in User, NEW r \in Round, Finalise(u, r)
  PROVE  OwnInv'
<1>1. /\ OwnTypeOK /\ assigned[r] = u /\ ~completed[r]
      /\ \A d \in Dimension : anchor[r][d] # NoAnchor
      /\ completed' = [completed EXCEPT ![r] = TRUE]
      /\ UNCHANGED <<calibrated, assigned, anchor, closing, appeals, appealing, seen>>
  BY DEF OwnInv, Finalise, WorksOn, Whole
<1>2. u # Nobody
  BY ReviewAssumption
<1>3. CASE r = 1
  <2>1. UNCHANGED <<state, status, adjudication>>
    BY <1>3 DEF Finalise, Outcome, SecondReviewRequired, StateAfter
  <2>2. completed'[2] = completed[2] /\ completed' \in [Round -> BOOLEAN]
    BY <1>1, <1>3 DEF OwnTypeOK, Round
  <2>3. OwnTypeOK'
    BY <1>1, <2>1, <2>2 DEF OwnTypeOK
  <2>4. assigned[1] # assigned[2]
    BY <1>1, <1>2, <1>3 DEF OwnInv, RoundsFilled
  <2>5. CompletedRoundsWhole'
    BY <1>1, <1>2, <1>3, <2>4 DEF OwnInv, CompletedRoundsWhole, OwnTypeOK, Round, Other
  <2>6. RoundsFilled' /\ Adjudicated'
    BY <1>1, <2>1, <2>2 DEF OwnInv, RoundsFilled, Adjudicated
  <2>7. FinalisedExactly' /\ NoDisagreementUnresolved'
    BY <1>1, <2>1, <2>2 DEF OwnInv, FinalisedExactly, NoDisagreementUnresolved
  <2>8. SeenByAdmins' /\ AppealStands'
    BY <1>1, <2>1 DEF OwnInv, SeenByAdmins, AppealStands
  <2>. QED BY <2>3, <2>5, <2>6, <2>7, <2>8 DEF OwnInv
<1>4. CASE r = 2
  <2>1. assigned[1] # Nobody /\ assigned[1] # assigned[2] /\ completed'[2]
        /\ completed' \in [Round -> BOOLEAN]
    BY <1>1, <1>2, <1>4 DEF OwnInv, RoundsFilled, OwnTypeOK, Round
  <2>2. state = "reviewing" /\ adjudication = "none" /\ ~closing
    BY <1>1, <1>4, <2>1 DEF OwnInv, OwnTypeOK, RoundsFilled, FinalisedExactly, Adjudicated
  <2>3. \/ Disputed # {} /\ state' = state /\ adjudication' = "open"
        \/ Disputed = {} /\ state' = "finalised" /\ adjudication' = adjudication
    BY <1>4 DEF Finalise, Outcome, StateAfter
  <2>4. OwnTypeOK'
    BY <1>1, <2>1, <2>3 DEF OwnTypeOK
  <2>5. RoundsFilled' /\ Adjudicated'
    BY <1>1, <2>1, <2>2, <2>3 DEF RoundsFilled, Adjudicated
  <2>6. CompletedRoundsWhole'
    BY <1>1, <1>2, <1>4, <2>1 DEF OwnInv, CompletedRoundsWhole, OwnTypeOK, Round, Other
  <2>7. FinalisedExactly'
    BY <2>1, <2>2, <2>3 DEF FinalisedExactly
  <2>8. NoDisagreementUnresolved'
    BY <1>1, <2>2, <2>3 DEF NoDisagreementUnresolved, Disputed
  <2>9. SeenByAdmins' /\ AppealStands'
    BY <1>1, <2>2 DEF OwnInv, SeenByAdmins, AppealStands
  <2>. QED BY <2>4, <2>5, <2>6, <2>7, <2>8, <2>9 DEF OwnInv
<1>. QED BY <1>3, <1>4 DEF Round

(* Closing: between the lock and the COMMIT the adjudication stays open.   *)
LEMMA CloseKeeps ==
  ASSUME OwnInv, CloseLock \/ CloseCommit \/ CloseAbort
  PROVE  OwnInv'
<1>1. UNCHANGED <<calibrated, assigned, completed, anchor, appeals, appealing, seen>>
  BY DEF CloseLock, CloseCommit, CloseAbort
<1>2. \/ UNCHANGED <<state, status, adjudication>>
      \/ /\ closing /\ adjudication' = "closed" /\ ~closing'
         /\ state' = "finalised" /\ status' = "review_finalised"
  BY DEF CloseLock, CloseCommit, CloseAbort
<1>3. closing' \in BOOLEAN /\ (closing' => adjudication' = "open")
  BY DEF CloseLock, CloseCommit, CloseAbort
<1>4. OwnTypeOK'
  BY <1>1, <1>2, <1>3 DEF OwnInv, OwnTypeOK
<1>5. RoundsFilled' /\ Adjudicated'
  BY <1>1, <1>2, <1>3 DEF OwnInv, RoundsFilled, Adjudicated
<1>6. CompletedRoundsWhole'
  BY <1>1 DEF OwnInv, CompletedRoundsWhole
<1>7. FinalisedExactly' /\ NoDisagreementUnresolved'
  BY <1>1, <1>2 DEF OwnInv, Adjudicated, FinalisedExactly, NoDisagreementUnresolved
<1>8. SeenByAdmins' /\ AppealStands'
  BY <1>1, <1>2 DEF OwnInv, SeenByAdmins, AppealStands
<1>. QED BY <1>4, <1>5, <1>6, <1>7, <1>8 DEF OwnInv

(* An appeal reads the assignments, which a decided session keeps.         *)
LEMMA AppealKeeps ==
  ASSUME OwnInv, \/ \E u \in User : AppealRead(u)
               \/ AppealInsert \/ AppealAbort
  PROVE  OwnInv'
<1>1. UNCHANGED <<state, status, calibrated, assigned, completed, anchor, adjudication,
                  closing, seen>>
  BY DEF AppealRead, AppealInsert, AppealAbort
<1>2. \/ \E u \in User, late \in BOOLEAN :
           /\ late => state = "finalised"
           /\ appeals' = appeals /\ u \notin Reviewed
           /\ appealing' = [reviewer |-> u, late |-> late]
      \/ appeals' \in {appeals, appeals \cup {appealing}} /\ appealing # NoAppeal /\ appealing' = NoAppeal
  <2>1. ASSUME NEW u \in User, AppealRead(u)
        PROVE  \E late \in BOOLEAN :
                 /\ late => state = "finalised"
                 /\ appeals' = appeals /\ u \notin Reviewed
                 /\ appealing' = [reviewer |-> u, late |-> late]
    <3>1. CASE state = "finalised"
      <4>1. appealing' = [reviewer |-> u, late |-> TRUE]
        BY <2>1, <3>1, Zenon DEF AppealRead
      <4>. QED BY <2>1, <3>1, <4>1 DEF AppealRead
    <3>2. CASE state # "finalised"
      <4>1. (state = "finalised") = FALSE
        BY <3>2
      <4>2. appealing' = [reviewer |-> u, late |-> FALSE]
        BY <2>1, <4>1, Zenon DEF AppealRead
      <4>. QED BY <2>1, <4>2 DEF AppealRead
    <3>. QED BY <3>1, <3>2
  <2>2. CASE AppealInsert \/ AppealAbort
    BY <2>2 DEF AppealInsert, AppealAbort
  <2>. QED BY <2>1, <2>2
<1>3. appeals' \subseteq Appeal /\ appealing' \in Appeal \cup {NoAppeal}
  BY <1>2 DEF OwnInv, OwnTypeOK, Appeal
<1>4. OwnTypeOK'
  BY <1>1, <1>3 DEF OwnInv, OwnTypeOK
<1>5. RoundsFilled' /\ CompletedRoundsWhole' /\ Adjudicated'
  BY <1>1 DEF OwnInv, RoundsFilled, CompletedRoundsWhole, Adjudicated
<1>6. FinalisedExactly' /\ NoDisagreementUnresolved' /\ SeenByAdmins'
  BY <1>1 DEF OwnInv, FinalisedExactly, NoDisagreementUnresolved, SeenByAdmins
<1>7. AppealStands'
  BY <1>1, <1>2 DEF OwnInv, AppealStands, Reviewed, NoAppeal
<1>. QED BY <1>4, <1>5, <1>6, <1>7 DEF OwnInv

(* Every step of the review keeps what is the review's own, whatever the   *)
(* status says.                                                             *)
THEOREM StepOwnInv == ASSUME OwnInv, [Next]_vars PROVE OwnInv'
<1>1. CASE UNCHANGED vars
  BY <1>1 DEF vars, OwnInv, OwnTypeOK, RoundsFilled, CompletedRoundsWhole, Adjudicated,
              FinalisedExactly, NoDisagreementUnresolved, SeenByAdmins, AppealStands
<1>2. CASE Next
  BY <1>2, CalibrationKeeps, AssignKeeps, ReadBundleKeeps, SaveDimensionKeeps, FinaliseKeeps,
     CloseKeeps, AppealKeeps DEF Next
<1>. QED BY <1>1, <1>2

(* Where nobody else writes the status, it follows the state. *)
LEMMA StepPaired == ASSUME IInv, [Next]_vars PROVE Paired'
<1>1. CASE UNCHANGED <<state, status>>
  BY <1>1 DEF IInv, Paired
<1>2. ASSUME NEW u \in Reviewer, NEW r \in Round, Assign(u, r) PROVE Paired'
  BY <1>2 DEF IInv, Paired, Assign
<1>3. ASSUME NEW u \in User, NEW r \in Round, Finalise(u, r) PROVE Paired'
  BY <1>1, <1>3 DEF Finalise, StateAfter, Paired
<1>4. CASE CloseCommit
  BY <1>4 DEF CloseCommit, Paired
<1>. QED BY <1>1, <1>2, <1>3, <1>4
         DEF Next, vars, Calibrate, LoseCalibration, ReadBundle, AppealRead, SaveDimension,
             CloseLock, CloseAbort, AppealInsert, AppealAbort

(* The invariant holds in every reachable state. *)
THEOREM Invariance == Spec => []IInv
<1>1. Init => IInv
  BY InitOwnInv DEF Init, IInv, Paired
<1>2. IInv /\ [Next]_vars => IInv'
  BY StepOwnInv, StepPaired DEF IInv
<1>. QED BY <1>1, <1>2, PTL DEF Spec

(* Every variable keeps its type. *)
THEOREM TypeCorrect == Spec => []TypeOK
<1>1. IInv => TypeOK
  BY DEF IInv, OwnInv, OwnTypeOK, Paired, TypeOK
<1>. QED BY <1>1, Invariance, PTL

(* finalise and the adjudication's close decide a session exactly when     *)
(* the second round is in and nothing is open.                             *)
THEOREM DecidedBySecondRound == Spec => []FinalisedExactly
<1>1. IInv => FinalisedExactly
  BY DEF IInv, OwnInv
<1>. QED BY <1>1, Invariance, PTL

(* No order of the two rounds lets a material disagreement through.        *)
THEOREM DisagreementsResolved == Spec => []NoDisagreementUnresolved
<1>1. IInv => NoDisagreementUnresolved
  BY DEF IInv, OwnInv
<1>. QED BY <1>1, Invariance, PTL

(* A completed round is whole and by one reviewer of its own.              *)
THEOREM RoundsWhole == Spec => []CompletedRoundsWhole
<1>1. IInv => CompletedRoundsWhole
  BY DEF IInv, OwnInv
<1>. QED BY <1>1, Invariance, PTL

(* The bundle keeps reviewers who are not administrators blind.            *)
THEOREM Blindness == Spec => []BlindUnlessAdmin
<1>1. IInv => BlindUnlessAdmin
  BY DEF IInv, OwnInv, SeenByAdmins, BlindUnlessAdmin
<1>. QED BY <1>1, Invariance, PTL

(* An appeal of a decided session goes to an independent reviewer.         *)
THEOREM AppealsIndependent == Spec => []LateAppealsIndependent
<1>1. IInv => LateAppealsIndependent
  BY DEF IInv, OwnInv, AppealStands, LateAppealsIndependent
<1>. QED BY <1>1, Invariance, PTL

(* "round-2 reviewers never see round-1 anchors until they complete" holds *)
(* where nobody holds both roles: the bundle shows the other round to      *)
(* administrators only (v2/review.ts:250), and assign takes reviewers.     *)
THEOREM BlindWithOneRole ==
  ASSUME Reviewer \cap Admin = {}
  PROVE  Spec => []SecondReviewIsBlind
<1>1. IInv => SecondReviewIsBlind
  <2>. SUFFICES ASSUME IInv PROVE <<assigned[2], 1>> \notin seen
    BY DEF SecondReviewIsBlind
  <2>1. assigned[2] \in Reviewer \cup {Nobody}
    BY DEF IInv, OwnInv, OwnTypeOK, Round
  <2>2. assigned[2] \notin Admin
    BY <2>1, ReviewAssumption DEF User
  <2>. QED BY <2>2 DEF IInv, OwnInv, SeenByAdmins, Round, Other
<1>. QED BY <1>1, Invariance, PTL

(* What a step leaves of a completed round: everything. *)
RoundsKept ==
  \A r \in Round : completed[r] =>
    completed'[r] /\ assigned'[r] = assigned[r] /\ anchor'[r] = anchor[r]

(* No handler writes a completed round, whoever runs it (v2/review.ts asks *)
(* for completed_at IS NULL under the lock).                               *)
THEOREM StepRoundsKept == ASSUME OwnInv, [Next]_vars PROVE RoundsKept
<1>. SUFFICES ASSUME NEW q \in Round, completed[q]
              PROVE  completed'[q] /\ assigned'[q] = assigned[q] /\ anchor'[q] = anchor[q]
  BY DEF RoundsKept
<1>1. OwnTypeOK /\ assigned[q] # Nobody
  BY DEF OwnInv, CompletedRoundsWhole
<1>2. ASSUME NEW u \in Reviewer, NEW r \in Round, Assign(u, r)
      PROVE  UNCHANGED <<completed, anchor>> /\ assigned'[q] = assigned[q]
  BY <1>1, <1>2 DEF Assign, OwnTypeOK
<1>3. ASSUME NEW u \in User, NEW r \in Round, NEW d \in Dimension, NEW a \in Anchor,
             SaveDimension(u, r, d, a)
      PROVE  UNCHANGED <<completed, assigned>> /\ anchor'[q] = anchor[q]
  BY <1>1, <1>3 DEF SaveDimension, WorksOn, OwnTypeOK
<1>4. ASSUME NEW u \in User, NEW r \in Round, Finalise(u, r)
      PROVE  UNCHANGED <<assigned, anchor>> /\ completed'[q] = completed[q]
  BY <1>1, <1>4 DEF Finalise, WorksOn, OwnTypeOK
<1>5. CASE UNCHANGED <<assigned, completed, anchor>>
  BY <1>5
<1>6. \/ UNCHANGED <<assigned, completed, anchor>>
      \/ \E u \in Reviewer, r \in Round : Assign(u, r)
      \/ \E u \in User, r \in Round :
           \/ \E d \in Dimension, a \in Anchor : SaveDimension(u, r, d, a)
           \/ Finalise(u, r)
  BY DEF Next, vars, Calibrate, LoseCalibration, ReadBundle, AppealRead, CloseLock,
              CloseCommit, CloseAbort, AppealInsert, AppealAbort
<1>. QED BY <1>2, <1>3, <1>4, <1>5, <1>6

(* No handler writes a completed round again. *)
THEOREM RoundsStand == Spec => CompletedRoundStands
<1>1. IInv => OwnInv
  BY DEF IInv
<1>2. OwnInv /\ [Next]_vars => [RoundsKept]_vars
  BY StepRoundsKept
<1>. QED BY <1>1, <1>2, Invariance, PTL DEF Spec, CompletedRoundStands, RoundsKept

(* A session is decided on two completed reviews as long as the rounds are *)
(* finalised in their order, which finalise does not ask for               *)
(* (v2/review.ts:379): no appeal, adjudication or later save undoes the    *)
(* first round once the second has followed it.                            *)
THEOREM TwoReviewsInOrder ==
  Spec /\ [][~completed[2] /\ completed'[2] => completed[1]]_vars => []FinalisedOnTwoReviews
<1>. DEFINE InOrder == completed[2] => completed[1]
            Orderly == ~completed[2] /\ completed'[2] => completed[1]
<1>1. Init => InOrder
  BY DEF Init, Round
<1>2. ASSUME IInv, InOrder, [Next]_vars, [Orderly]_vars PROVE InOrder'
  <2>1. RoundsKept
    BY <1>2, StepRoundsKept DEF IInv
  <2>2. Orderly
    BY <1>2 DEF vars
  <2>. QED BY <1>2, <2>1, <2>2 DEF RoundsKept, Round
<1>3. IInv /\ InOrder => FinalisedOnTwoReviews
  BY DEF IInv, OwnInv, FinalisedExactly, FinalisedOnTwoReviews
<1>. HIDE DEF InOrder
<1>. QED BY <1>1, <1>2, <1>3, Invariance, PTL DEF Spec

(* The review's hand-written UPDATEs are transitions of both machines. *)
THEOREM MachinesWalked == Spec => WalksMachines
<1> DEFINE W == \/ state' = state /\ status' = status
                \/ /\ \E t \in SessionTransitionV2 : t[1] = state /\ t[3] = state'
                   /\ \E t \in SessionTransition : t[1] = status /\ t[3] = status'
<1>1. ASSUME IInv, [Next]_vars PROVE W
  <2>1. <<"submitted", "begin_review", "reviewing">> \in SessionTransitionV2
        /\ <<"reviewing", "finalise", "finalised">> \in SessionTransitionV2
    BY DEF SessionTransitionV2
  <2>2. <<"submitted", "begin_review", "under_review">> \in SessionTransition
        /\ <<"under_review", "finalise_review", "review_finalised">> \in SessionTransition
    BY DEF SessionTransition
  <2>3. CASE state = "submitted" /\ state' = "reviewing" /\ status = "submitted" /\ status' = "under_review"
    BY <2>1, <2>2, <2>3
  <2>4. CASE /\ state = "reviewing" /\ state' = "finalised"
             /\ status = "under_review" /\ status' = "review_finalised"
    BY <2>1, <2>2, <2>4
  <2>5. ASSUME NEW u \in Reviewer, NEW r \in Round, Assign(u, r)
        PROVE  W
    BY <1>1, <2>3, <2>5 DEF Assign, IInv, Paired
  <2>6. ASSUME NEW u \in User, NEW r \in Round, Finalise(u, r)
        PROVE  W
    <3>1. r = 2 => state = "reviewing"
      BY <1>1, <2>6, ReviewAssumption
         DEF Finalise, WorksOn, IInv, OwnInv, OwnTypeOK, RoundsFilled, FinalisedExactly
    <3>2. \/ UNCHANGED <<state, status>>
          \/ r = 2 /\ state' = "finalised" /\ status' = "review_finalised"
      BY <2>6 DEF Finalise, Outcome, SecondReviewRequired, StateAfter, Round
    <3>. QED BY <1>1, <2>4, <3>1, <3>2 DEF IInv, Paired
  <2>7. CASE CloseCommit
    <3>1. state = "reviewing" /\ status = "under_review"
      BY <1>1, <2>7, ReviewAssumption
         DEF CloseCommit, IInv, OwnInv, OwnTypeOK, Adjudicated, FinalisedExactly, CompletedRoundsWhole,
             RoundsFilled, Paired, Round
    <3>. QED BY <2>4, <2>7, <3>1 DEF CloseCommit
  <2>8. \/ UNCHANGED <<state, status>>
        \/ \E u \in Reviewer, r \in Round : Assign(u, r)
        \/ \E u \in User, r \in Round : Finalise(u, r)
        \/ CloseCommit
    BY <1>1 DEF Next, vars, Calibrate, LoseCalibration, ReadBundle, AppealRead, SaveDimension,
                CloseLock, CloseAbort, AppealInsert, AppealAbort
  <2>. QED BY <2>5, <2>6, <2>7, <2>8
<1>2. IInv /\ [Next]_vars => [W]_vars
  BY <1>1
<1>. QED BY <1>2, Invariance, PTL DEF Spec, WalksMachines
===============================================================================
