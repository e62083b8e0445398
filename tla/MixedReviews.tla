----------------------------- MODULE MixedReviews -----------------------------
(***************************************************************************)
(* Both reviews over one session row.  A session of the V2 runtime has a   *)
(* manifest, and an assessment_sessions row like any other: the handlers   *)
(* of org/reviews.ts look at its status alone, those of v2/review.ts write *)
(* that status.  A session of the first portal has no manifest (state      *)
(* "none"), and v2/review.ts answers for it with NOT_FOUND.                *)
(***************************************************************************)
EXTENDS ReviewV1

CONSTANTS Dimension, Anchor, MaxAppeals  \* as in ReviewV2

ASSUME MixedAssumption == Anchor \subseteq Nat /\ MaxAppeals \in Nat

VARIABLES state, assigned, completed, anchor, adjudication, closing, appeals,
          appealing, seen  \* as in ReviewV2

V2 == INSTANCE ReviewV2

v1Only == <<review, first, second, scores, claims, acknowledged, viewed>>
v2Only == <<state, assigned, completed, anchor, adjudication, closing, appeals,
            appealing, seen>>
mixedvars == <<v1vars, v2Only>>

MixedTypeOK ==
  /\ ReviewV1TypeOK
  /\ state \in {"none", "submitted", "reviewing", "finalised"}
  /\ assigned \in [V2!Round -> Reviewer \cup {Nobody}]
  /\ anchor \in [V2!Round -> [Dimension -> Anchor \cup {V2!NoAnchor}]]

MixedInit ==
  /\ ReviewV1Init
  /\ state \in {"none", "submitted"}
  /\ assigned = [r \in V2!Round |-> Nobody]
  /\ completed = [r \in V2!Round |-> FALSE]
  /\ anchor = [r \in V2!Round |-> [d \in Dimension |-> V2!NoAnchor]]
  /\ adjudication = "none" /\ closing = FALSE
  /\ appeals = {} /\ appealing = V2!NoAppeal /\ seen = {}

MixedNext ==
  \/ ReviewV1Next /\ UNCHANGED v2Only
  \/ V2!Next /\ UNCHANGED v1Only

MixedSpec == MixedInit /\ [][MixedNext]_mixedvars

-------------------------------------------------------------------------------
(* Properties. *)

(* Whatever review a session gets, and however the two write over each     *)
(* other's status: no session is decided, and no report goes out, before   *)
(* some human reviewer has finalised.                                      *)
DecidedByReview ==
  status \in {"review_finalised", "report_issued"} =>
    review = "finalised" \/ state = "finalised"

(* terminal: ["report_issued", "withdrawn", "expired", "invalidated"]      *)
ReportIssuedIsTerminal ==
  [][status = "report_issued" => status' = "report_issued"]_mixedvars

(* "The evidence profile becomes available after the report is issued": an *)
(* issued report has the finalised review the profile is built from.       *)
IssuedReportIsReadable == status = "report_issued" => review = "finalised"

===============================================================================
