---------------------------- MODULE StateMachines ----------------------------
(***************************************************************************)
(* The transition tables of packages/assessment-framework and              *)
(* packages/v2-contracts.  A table is the set of its triples               *)
(* <<state, event, next state>>; StateMachine.can is membership for some   *)
(* next state, StateMachine.next the step itself, and its throw the        *)
(* absence of a triple.                                                    *)
(***************************************************************************)

InvitationState == {"draft", "sent", "opened", "accepted", "expired", "revoked"}

InvitationTransition ==
  { <<"draft", "send", "sent">>,
    <<"draft", "revoke", "revoked">>,
    <<"sent", "open", "opened">>,
    <<"sent", "expire", "expired">>,
    <<"sent", "revoke", "revoked">>,
    <<"opened", "accept", "accepted">>,
    <<"opened", "expire", "expired">>,
    <<"opened", "revoke", "revoked">>,
    <<"expired", "reissue", "sent">> }

SessionState ==
  { "created", "disclosure_pending", "ready", "in_progress", "paused",
    "submitted", "under_review", "review_finalised", "report_issued",
    "withdrawn", "expired", "invalidated" }

SessionTerminal == {"report_issued", "withdrawn", "expired", "invalidated"}

(* The states a session can be withdrawn from, and those it can expire from. *)
Unsubmitted == {"created", "disclosure_pending", "ready", "in_progress", "paused"}

SessionTransition ==
  { <<"created", "present_disclosure", "disclosure_pending">>,
    <<"disclosure_pending", "acknowledge_disclosure", "ready">>,
    <<"ready", "start", "in_progress">>,
    <<"in_progress", "pause", "paused">>,
    <<"paused", "resume", "in_progress">>,
    <<"in_progress", "submit", "submitted">>,
    <<"submitted", "begin_review", "under_review">>,
    <<"under_review", "finalise_review", "review_finalised">>,
    <<"review_finalised", "issue_report", "report_issued">> }
  \cup { <<s, "withdraw", "withdrawn">> : s \in Unsubmitted }
  \cup { <<s, "expire", "expired">> : s \in Unsubmitted }
  \cup { <<s, "invalidate", "invalidated">> :
           s \in {"in_progress", "paused", "submitted", "under_review"} }

SessionStateV2 ==
  { "invited", "disclosed", "preflight", "ready", "active", "paused_tech",
    "submitting", "submitted", "reviewing", "finalised", "expired",
    "withdrawn", "support_review" }

SessionTransitionV2 ==
  { <<"invited", "disclose", "disclosed">>,
    <<"disclosed", "complete_preflight", "preflight">>,
    <<"preflight", "check_in", "ready">>,
    <<"ready", "start", "active">>,
    <<"active", "pause_tech", "paused_tech">>,
    <<"paused_tech", "resume", "active">>,
    <<"paused_tech", "escalate_support", "support_review">>,
    <<"active", "begin_submit", "submitting">>,
    <<"submitting", "confirm_receipt", "submitted">>,
    <<"submitted", "begin_review", "reviewing">>,
    <<"reviewing", "finalise", "finalised">>,
    <<"active", "withdraw", "withdrawn">>,
    <<"active", "escalate_support", "support_review">>,
    <<"submitting", "escalate_support", "support_review">>,
    <<"support_review", "resolve_support", "active">> }
  \cup { <<s, "expire", "expired">> :
           s \in {"invited", "disclosed", "preflight", "ready"} }
  \cup { <<s, "withdraw", "withdrawn">> :
           s \in {"invited", "disclosed", "preflight", "ready"} }

===============================================================================
