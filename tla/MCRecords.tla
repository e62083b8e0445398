------------------------------- MODULE MCRecords -------------------------------
(***************************************************************************)
(* Instance of the components that keep an organisation's records: both    *)
(* reviews over one session, hiring, a candidate's data, learning; and of  *)
(* the pages that keep a state of their own beside those records: the V1   *)
(* candidate's around his workspace, the authors', the office's.  They     *)
(* share no state, so a behaviour follows one of them, its focus, and the  *)
(* run is the union of theirs, not their product.                          *)
(***************************************************************************)
EXTENDS MixedReviews, DataLifecycle, Hiring, Learning, SetupPage, ActivityPage, BuilderPage,
        CandidatesDesk, AuditExplorer, RetentionForm, TLC

VARIABLE focus

PracticeDef == {<<1, 1>>}
SheetDef == {{CHOOSE p \in Person : TRUE}, Person}

records == <<mixedvars, datavars, hiringvars, learningvars, setupvars, activityvars,
             buildervars, deskvars, explorervars, retentionvars, focus>>

RecordsInit ==
  /\ MixedInit /\ DataInit /\ HiringInit /\ LearningInit
  /\ SetupPageInit /\ ActivityPageInit /\ BuilderPageInit
  /\ CandidatesDeskInit /\ AuditExplorerInit /\ RetentionFormInit
  /\ focus \in {"reviews", "data", "hiring", "learning", "setup", "activity", "builder",
                "desk", "explorer", "retention"}
  /\ focus # "reviews" => state = "none"
  /\ focus # "hiring" => planLimit = NoLimit
  /\ focus # "activity" => ready = {}
  /\ focus # "retention" => policy = CHOOSE p \in Policy : TRUE

RecordsNext ==
  /\ \/ focus = "reviews" /\ MixedNext
     \/ focus # "reviews" /\ UNCHANGED mixedvars
  /\ \/ focus = "data" /\ DataNext
     \/ focus # "data" /\ UNCHANGED datavars
  /\ \/ focus = "hiring" /\ HiringNext
     \/ focus # "hiring" /\ UNCHANGED hiringvars
  /\ \/ focus = "learning" /\ LearningNext
     \/ focus # "learning" /\ UNCHANGED learningvars
  /\ \/ focus = "setup" /\ SetupPageNext
     \/ focus # "setup" /\ UNCHANGED setupvars
  /\ \/ focus = "activity" /\ ActivityPageNext
     \/ focus # "activity" /\ UNCHANGED activityvars
  /\ \/ focus = "builder" /\ BuilderPageNext
     \/ focus # "builder" /\ UNCHANGED buildervars
  /\ \/ focus = "desk" /\ CandidatesDeskNext
     \/ focus # "desk" /\ UNCHANGED deskvars
  /\ \/ focus = "explorer" /\ AuditExplorerNext
     \/ focus # "explorer" /\ UNCHANGED explorervars
  /\ \/ focus = "retention" /\ RetentionFormNext
     \/ focus # "retention" /\ UNCHANGED retentionvars
  /\ UNCHANGED focus

RecordsSpec == RecordsInit /\ [][RecordsNext]_records

-------------------------------------------------------------------------------
(* Properties. *)

(* The V1 candidate page begins an assessment prepared for and informed    *)
(* of, and shows a receipt of one that was submitted.                      *)
SetupToldTruly == BegunPrepared /\ ReceiptShownTruly

(* What a page shows of the records it is about is about those records:    *)
(* the artifact in the details, the artifacts taken off the list, the      *)
(* positions of an author's lists, the token of the candidate named, the   *)
(* report of the file chosen, the whole of a log read page by page.        *)
PagesTellTruly ==
  /\ DetailIsSelected /\ TakenOffStaysOut
  /\ PositionsContiguous
  /\ TokenUnderOwnName /\ ReportedMeansStored
  /\ WalkMissesNothing
===============================================================================
