------------------------------ MODULE ReviewPage ------------------------------
(***************************************************************************)
(* The page of a V1 review (web pages/ReviewWorkspacePage.tsx), open in    *)
(* the browser of one of its two reviewers: drafts hydrated from the rows  *)
(* read on opening, a save of every criterion at once, the claims of the   *)
(* ledger, the finalise dialog.  An administrator, whom the page would let *)
(* adjudicate, is refused the evidence it waits for and sees an error.     *)
(* Of the server it keeps the rows the page reads and writes, and what the *)
(* others do to them; ReviewV1 has the handlers.                           *)
(***************************************************************************)
EXTENDS Integers, FiniteSets

CONSTANTS
  Item,        \* the criteria of the template
  Grade,       \* the scores in use
  Remark,      \* texts of an evidence note
  NoRemark,    \* the empty one
  LedgerRow    \* claims of the ledger

ASSUME ReviewPageAssumption ==
  /\ NoRemark \in Remark
  /\ Grade \subseteq 1..5

VARIABLES
  rows,         \* criterion_scores: item -> three columns and the note
  closed,       \* the review is finalised
  ledger,       \* the claims stored
  role,         \* the column its user writes
  view,         \* the status it shows, "loading" before it
  drafts,       \* item -> what its form shows
  snapshot,     \* the drafts last saved, if any since hydration
  inFlight,      \* the drafts of a save on its way
  saveError,    \* the last save failed
  modal         \* the dialog open over it: the rest is inert

review == <<rows, closed, ledger>>
scoring == <<drafts, snapshot, inFlight, saveError>>
reviewpagevars == <<review, role, view, scoring, modal>>

Ungraded == 0
ScoreColumn == {"first", "second", "adjudicated"}
Row == [first : Grade \cup {Ungraded}, second : Grade \cup {Ungraded},
        adjudicated : Grade \cup {Ungraded}, note : Remark]
NoRow == [first |-> Ungraded, second |-> Ungraded, adjudicated |-> Ungraded, note |-> NoRemark]

BlankDrafts == [i \in Item |-> NoRow]
NoSave == [at |-> "none", drafts |-> BlankDrafts]
Modal == LedgerRow \cup {"none", "new claim", "finalise"}

ReviewPageTypeOK ==
  /\ rows \in [Item -> Row] /\ closed \in BOOLEAN /\ ledger \subseteq LedgerRow
  /\ role \in {"first", "second"}
  /\ view \in {"loading", "in_review", "finalised"}
  /\ drafts \in [Item -> Row]
  /\ snapshot = {} \/ \E d \in [Item -> Row] : snapshot = {d}
  /\ inFlight \in [at : {"none", "sent", "stored"}, drafts : [Item -> Row]]
  /\ saveError \in BOOLEAN
  /\ modal \in Modal

ReviewPageInit ==
  /\ rows = BlankDrafts /\ closed = FALSE /\ ledger = {}
  /\ role \in {"first", "second"}
  /\ view = "loading"
  /\ drafts = BlankDrafts
  /\ snapshot = {}
  /\ inFlight = NoSave /\ saveError = FALSE
  /\ modal = "none"

-------------------------------------------------------------------------------
(* Reading. *)

(* The detail arrives: its effect replaces every draft by the rows, and    *)
(* the snapshot by their JSON, an array no JSON of the drafts is equal to. *)
Hydrate ==
  /\ view = "loading"
  /\ view' = IF closed THEN "finalised" ELSE "in_review"
  /\ drafts' = rows
  /\ snapshot' = {}
  /\ UNCHANGED <<role, inFlight, saveError, modal, review>>

-------------------------------------------------------------------------------
(* Scoring. *)

(* Choose a score, or clear it; also once the review is finalised. *)
Grading(i, g) ==
  /\ view # "loading" /\ modal = "none"
  /\ drafts' = [drafts EXCEPT ![i][role] = g]
  /\ UNCHANGED <<role, view, snapshot, inFlight, saveError, modal, review>>

Noting(i, text) ==
  /\ view # "loading" /\ modal = "none"
  /\ drafts' = [drafts EXCEPT ![i].note = text]
  /\ UNCHANGED <<role, view, snapshot, inFlight, saveError, modal, review>>

(* Every criterion goes, changed or not. *)
SaveScores ==
  /\ view # "loading" /\ modal = "none" /\ inFlight = NoSave
  /\ inFlight' = [drafts |-> drafts, at |-> "sent"]
  /\ saveError' = FALSE
  /\ UNCHANGED <<role, view, drafts, snapshot, modal, review>>

(* The server sets the user's own column, and with it the one note both    *)
(* reviewers share.                                                        *)
Saving ==
  LET d == inFlight.drafts IN
  /\ inFlight.at = "sent"
  /\ ~closed
  /\ rows' = [i \in Item |-> [rows[i] EXCEPT ![role] = d[i][role], !.note = d[i].note]]
  /\ inFlight' = [inFlight EXCEPT !.at = "stored"]
  /\ UNCHANGED <<closed, ledger, role, view, drafts, snapshot, saveError, modal>>

(* Wrong on purpose: what is on screen when the answer comes counts saved. *)
SavedNow == snapshot' = {drafts}

(* What counts as saved is what was on screen when the button was pressed. *)
SavedThen == snapshot' = {inFlight.drafts}

SaveScoresSucceeds ==
  /\ inFlight.at = "stored"
  /\ SavedThen
  /\ inFlight' = NoSave
  /\ UNCHANGED <<role, view, drafts, saveError, modal, review>>

(* Refused, or the answer is lost, with the rows written or not. *)
SaveScoresFails ==
  /\ inFlight.at # "none"
  /\ inFlight' = NoSave
  /\ saveError' = TRUE
  /\ UNCHANGED <<role, view, drafts, snapshot, modal, review>>

-------------------------------------------------------------------------------
(* Claims, listed for and written by the first reviewer alone, though both *)
(* may open the form; the list may be behind.                              *)

OpenClaim(k) ==
  /\ view = "in_review" /\ modal = "none"
  /\ k # "new claim" => role = "first"
  /\ modal' = k
  /\ UNCHANGED <<review, role, view, scoring>>

(* A claim saved closes the dialog; a refusal leaves it open. *)
SaveClaim(k) ==
  /\ role = "first" /\ ~closed
  /\ \/ modal = "new claim" /\ k \notin ledger /\ ledger' = ledger \cup {k}
     \/ modal = k /\ k \in ledger /\ UNCHANGED ledger
  /\ modal' = "none"
  /\ UNCHANGED <<rows, closed, role, view, scoring>>

RemoveClaim(k) ==
  /\ view = "in_review" /\ modal = "none"
  /\ role = "first" /\ ~closed /\ k \in ledger
  /\ ledger' = ledger \ {k}
  /\ UNCHANGED <<rows, closed, role, view, scoring, modal>>

CloseModal ==
  /\ modal # "none"
  /\ modal' = "none"
  /\ UNCHANGED <<review, role, view, scoring>>

-------------------------------------------------------------------------------
(* Finalising: offered whether or not there are unsaved changes, and       *)
(* whether or not a save is on its way.                                    *)

OpenFinalise ==
  /\ view = "in_review" /\ modal = "none"
  /\ modal' = "finalise"
  /\ UNCHANGED <<review, role, view, scoring>>

(* The detail is read again, which drops what was not saved; if the answer *)
(* is lost the page goes on as it was.                                     *)
Finalise ==
  /\ modal = "finalise" /\ role = "first" /\ ~closed
  /\ closed' = TRUE
  /\ \/ modal' = "none" /\ view' = "loading"
     \/ UNCHANGED <<modal, view>>
  /\ UNCHANGED <<rows, ledger, role, scoring>>

(* The others who score the review, each from a page of his own. *)
OthersSave(i, g, text) ==
  /\ ~closed
  /\ \E c \in ScoreColumn \ {role} :
       /\ c = "adjudicated" => rows[i].first # Ungraded /\ rows[i].second # Ungraded
       /\ rows' = [rows EXCEPT ![i][c] = g, ![i].note = IF c = "adjudicated" THEN @ ELSE text]
  /\ UNCHANGED <<closed, ledger, role, view, scoring, modal>>

OthersFinalise ==
  /\ role # "first" /\ closed' = TRUE
  /\ UNCHANGED <<rows, ledger, role, view, scoring, modal>>

ReviewPageNext ==
  \/ Hydrate
  \/ \E i \in Item, g \in Grade \cup {Ungraded} :
       Grading(i, g) \/ \E text \in Remark : OthersSave(i, g, text)
  \/ \E i \in Item, text \in Remark : Noting(i, text)
  \/ SaveScores \/ Saving \/ SaveScoresSucceeds \/ SaveScoresFails
  \/ \E k \in LedgerRow : OpenClaim(k) \/ SaveClaim(k) \/ RemoveClaim(k)
  \/ OpenClaim("new claim") \/ OpenFinalise \/ Finalise \/ CloseModal
  \/ OthersFinalise

ReviewPageSpec == ReviewPageInit /\ [][ReviewPageNext]_reviewpagevars

-------------------------------------------------------------------------------
(* Properties. *)

Dirty == snapshot # {drafts}

(* A page that shows neither "Unsaved changes" nor an error of saving      *)
(* shows, in its user's column, the scores the server has: typing while a  *)
(* save is on its way, failed saves and finalisation notwithstanding.      *)
CleanScoresStored ==
  view # "loading" /\ ~Dirty /\ ~saveError /\ inFlight = NoSave =>
    \A i \in Item : drafts[i][role] = rows[i][role]

===============================================================================
