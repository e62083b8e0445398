------------------------------- MODULE EntryPage -------------------------------
(***************************************************************************)
(* The V2 candidate's way through the page (features/candidate-v2/entry/   *)
(* CandidateV2EntryPage.tsx): notices, compatibility, check-in, and then   *)
(* the workspace's own view of the session (runtime/WorkspacePage.tsx):    *)
(* pause, poll, submit, receipt.  Of the server it keeps the session's V2  *)
(* state; RuntimeV2 has the handlers.  Every answer may be lost, the       *)
(* request having been carried out or not.  The disclosure and the         *)
(* finalisation are answered from inside the transaction, so the page has  *)
(* their answer before the COMMIT, which may fail; whatever else would     *)
(* change the session waits for it.                                        *)
(***************************************************************************)
EXTENDS FiniteSets

CONSTANTS
  Confirmation,  \* the boxes to tick
  Check          \* the compatibility checks the device may fail

VARIABLES
  v2state,     \* the session's state on the server
  dueState,    \* the state an answered transaction brings with its COMMIT
  lostReceipt, \* the receipt shown is of a finalisation whose COMMIT failed
  landing,     \* the state the page knows, "loading", or "error"
  ticked,      \* the boxes ticked since the notices were shown
  passed,      \* the checks passed, once they were made
  busy,        \* the request its one button has on its way, "no" if none
  consent,     \* what was ticked when the notices were acknowledged
  compatible,  \* what had passed when the checks were confirmed
  live,        \* the workspace's view of the state, "none" until mounted
  hasNonce,    \* it knows the manifest's nonce
  receipt,     \* it shows a receipt
  polled,      \* the answer of a poll on its way
  dialog       \* the submission is under review: "closed", "open", "sent"

steps == <<ticked, passed, consent, compatible>>
workspaceview == <<live, hasNonce, receipt, polled, dialog>>
entrytx == <<dueState, lostReceipt>>
entryvars == <<v2state, entrytx, landing, busy, steps, workspaceview>>

EntryState == {"invited", "disclosed", "preflight", "ready", "active", "paused_tech",
               "submitting", "submitted"}
InWorkspace == {"active", "paused_tech", "submitting", "submitted"}
Request == {"disclose", "preflight/complete", "check-in", "start", "refresh"}

EntryPageTypeOK ==
  /\ v2state \in EntryState
  /\ dueState \in {"none", "disclosed", "submitted"} /\ lostReceipt \in BOOLEAN
  /\ landing \in EntryState \cup {"loading", "error"}
  /\ ticked \subseteq Confirmation /\ consent \subseteq Confirmation
  /\ passed \subseteq Check /\ compatible \subseteq Check
  /\ busy \in Request \cup {"no"}
  /\ live \in EntryState \cup {"none"}
  /\ hasNonce \in BOOLEAN /\ receipt \in BOOLEAN
  /\ polled \in EntryState \cup {"none"}
  /\ dialog \in {"closed", "open", "sent"}

EntryPageInit ==
  /\ v2state = "invited" /\ dueState = "none" /\ lostReceipt = FALSE
  /\ landing = "loading" /\ busy = "no"
  /\ ticked = {} /\ passed = {} /\ consent = {} /\ compatible = {}
  /\ live = "none" /\ hasNonce = FALSE /\ receipt = FALSE /\ polled = "none"
  /\ dialog = "closed"

-------------------------------------------------------------------------------
(* Landing. *)

(* What the page shows decides what is mounted: the notices, the checks    *)
(* and the workspace each lose what they held when they go.                *)
Shows(l) ==
  /\ landing' = l
  /\ ticked' = IF l = landing THEN ticked ELSE {}
  /\ passed' = IF l = landing THEN passed ELSE {}
  /\ IF l \notin InWorkspace
       THEN live' = "none" /\ receipt' = FALSE /\ polled' = "none" /\ dialog' = "closed"
     ELSE IF live = "none"
       THEN live' = l /\ UNCHANGED <<receipt, polled, dialog>>
     ELSE UNCHANGED <<live, receipt, polled, dialog>>

(* refresh(): the landing endpoint's state, or an error page that offers   *)
(* nothing but to open the link again.                                     *)
Refresh ==
  /\ landing = "loading" \/ busy = "refresh"
  /\ busy' = "no"
  /\ Shows(v2state) \/ Shows("error")
  /\ UNCHANGED <<v2state, entrytx, consent, compatible, hasNonce>>

(* A transaction written and answered, its COMMIT to come.                 *)
AnsweredFor(s) == dueState = "none" /\ dueState' = s /\ UNCHANGED v2state

CommitEntry ==
  /\ dueState # "none" /\ v2state' = dueState /\ dueState' = "none"
  /\ UNCHANGED <<lostReceipt, landing, busy, steps, workspaceview>>

RollBackEntry ==
  /\ dueState # "none" /\ dueState' = "none"
  /\ lostReceipt' = (lostReceipt \/ (dueState = "submitted" /\ receipt))
  /\ UNCHANGED <<v2state, landing, busy, steps, workspaceview>>

From(request) ==
  CASE request = "disclose" -> "invited" [] request = "preflight/complete" -> "disclosed"
    [] request = "check-in" -> "preflight" [] request = "start" -> "ready" [] OTHER -> "none"
To(request) ==
  CASE request = "disclose" -> "disclosed" [] request = "preflight/complete" -> "preflight"
    [] request = "check-in" -> "ready" [] request = "start" -> "active" [] OTHER -> "none"

(* A request carried out: the disclosure is answered for first.            *)
CarriedOut(request) ==
  /\ v2state = From(request)
  /\ \/ request = "disclose" /\ AnsweredFor(To(request))
     \/ request # "disclose" /\ v2state' = To(request) /\ UNCHANGED dueState

(* Opening the link again, at any time: nothing of the page is left, the   *)
(* nonce of the disclosure's answer included; a request it had sent may    *)
(* still be carried out.                                                   *)
OpenLink ==
  /\ landing # "loading" /\ landing' = "loading" /\ busy' = "no"
  /\ UNCHANGED <<v2state, dueState>> \/ CarriedOut(busy)
  /\ ticked' = {} /\ passed' = {}
  /\ live' = "none" /\ hasNonce' = FALSE /\ receipt' = FALSE /\ polled' = "none"
  /\ dialog' = "closed"
  /\ UNCHANGED <<lostReceipt, consent, compatible>>

-------------------------------------------------------------------------------
(* The steps before the clock. *)

Tick(c) ==
  /\ landing = "invited"
  /\ ticked' = IF c \in ticked THEN ticked \ {c} ELSE ticked \cup {c}
  /\ UNCHANGED <<v2state, entrytx, landing, busy, passed, consent, compatible, workspaceview>>

(* The checks are made once, when they are shown. *)
MakeChecks ==
  /\ landing = "disclosed" /\ passed = {}
  /\ passed' \in SUBSET Check
  /\ UNCHANGED <<v2state, entrytx, landing, busy, ticked, consent, compatible, workspaceview>>

Sends(request) ==
  /\ busy = "no" /\ busy' = request
  /\ UNCHANGED <<v2state, entrytx, landing, ticked, passed, workspaceview>>

OnAcknowledge ==
  /\ landing = "invited" /\ ticked = Confirmation /\ consent' = ticked
  /\ Sends("disclose") /\ UNCHANGED compatible

(* Wrong on purpose: the button does not wait for the checks. *)
OnCompleteUnchecked ==
  /\ landing = "disclosed" /\ compatible' = passed
  /\ Sends("preflight/complete") /\ UNCHANGED consent

OnComplete ==
  /\ landing = "disclosed" /\ passed = Check /\ compatible' = passed
  /\ Sends("preflight/complete") /\ UNCHANGED consent

(* One button for two requests: which one comes first depends on the state *)
(* the page knows, not on the session's.                                   *)
OnCheckIn ==
  /\ \/ landing = "preflight" /\ Sends("check-in")
     \/ landing = "ready" /\ Sends("start")
  /\ UNCHANGED <<consent, compatible>>

(* The request is answered, and the next one of its chain sent.  A second  *)
(* disclosure is answered like the first; any other request the state does *)
(* not fit is refused.  Only a disclosure's failure is shown; after the    *)
(* others the page goes on as it was, whatever became of the session.      *)
Replied(request) ==
  /\ busy = request /\ request # "refresh"
  /\ \/ /\ CarriedOut(request)
        /\ hasNonce' = (hasNonce \/ request = "disclose")
        /\ busy' = IF request = "check-in" THEN "start" ELSE "refresh"
        /\ UNCHANGED <<landing, ticked, passed, live, receipt, polled, dialog>>
     \/ /\ request = "disclose" /\ v2state # "invited"
        /\ hasNonce' = TRUE /\ busy' = "refresh"
        /\ UNCHANGED <<v2state, dueState, landing, ticked, passed, live, receipt, polled, dialog>>
     \/ /\ UNCHANGED <<v2state, dueState>> \/ CarriedOut(request)
        /\ busy' = "no"
        /\ Shows(IF request = "disclose" THEN "error" ELSE landing)
        /\ UNCHANGED hasNonce
  /\ UNCHANGED <<lostReceipt, consent, compatible>>

-------------------------------------------------------------------------------
(* The workspace. *)

Submitted == live = "submitted" \/ receipt

(* The poll's answer is a state of its own time; it is dropped when the    *)
(* state shown has changed meanwhile.  The time limit submits nothing, it  *)
(* only begins to.                                                         *)
Poll ==
  /\ live # "none" /\ polled = "none" /\ dueState = "none"
  /\ v2state' \in {v2state} \cup {s \in {"submitting"} : v2state = "active"}
  /\ polled' = v2state'
  /\ UNCHANGED <<entrytx, landing, busy, steps, live, hasNonce, receipt, dialog>>

Polled ==
  /\ polled # "none" /\ polled' = "none"
  /\ live' = polled /\ hasNonce' = TRUE
  /\ UNCHANGED <<v2state, entrytx, landing, busy, steps, receipt, dialog>>

SetState(s) == live' = s /\ polled' = IF s = live THEN polled ELSE "none"

(* Pause and resume are shown when they are answered, and only then. *)
PauseOrResume ==
  /\ live # "none" /\ ~Submitted /\ dueState = "none"
  /\ \/ v2state = "active" /\ v2state' = "paused_tech"
     \/ live = "paused_tech" /\ v2state = "paused_tech" /\ v2state' = "active"
  /\ SetState(v2state') \/ UNCHANGED <<live, polled>>
  /\ UNCHANGED <<entrytx, landing, busy, steps, hasNonce, receipt, dialog>>

ReviewAndSubmit ==
  /\ live # "none" /\ ~Submitted
  /\ dialog' = CASE dialog = "closed" -> "open" [] dialog = "open" -> "closed"
                 [] dialog = "sent" -> "sent"
  /\ UNCHANGED <<v2state, entrytx, landing, busy, steps, live, hasNonce, receipt, polled>>

(* Without a nonce the state is asked for once more, and without an answer *)
(* nothing is sent.                                                        *)
SendFinalise ==
  /\ dialog = "open" /\ ~Submitted
  /\ \/ dialog' = "sent" /\ hasNonce' = TRUE
     \/ ~hasNonce /\ UNCHANGED <<dialog, hasNonce>>
  /\ UNCHANGED <<v2state, entrytx, landing, busy, steps, live, receipt, polled>>

(* Wrong on purpose: a finalisation not answered counts as one. *)
FinaliseFailsQuietly ==
  /\ dialog = "sent" /\ dialog' = "closed"
  /\ SetState("submitted")
  /\ UNCHANGED <<v2state, entrytx, landing, busy, steps, hasNonce, receipt>>

(* Refused, for what is missing or for the state, or lost on either way:   *)
(* the dialog says so and stays.                                           *)
FinaliseFails ==
  /\ dialog = "sent" /\ dialog' = "open"
  /\ \/ v2state \in {"active", "submitting"} /\ AnsweredFor("submitted")
     \/ UNCHANGED <<v2state, dueState>>
  /\ UNCHANGED <<lostReceipt, landing, busy, steps, live, hasNonce, receipt, polled>>

(* The first receipt or, the session being submitted, the same one again.  *)
(* The landing is asked for too: if that fails, the error page takes the   *)
(* receipt's place.                                                        *)
FinaliseSucceeds ==
  /\ dialog = "sent" /\ dialog' = "closed"
  /\ \/ v2state \in {"active", "submitting"} /\ AnsweredFor("submitted")
     \/ v2state = "submitted" /\ UNCHANGED <<v2state, dueState>>
  /\ lostReceipt' = FALSE /\ receipt' = TRUE /\ SetState("submitted")
  /\ busy' = "refresh"
  /\ UNCHANGED <<landing, steps, hasNonce>>

(* The link in another tab: the clock, a pause, a submission. *)
OtherTab ==
  /\ dueState = "none"
  /\ \/ v2state = "active" /\ v2state' \in {"paused_tech", "submitting", "submitted"}
     \/ v2state = "paused_tech" /\ v2state' = "active"
     \/ v2state = "submitting" /\ v2state' = "submitted"
  /\ UNCHANGED <<entrytx, landing, busy, steps, workspaceview>>

EntryPageNext ==
  \/ Refresh \/ OpenLink
  \/ \E c \in Confirmation : Tick(c)
  \/ MakeChecks \/ OnAcknowledge \/ OnComplete \/ OnCheckIn
  \/ \E request \in Request : Replied(request)
  \/ Poll \/ Polled \/ PauseOrResume
  \/ ReviewAndSubmit \/ SendFinalise \/ FinaliseFails \/ FinaliseSucceeds
  \/ OtherTab \/ CommitEntry \/ RollBackEntry

EntryPageSpec == EntryPageInit /\ [][EntryPageNext]_entryvars

-------------------------------------------------------------------------------
(* Properties. *)

(* No clock starts before every box was ticked and every check passed on   *)
(* this page, whatever was lost, retried or opened anew on the way.        *)
StartedKnowingly ==
  v2state \in {"ready", "active"} => consent = Confirmation /\ compatible = Check

(* "Assessment submitted" is shown of a submitted session: answers lost,   *)
(* polls answered late and a limit reached meanwhile included.  The one    *)
(* other page that says so shows a receipt sent before its COMMIT, which   *)
(* is still to come or has failed; opened anew, it no longer does.         *)
SubmittedShownTruly ==
  Submitted => \/ v2state = "submitted"
               \/ receipt /\ (dueState = "submitted" \/ lostReceipt)

===============================================================================
