------------------------------- MODULE SetupPage -------------------------------
(***************************************************************************)
(* The V1 candidate page around its workspace                              *)
(* (admin-web/src/pages/CandidatePortalPage.tsx): the preflight checks and *)
(* their saves, the disclosure, the chain of requests that begins the      *)
(* assessment, the submission and the screens at the end.  Of the server   *)
(* it keeps the session's status, the preflight record and the link's      *)
(* validity; PortalPage has the workspace, CandidatePortal the handlers.   *)
(***************************************************************************)
EXTENDS StateMachines, Naturals, FiniteSets

CONSTANTS
  SetupCheck,  \* the checks of the preflight
  OwnCheck,    \* those the page ticks itself
  WrittenCheck,\* those that need a practice text
  MaxSetupPut  \* bound on the preflight saves on their way

ASSUME SetupPageAssumption ==
  /\ OwnCheck \subseteq SetupCheck /\ WrittenCheck \subseteq SetupCheck

VARIABLES
  linkOpen,  \* the lookup row has not expired
  standing,  \* the session's status, "none" before the invitation is accepted
  prep,      \* the preflight record
  portal,    \* the page's portalState, "loading" before the invitation
  knownStage,\* the session's status as the page heard it
  stageShown,\* its stage
  done,      \* the checks it shows as passed
  practised, \* its practice texts are not empty
  toAsk,     \* GET preflight is on its way to the server
  asked,     \* and its answer on its way back
  puts,      \* the preflight saves on their way
  box,       \* disclosureAcknowledged
  chain,     \* the request of beginAssessment or handleSubmit it waits for
  prepared,  \* the checks shown when "Start assessment setup" was pressed
  boxed      \* the box was ticked when the assessment was begun

setupserver == <<linkOpen, standing, prep>>
preflight == <<done, practised, toAsk, asked, puts, prepared>>
begun == <<knownStage, box, chain, boxed>>
setupvars == <<setupserver, portal, stageShown, preflight, begun>>

(* Left out: the practice texts, of which an answer may bring any, and     *)
(* what the reviewers do of a submitted session.                           *)
Prep == [checks : SUBSET SetupCheck, completed : BOOLEAN]
Standing == {"none", "disclosure_pending", "ready", "in_progress", "paused", "submitted",
             "withdrawn"}
Step == {"accept", "disclosure/acknowledge", "start", "submit"}

SetupPageTypeOK ==
  /\ linkOpen \in BOOLEAN /\ standing \in Standing /\ prep \in Prep
  /\ portal \in {"loading", "welcome", "error", "expired", "submitted"}
  /\ knownStage \in Standing
  /\ stageShown \in {"preflight", "welcome", "disclosure", "assessment", "review", "submitted"}
  /\ done \subseteq SetupCheck /\ practised \in BOOLEAN
  /\ toAsk \in BOOLEAN /\ asked \subseteq Prep /\ Cardinality(asked) <= 1
  /\ puts \subseteq Prep /\ Cardinality(puts) <= MaxSetupPut
  /\ box \in BOOLEAN /\ chain \in Step \cup {"no"}
  /\ prepared \subseteq SetupCheck /\ boxed \in BOOLEAN

NoPrep == [checks |-> {}, completed |-> FALSE]

SetupPageInit ==
  /\ linkOpen = TRUE /\ standing = "none" /\ prep = NoPrep
  /\ portal = "loading" /\ knownStage = "none" /\ stageShown = "preflight"
  /\ done = {} /\ practised = FALSE /\ toAsk = TRUE /\ asked = {} /\ puts = {}
  /\ box = FALSE /\ chain = "no"
  /\ prepared = {} /\ boxed = FALSE

-------------------------------------------------------------------------------
(* The requests that move the session. *)

(* "start" is refused of a paused session: the machine resumes it by       *)
(* another event, which this page never sends.                             *)
Event(request) ==
  CASE request = "disclosure/acknowledge" -> "acknowledge_disclosure" [] OTHER -> request

Serves(request) ==
  /\ linkOpen /\ UNCHANGED <<linkOpen, prep>>
  /\ \/ request = "accept" /\ standing = "none" /\ standing' = "disclosure_pending"
     \/ \E t \in SessionTransition :
          t[1] = standing /\ t[2] = Event(request) /\ standing' = t[3]

-------------------------------------------------------------------------------
(* The invitation. *)

(* Its answer puts the page back to "welcome" in whatever stage it is, and *)
(* ticks the page's own checks; a link that has expired is said to be.     *)
InvitationAnswered ==
  /\ portal = "loading"
  /\ \/ /\ linkOpen /\ portal' = "welcome" /\ knownStage' = standing
        /\ done' = done \cup OwnCheck
     \/ /\ ~linkOpen /\ portal' = "expired" /\ UNCHANGED <<knownStage, done>>
     \/ /\ portal' = "error" /\ UNCHANGED <<knownStage, done>>
  /\ UNCHANGED <<setupserver, stageShown, practised, toAsk, asked, puts, prepared, box, chain, boxed>>

(* "Try again" asks for the invitation and keeps the stage: what a lost    *)
(* answer had changed is learnt that way.                                  *)
Retry ==
  /\ portal = "error" /\ portal' = "loading"
  /\ UNCHANGED <<setupserver, stageShown, preflight, begun>>

(* The link in a new page, which starts at the preflight; requests of the  *)
(* old one may be served yet.                                              *)
OpenAgain ==
  /\ portal # "loading" /\ portal' = "loading" /\ stageShown' = "preflight"
  /\ knownStage' = "none" /\ done' = {} /\ practised' = FALSE
  /\ toAsk' = TRUE /\ asked' = {} /\ puts' = {}
  /\ box' = FALSE /\ chain' = "no"
  /\ Serves(chain) \/ UNCHANGED setupserver
  /\ UNCHANGED <<prepared, boxed>>

LinkExpires ==
  /\ linkOpen /\ linkOpen' = FALSE
  /\ UNCHANGED <<standing, prep, portal, stageShown, preflight, begun>>

(* The session moves without this page, by another client of the link.     *)
MovesElsewhere ==
  /\ \E t \in SessionTransition :
       /\ t[1] = standing /\ t[1] \notin {"disclosure_pending", "ready"}
       /\ t[3] \in Standing /\ standing' = t[3]
  /\ UNCHANGED <<linkOpen, prep, portal, stageShown, preflight, begun>>

-------------------------------------------------------------------------------
(* Preflight. *)

OnStage(s) == portal = "welcome" /\ stageShown = s

(* GET preflight, once for each page, reads the record when it is served.  *)
(* Its answer replaces what the page shows, all but its own checks.        *)
AskPreflight ==
  /\ toAsk /\ toAsk' = FALSE
  /\ (linkOpen /\ asked' = {prep}) \/ UNCHANGED asked
  /\ UNCHANGED <<setupserver, portal, stageShown, done, practised, puts, prepared, begun>>

PreflightAnswered ==
  /\ asked # {} /\ stageShown = "preflight" /\ asked' = {}
  /\ \E a \in asked : done' = a.checks \cup (done \cap OwnCheck)
  /\ practised' \in BOOLEAN
  /\ UNCHANGED <<setupserver, portal, stageShown, toAsk, puts, prepared, begun>>

WritePractice ==
  /\ OnStage("preflight") /\ practised' = ~practised
  /\ UNCHANGED <<setupserver, portal, stageShown, done, toAsk, asked, puts, prepared, begun>>

PutPreflight(checks, completed) ==
  /\ Cardinality(puts) < MaxSetupPut
  /\ puts' = puts \cup {[checks |-> checks, completed |-> completed]}

(* A check's button ticks it on the page and saves. *)
PassCheck(k) ==
  /\ OnStage("preflight") /\ k \notin OwnCheck
  /\ k \in WrittenCheck => practised
  /\ done' = done \cup {k} /\ PutPreflight(done', FALSE)
  /\ UNCHANGED <<setupserver, portal, stageShown, practised, toAsk, asked, prepared, begun>>

(* Leaving a text saves what the page shows. *)
LeavePractice ==
  /\ OnStage("preflight") /\ PutPreflight(done, FALSE)
  /\ UNCHANGED <<setupserver, portal, stageShown, done, practised, toAsk, asked, prepared, begun>>

(* The record takes the checks of whichever save is served last; once      *)
(* completed it stays so.                                                  *)
SaveServed(p) ==
  /\ linkOpen
  /\ prep' = [checks |-> p.checks, completed |-> prep.completed \/ p.completed]
  /\ UNCHANGED <<linkOpen, standing>>

(* The answer comes back over what was ticked since; the save of "Start    *)
(* assessment setup" goes on to the next stage, saved or not.              *)
PreflightSaved(p) ==
  /\ puts' = puts \ {p}
  /\ \/ SaveServed(p) /\ done' = p.checks /\ practised' \in BOOLEAN
     \/ SaveServed(p) /\ UNCHANGED <<done, practised>>   \* the answer is lost
     \/ UNCHANGED <<setupserver, done, practised>>
  /\ stageShown' = IF p.completed THEN "welcome" ELSE stageShown
  /\ UNCHANGED <<portal, toAsk, asked, prepared, begun>>

(* Wrong on purpose: the button does not wait for the checks. *)
StartSetupEarly ==
  /\ OnStage("preflight") /\ prepared' = done
  /\ PutPreflight(done, TRUE)
  /\ UNCHANGED <<setupserver, portal, stageShown, done, practised, toAsk, asked, begun>>

StartSetup ==
  /\ OnStage("preflight") /\ done = SetupCheck /\ prepared' = done
  /\ PutPreflight(done, TRUE)
  /\ UNCHANGED <<setupserver, portal, stageShown, done, practised, toAsk, asked, begun>>

-------------------------------------------------------------------------------
(* Disclosure and the beginning. *)

Go(from, to) ==
  /\ OnStage(from) /\ chain = "no" /\ stageShown' = to
  /\ UNCHANGED <<setupserver, portal, preflight, begun>>

Navigate ==
  \/ Go("welcome", "disclosure") \/ Go("disclosure", "welcome")
  \/ Go("assessment", "review") \/ Go("review", "assessment")

TickBox ==
  /\ OnStage("disclosure") /\ box' = ~box
  /\ UNCHANGED <<setupserver, portal, stageShown, preflight, knownStage, chain, boxed>>

(* Which requests are made depends on the status the page heard, not on    *)
(* the session's; for one it does not list there is none, and the          *)
(* workspace is shown whatever the session is.                             *)
BeginAssessment ==
  /\ OnStage("disclosure") /\ box /\ chain = "no" /\ boxed' = box
  /\ LET first == CASE knownStage = "none" -> "accept"
                    [] knownStage = "disclosure_pending" -> "disclosure/acknowledge"
                    [] knownStage \in {"ready", "paused"} -> "start"
                    [] OTHER -> "no"
     IN /\ chain' = first
        /\ stageShown' = IF first = "no" THEN "assessment" ELSE stageShown
  /\ UNCHANGED <<setupserver, portal, preflight, knownStage, box>>

After(request) ==
  CASE request = "accept" -> "disclosure/acknowledge"
    [] request = "disclosure/acknowledge" -> "start"
    [] OTHER -> "no"

ChainAnswered ==
  /\ chain # "no" /\ Serves(chain) /\ chain' = After(chain)
  /\ stageShown' = CASE chain = "start" -> "assessment" [] chain = "submit" -> "submitted"
                     [] OTHER -> stageShown
  /\ portal' = IF chain = "submit" THEN "submitted" ELSE portal
  /\ UNCHANGED <<preflight, knownStage, box, boxed>>

(* Wrong on purpose: a submission not answered counts as one. *)
ChainFailsQuietly ==
  /\ chain # "no" /\ chain' = "no"
  /\ Serves(chain) \/ UNCHANGED setupserver
  /\ portal' = IF chain = "submit" THEN "submitted" ELSE "error"
  /\ UNCHANGED <<stageShown, preflight, knownStage, box, boxed>>

(* Refused, or lost on either way. *)
ChainFails ==
  /\ chain # "no" /\ chain' = "no" /\ portal' = "error"
  /\ Serves(chain) \/ UNCHANGED setupserver
  /\ UNCHANGED <<stageShown, preflight, knownStage, box, boxed>>

-------------------------------------------------------------------------------
(* The end. *)

HandleSubmission ==
  /\ OnStage("review") /\ chain = "no" /\ chain' = "submit"
  /\ UNCHANGED <<setupserver, portal, stageShown, preflight, knownStage, box, boxed>>

(* "Withdraw my submission": the machine has no such transition from       *)
(* "submitted" on, so it is always refused, and trying again shows a stage *)
(* that has no screen.                                                     *)
WithdrawSubmission ==
  /\ portal = "submitted"
  /\ \A t \in SessionTransition : ~(t[1] = standing /\ t[2] = "withdraw")
  /\ portal' = "error"
  /\ UNCHANGED <<setupserver, stageShown, preflight, begun>>

SetupPageNext ==
  \/ InvitationAnswered \/ Retry \/ OpenAgain \/ LinkExpires \/ MovesElsewhere
  \/ AskPreflight \/ PreflightAnswered \/ WritePractice \/ LeavePractice \/ StartSetup
  \/ \E k \in SetupCheck : PassCheck(k)
  \/ \E p \in puts : PreflightSaved(p)
  \/ Navigate \/ TickBox \/ BeginAssessment \/ ChainAnswered \/ ChainFails
  \/ HandleSubmission \/ WithdrawSubmission

SetupPageSpec == SetupPageInit /\ [][SetupPageNext]_setupvars

-------------------------------------------------------------------------------
(* Properties. *)

(* No session is accepted, disclosed or begun from this page before every  *)
(* check was shown as passed and the box ticked, whatever saves were lost, *)
(* crossed or answered late (CandidatePortalPage.tsx:289-336, :703-734).   *)
BegunPrepared == standing # "none" => prepared = SetupCheck /\ boxed

(* "Assessment submitted" is shown of a session that was submitted and not *)
(* withdrawn since (:576-590, :786-840).                                   *)
ReceiptShownTruly ==
  portal = "submitted" => standing = "submitted"

===============================================================================
