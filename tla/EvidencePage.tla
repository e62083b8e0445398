----------------------------- MODULE EvidencePage -----------------------------
(***************************************************************************)
(* The first candidate portal (web pages/CandidatePortalPage.tsx): one     *)
(* page that shows a screen for the session's status, and a workspace of   *)
(* two fields whose content is posted as an evidence event, by a button    *)
(* and by a timer.  Of the server it keeps the status and the events; the  *)
(* handlers are CandidatePortal's.                                         *)
(***************************************************************************)
EXTENDS Naturals, FiniteSets

CONSTANTS
  Typed,        \* contents of the two fields
  NothingTyped, \* both empty
  Notice,       \* the notices of the disclosure
  MaxPost       \* bound on the saves on their way

ASSUME EvidencePageAssumption == NothingTyped \in Typed

VARIABLES
  session,    \* the session's status, "none" before it is accepted
  posts,      \* the artifact_saved events stored
  screen,     \* the status the page shows, "loading" while it asks
  opened,     \* the notices opened since the panel was mounted
  agreed,     \* the notices that had been opened when they were acknowledged
  work,       \* the content of the fields
  savedWork,  \* the content last saved, if any since the workspace was mounted
  outgoing,   \* the saves on their way
  savingWork  \* the button is disabled

evserver == <<session, posts>>
workspace == <<work, savedWork, outgoing, savingWork>>
evidencevars == <<evserver, screen, opened, agreed, workspace>>

Status == {"none", "disclosure_pending", "ready", "in_progress", "paused", "submitted",
           "withdrawn", "expired"}

EvidencePageTypeOK ==
  /\ session \in Status /\ posts \subseteq Typed
  /\ screen \in Status \cup {"loading"}
  /\ opened \subseteq Notice /\ agreed \subseteq Notice
  /\ work \in Typed /\ savedWork \in SUBSET Typed /\ Cardinality(savedWork) <= 1
  /\ outgoing \subseteq Typed /\ savingWork \in BOOLEAN

EvidencePageInit ==
  /\ session = "none" /\ posts = {}
  /\ screen = "loading" /\ opened = {} /\ agreed = {}
  /\ work = NothingTyped /\ savedWork = {} /\ outgoing = {} /\ savingWork = FALSE

(* Reloading shows nothing but "loading": whatever was mounted is gone,    *)
(* with what was typed; the saves on their way go on.                      *)
Remount ==
  /\ screen' = "loading" /\ opened' = {}
  /\ work' = NothingTyped /\ savedWork' = {} /\ savingWork' = FALSE
  /\ UNCHANGED outgoing

ShowStatus ==
  /\ screen = "loading" /\ screen' = session
  /\ UNCHANGED <<evserver, opened, agreed, workspace>>

(* The candidate opens the link again, or anew. *)
Revisit == screen # "loading" /\ Remount /\ UNCHANGED <<evserver, agreed>>

(* A button of the screen posts one step, which the server takes from the  *)
(* status it expects; then the page asks again.  A failure leaves it.      *)
Press(shown, from, to) ==
  /\ screen = shown /\ session = from /\ session' = to
  /\ \/ Remount
     \/ UNCHANGED <<screen, opened, workspace>>   \* the answer is lost
  /\ UNCHANGED posts

Accept == Press("none", "none", "disclosure_pending") /\ UNCHANGED agreed
Start == Press("ready", "ready", "in_progress") /\ UNCHANGED agreed
Resume == Press("paused", "paused", "in_progress") /\ UNCHANGED agreed

(* Pausing and submitting ask nothing of the workspace: what it has not    *)
(* saved is lost with it.                                                  *)
Pause == Press("in_progress", "in_progress", "paused") /\ UNCHANGED agreed
Submit == Press("in_progress", "in_progress", "submitted") /\ UNCHANGED agreed

OpenNotice(n) ==
  /\ screen = "disclosure_pending" /\ opened' = opened \cup {n}
  /\ UNCHANGED <<evserver, screen, agreed, workspace>>

(* Wrong on purpose: the first notice opened enables the button. *)
AcknowledgeSome ==
  /\ opened # {} /\ Press("disclosure_pending", "disclosure_pending", "ready")
  /\ agreed' = opened

Acknowledge ==
  /\ opened = Notice /\ Press("disclosure_pending", "disclosure_pending", "ready")
  /\ agreed' = opened

(* Anybody else who moves the session: another tab, the clock. *)
Elsewhere ==
  /\ \/ session = "in_progress" /\ session' \in {"paused", "submitted"}
     \/ session = "paused" /\ session' = "in_progress"
     \/ session \in {"disclosure_pending", "ready", "in_progress", "paused"}
        /\ session' \in {"withdrawn", "expired"}
  /\ UNCHANGED <<posts, screen, opened, agreed, workspace>>

-------------------------------------------------------------------------------
(* The workspace. *)

DirtyWork == savedWork # {work}

TypeWork(w) ==
  /\ screen = "in_progress" /\ work' = w
  /\ UNCHANGED <<evserver, screen, opened, agreed, savedWork, outgoing, savingWork>>

(* The button, disabled during a save. *)
SaveWork ==
  /\ screen = "in_progress" /\ ~savingWork
  /\ Cardinality(outgoing) < MaxPost
  /\ outgoing' = outgoing \cup {work} /\ savingWork' = TRUE
  /\ UNCHANGED <<evserver, screen, opened, agreed, work, savedWork>>

(* The timer, a minute after the last key, does not ask whether one is on  *)
(* its way; and a workspace just mounted is dirty, so that what it posts   *)
(* first may be empty.                                                     *)
SaveWorkTimer ==
  /\ screen = "in_progress" /\ DirtyWork
  /\ Cardinality(outgoing) < MaxPost
  /\ outgoing' = outgoing \cup {work} /\ savingWork' = TRUE
  /\ UNCHANGED <<evserver, screen, opened, agreed, work, savedWork>>

(* Wrong on purpose: the fields as they are when the answer comes. *)
WorkSavedNow(w) == savedWork' = {work}

(* The answer of a save concerns what was posted, in a workspace that may  *)
(* have been mounted anew, where nothing hears it.                         *)
WorkSaved(w) == savedWork' = {w}

Stored(w) ==
  /\ session = "in_progress"
  /\ posts' = posts \cup {w}
  /\ outgoing' = outgoing \ {w}
  /\ \/ screen = "in_progress" /\ savingWork /\ savingWork' = FALSE /\ WorkSaved(w)
     \/ UNCHANGED <<savedWork, savingWork>>   \* the answer is lost, or not heard
  /\ UNCHANGED <<session, screen, opened, agreed, work>>

NotStored(w) ==
  /\ outgoing' = outgoing \ {w} /\ savingWork' = FALSE
  /\ UNCHANGED <<evserver, screen, opened, agreed, work, savedWork>>

EvidencePageNext ==
  \/ ShowStatus \/ Revisit \/ Accept \/ Acknowledge \/ Start \/ Pause \/ Resume \/ Submit
  \/ Elsewhere
  \/ \E n \in Notice : OpenNotice(n)
  \/ \E w \in Typed : TypeWork(w)
  \/ SaveWork \/ SaveWorkTimer
  \/ \E w \in outgoing : Stored(w) \/ NotStored(w)

EvidencePageSpec == EvidencePageInit /\ [][EvidencePageNext]_evidencevars

-------------------------------------------------------------------------------
(* Properties. *)

(* A workspace that shows no "Unsaved changes" shows what some event has:  *)
(* two saves at once, typing meanwhile, lost answers notwithstanding.      *)
CleanWorkStored == screen = "in_progress" /\ ~DirtyWork => work \in posts

(* No session of this page starts before every notice has been opened on   *)
(* it, whatever was reloaded or lost in between.                           *)
StartedInformed == session \in {"ready", "in_progress", "paused", "submitted"} => agreed = Notice

===============================================================================
