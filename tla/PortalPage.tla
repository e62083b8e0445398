------------------------------ MODULE PortalPage ------------------------------
(***************************************************************************)
(* The V1 candidate page (admin-web/src/pages/CandidatePortalPage.tsx)     *)
(* against the workspace routes of candidate/portal.ts: the responses it   *)
(* holds, the revision it last heard of, its loads and saves in flight,    *)
(* the autosave, the stage clock that locks it, a reload, lost requests,   *)
(* and another tab.  A response there is no entry for is Absent, one with  *)
(* an empty entry NoWords; the page shows both alike.                      *)
(***************************************************************************)
EXTENDS Integers, FiniteSets

CONSTANTS
  Response,         \* stages of the assessment and the AI evidence log
  Words, NoWords,   \* NoWords \in Words
  Absent,           \* no text
  SaveCall,         \* saves that may be in flight at a time
  MaxRevision,      \* bound on the draft's revisions
  MaxFailure        \* bound on requests lost and reloads

ASSUME PortalPageAssumption ==
  /\ NoWords \in Words /\ Absent \notin Words /\ MaxRevision \in Nat /\ MaxFailure \in Nat

VARIABLES
  row,       \* the draft on the server; revision 0 is no row
  sealed,    \* its finalised_at is set
  stage, locked,
  evidence,  \* response -> its text on the page
  leftEmpty, \* responses some page has ever made an empty entry for
  revision,  \* workspaceRevision: one or none
  dirty, armed, \* isEvidenceDirty; the autosave's timer runs
  load,      \* the workspace request: none, sent, or answered with a draft
  saving,    \* call -> the save in flight and how far it is
  saveState,
  failures

ppvars == <<row, sealed, stage, locked, evidence, leftEmpty, revision, dirty, armed, load,
            saving, saveState, failures>>

Content == [Response -> Words \cup {Absent}]
Draft == [revision : 0..MaxRevision, content : Content]
NothingYet == [r \in Response |-> Absent]
Why == {"edit", "auto", "pause", "leave", "lock"}
Sending == [why : Why, expected : 0..MaxRevision, content : Content,
         at : {"sent", "saved", "conflict", "failed"}, revision : 0..MaxRevision]
LoadState == [at : {"idle", "sent", "failed", "done"}, draft : Draft]
EmptyDraft == [revision |-> 0, content |-> NothingYet]
NotLoaded(at) == [at |-> at, draft |-> EmptyDraft]

PortalPageTypeOK ==
  /\ row \in Draft /\ sealed \in BOOLEAN
  /\ stage \in {"setup", "assessment", "review", "submitted"} /\ locked \in BOOLEAN
  /\ evidence \in Content /\ leftEmpty \subseteq Response
  /\ revision \subseteq 0..MaxRevision /\ Cardinality(revision) <= 1
  /\ dirty \in BOOLEAN /\ armed \in BOOLEAN
  /\ load \in LoadState
  /\ \A c \in SaveCall : saving[c] \subseteq Sending /\ Cardinality(saving[c]) <= 1
  /\ saveState \in {"idle", "saving", "saved", "error"}
  /\ failures \in 0..MaxFailure

PortalPageInit ==
  /\ row = EmptyDraft /\ sealed = FALSE
  /\ stage = "setup" /\ locked = FALSE
  /\ evidence = NothingYet /\ leftEmpty = {} /\ revision = {}
  /\ dirty = FALSE /\ armed = FALSE
  /\ load = NotLoaded("idle")
  /\ saving = [c \in SaveCall |-> {}]
  /\ saveState = "idle" /\ failures = 0

server == <<row, sealed>>
page == <<locked, evidence, leftEmpty, revision, dirty>>

-------------------------------------------------------------------------------
(* Stages and loading. *)

(* Coming to the stage loads the workspace and starts its effects. *)
EnterAssessment ==
  /\ stage \in {"setup", "review"}
  /\ stage' = "assessment" /\ load' = NotLoaded("sent") /\ armed' = dirty
  /\ UNCHANGED <<server, page, saving, saveState, failures>>

(* GET workspace makes the row if there is none. *)
AnswerLoad ==
  /\ load.at = "sent" /\ load.draft.revision = 0
  /\ \/ /\ row' = IF row.revision = 0 THEN [row EXCEPT !.revision = 1] ELSE row
        /\ load' = [load EXCEPT !.draft = row']
        /\ UNCHANGED failures
     \/ /\ failures < MaxFailure /\ failures' = failures + 1
        /\ load' = NotLoaded("failed")
        /\ UNCHANGED row
  /\ UNCHANGED <<sealed, stage, page, armed, saving, saveState>>

(* Wrong on purpose: the revision is taken and what was loaded with it is  *)
(* only shown on an empty page.                                            *)
MergedIfEmpty(content) == IF evidence = NothingYet THEN content ELSE evidence

(* { ...content, ...prev }: an entry of the page's own wins, empty or not.  *)
Merged(content) ==
  [r \in Response |-> IF evidence[r] # Absent THEN evidence[r] ELSE content[r]]

WorkspaceLoaded ==
  /\ load.at = "sent" /\ load.draft.revision > 0 /\ stage = "assessment"
  /\ revision' = {load.draft.revision}
  /\ evidence' = Merged(load.draft.content)
  /\ load' = NotLoaded("done")
  /\ armed' = dirty
  /\ UNCHANGED <<server, stage, locked, leftEmpty, dirty, saving, saveState, failures>>

ReloadPortal ==
  /\ failures < MaxFailure /\ failures' = failures + 1
  /\ stage' = IF stage = "submitted" THEN stage ELSE "setup"
  /\ locked' = FALSE
  /\ evidence' = NothingYet /\ revision' = {}
  /\ dirty' = FALSE /\ armed' = FALSE
  /\ load' = NotLoaded("idle")
  /\ saving' = [c \in SaveCall |-> {}]
  /\ saveState' = "idle"
  /\ UNCHANGED <<server, leftEmpty>>

-------------------------------------------------------------------------------
(* Typing and saving. *)

(* The fields are not there while the workspace loads. *)
Editable == stage = "assessment" /\ ~locked /\ load.at # "sent"

InField(r) == IF evidence[r] = Absent THEN NoWords ELSE evidence[r]

(* An entry made for r, by whichever page.                                 *)
Enters(r, text) ==
  leftEmpty' = IF text = NoWords THEN leftEmpty \cup {r} ELSE leftEmpty

Type(r, text) ==
  /\ Editable /\ text # InField(r)
  /\ evidence' = [evidence EXCEPT ![r] = text] /\ Enters(r, text)
  /\ dirty' = TRUE /\ armed' = TRUE
  /\ UNCHANGED <<server, stage, locked, revision, load, saving, saveState, failures>>

(* workspaceRevision ?? 1 *)
Expected == IF revision = {} THEN 1 ELSE CHOOSE n \in revision : TRUE

SaveWorkspace(c, why, content) ==
  /\ saving[c] = {}
  /\ saving' = [saving EXCEPT ![c] = {[why |-> why, expected |-> Expected,
                  content |-> content, at |-> "sent", revision |-> 0]}]
  /\ saveState' = "saving"

(* Leaving a field and "Save now" send the text shown in it, though it may *)
(* have no entry yet; the entry comes with the answer.                     *)
HandleSave(c, r) ==
  /\ Editable
  /\ SaveWorkspace(c, "edit", [evidence EXCEPT ![r] = InField(r)]) /\ Enters(r, InField(r))
  /\ UNCHANGED <<server, stage, locked, evidence, revision, dirty, armed, load, failures>>

(* "Save & pause", "Review my answers". *)
SaveByHand(c) ==
  /\ Editable
  /\ \E why \in {"pause", "leave"} : SaveWorkspace(c, why, evidence)
  /\ UNCHANGED <<server, stage, page, armed, load, failures>>

LeaveLocked ==
  /\ stage = "assessment" /\ locked /\ load.at # "sent"
  /\ stage' = "review" /\ armed' = FALSE /\ load' = NotLoaded("idle")
  /\ UNCHANGED <<server, page, saving, saveState, failures>>

Autosave(c) ==
  /\ stage = "assessment" /\ armed
  /\ SaveWorkspace(c, "auto", evidence) /\ armed' = FALSE
  /\ UNCHANGED <<server, stage, page, load, failures>>

(* The clock of the stage is the page's own; it is kept on the device, so  *)
(* a reload may find it over before anything is loaded.                    *)
LockStage(c) ==
  /\ stage = "assessment" /\ ~locked /\ locked' = TRUE
  /\ SaveWorkspace(c, "lock", evidence)
  /\ UNCHANGED <<server, stage, evidence, leftEmpty, revision, dirty, armed, load, failures>>

(* PUT workspace: the row is made if there is none, and the revision       *)
(* expected must be the row's.                                             *)
PutWorkspace(c) ==
  \E s \in saving[c] :
    LET there == IF row.revision = 0 THEN [row EXCEPT !.revision = 1] ELSE row
    IN /\ s.at = "sent"
       /\ \/ /\ ~sealed /\ s.expected = there.revision /\ there.revision < MaxRevision
             /\ row' = [revision |-> there.revision + 1, content |-> s.content]
             /\ saving' = [saving EXCEPT ![c] =
                            {[s EXCEPT !.at = "saved", !.revision = row'.revision]}]
          \/ /\ ~sealed /\ s.expected # there.revision /\ row' = there
             /\ saving' = [saving EXCEPT ![c] = {[s EXCEPT !.at = "conflict"]}]
          \/ /\ sealed /\ saving' = [saving EXCEPT ![c] = {[s EXCEPT !.at = "failed"]}]
             /\ UNCHANGED row
       /\ UNCHANGED <<sealed, stage, page, armed, load, saveState, failures>>

LoseSave(c) ==
  /\ failures < MaxFailure /\ failures' = failures + 1
  /\ \E s \in saving[c] :
       /\ s.at # "failed"
       /\ saving' = [saving EXCEPT ![c] = {[s EXCEPT !.at = "failed"]}]
  /\ UNCHANGED <<server, stage, page, armed, load, saveState>>

(* "leave" and "lock" go on to the review whatever came of the save. *)
MoveOn(s, next) ==
  IF s.why \in {"leave", "lock"} /\ stage = "assessment"
    THEN stage' = "review" /\ armed' = FALSE /\ load' = NotLoaded("idle")
    ELSE stage' = stage /\ armed' = next /\ UNCHANGED load

(* What was sent comes back over what was typed since; only a save by hand *)
(* or the autosave's clears the mark.                                      *)
SaveLands(c) ==
  \E s \in saving[c] :
    /\ s.at = "saved"
    /\ revision' = {s.revision} /\ evidence' = s.content
    /\ dirty' = (dirty /\ s.why \notin {"edit", "auto"})
    /\ MoveOn(s, dirty' /\ stage = "assessment")
    /\ saveState' = "saved"
    /\ saving' = [saving EXCEPT ![c] = {}]
    /\ UNCHANGED <<server, locked, leftEmpty, failures>>

(* Only a save by hand asks for the workspace again. *)
SaveErrs(c) ==
  \E s \in saving[c] :
    /\ s.at \in {"conflict", "failed"}
    /\ IF s.at = "conflict" /\ s.why = "edit" /\ stage = "assessment"
         THEN load' = NotLoaded("sent") /\ UNCHANGED <<stage, armed>>
         ELSE MoveOn(s, armed)
    /\ saveState' = "error"
    /\ saving' = [saving EXCEPT ![c] = {}]
    /\ UNCHANGED <<server, page, failures>>

-------------------------------------------------------------------------------
OtherPageSaves(r, text) ==
  /\ row.revision \in 1..(MaxRevision - 1) /\ ~sealed
  /\ row' = [revision |-> row.revision + 1, content |-> [row.content EXCEPT ![r] = text]]
  /\ Enters(r, text)
  /\ UNCHANGED <<sealed, stage, locked, evidence, revision, dirty, armed, load, saving,
                 saveState, failures>>

(* Offered in the review, whether or not the last save went through. *)
HandleSubmit ==
  /\ stage = "review" /\ ~sealed
  /\ sealed' = TRUE /\ stage' = "submitted"
  /\ UNCHANGED <<row, page, armed, load, saving, saveState, failures>>

PortalPageNext ==
  \/ EnterAssessment \/ AnswerLoad \/ WorkspaceLoaded \/ ReloadPortal
  \/ LeaveLocked \/ HandleSubmit
  \/ \E r \in Response, text \in Words : Type(r, text) \/ OtherPageSaves(r, text)
  \/ \E c \in SaveCall :
       \/ \E r \in Response : HandleSave(c, r)
       \/ SaveByHand(c) \/ Autosave(c) \/ LockStage(c)
       \/ PutWorkspace(c) \/ LoseSave(c) \/ SaveLands(c) \/ SaveErrs(c)

PortalPageSpec == PortalPageInit /\ [][PortalPageNext]_ppvars

-------------------------------------------------------------------------------
(* No save drops a response the server has: whatever the page has loaded   *)
(* when it saves, reloads, locks or runs into a conflict, its snapshot is  *)
(* built on the revision it names.  A text may give way to the page's own  *)
(* entry, and to nothing only where some page has made an empty entry for  *)
(* that response (CandidatePortalPage.tsx:371, :469, :496).                *)
Dropped(r) ==
  \/ row.content[r] # Absent /\ row'.content[r] = Absent
  \/ row.content[r] \notin {Absent, NoWords} /\ row'.content[r] = NoWords /\ r \notin leftEmpty'

ResponsesNeverDropped == [][\A r \in Response : ~Dropped(r)]_ppvars

===============================================================================
