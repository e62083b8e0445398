--------------------------- MODULE CandidatePortal ---------------------------
(***************************************************************************)
(* The V1 candidate portal for one invitation, at the grain of the SQL     *)
(* statements its handlers issue.  PostgreSQL runs them READ COMMITTED:    *)
(* a plain SELECT sees what is committed and holds nothing, while          *)
(* SELECT .. FOR UPDATE and UPDATE hold the row until COMMIT or ROLLBACK.  *)
(* The candidate's tabs, devices and client retries are Request slots; a   *)
(* slot runs one transaction at a time and pc says which statement it is   *)
(* about to run.                                                           *)
(*                                                                         *)
(* Two rows matter as locks: the session row and the draft row.  Which     *)
(* slot holds which is a function of its pc (HoldsSession, HoldsDraft).    *)
(* An INSERT into a child table of assessment_sessions takes FOR KEY SHARE *)
(* on the session row to check its foreign key, and that conflicts with    *)
(* the FOR UPDATE of a status transition: SessionFree guards every such    *)
(* INSERT.  Statements after which a transaction neither waits nor reads   *)
(* another's row are one step with its COMMIT.                             *)
(***************************************************************************)
EXTENDS StateMachines, Integers, FiniteSets

CONSTANTS Request,      \* concurrent requests bearing the candidate's token
          Artifact,     \* artifact ids the database may hand out
          MaxRevision,  \* bound on assessment_workspace_drafts.revision
          MaxUpload     \* bound on completed uploads per artifact

ASSUME BoundsAssumption == MaxRevision \in Nat \ {0} /\ MaxUpload \in Nat

VARIABLES
  tokenLive,   \* invitation_lookup still resolves the candidate's token
  invitation,  \* invitations.status
  session,     \* assessment_sessions.status, "none" before the row exists
  disclosed,   \* a disclosure_records row exists
  draft,       \* the assessment_workspace_drafts row
  artifact,    \* assessment_artifacts: status, and which upload its sha256 is of
  manifest,    \* the assessment_submission_manifests row
  evidence,    \* the kinds of evidence_events ingested; saves carry their revision
  pc,          \* the statement each slot is about to run
  local        \* what its transaction has read so far

rows == <<invitation, session, disclosed, draft, artifact, manifest, evidence>>
vars == <<tokenLive, rows, pc, local>>

Editable == {"ready", "in_progress", "paused"}
ArtifactStatus == {"absent", "initiated", "available", "removed", "frozen"}
Entry == Artifact \X (0..MaxUpload)

NoDraft == [exists |-> FALSE, revision |-> 0, finalised |-> FALSE]
NewDraft == [exists |-> TRUE, revision |-> 1, finalised |-> FALSE]
NoManifest == [written |-> FALSE, revision |-> 0, entries |-> {}]
NoLocal == [revision |-> 0, entries |-> {}]

Submitting == {"submit_read_draft", "submit_read_artifacts", "submit_finalise", "submit_commit"}

PC == {"idle", "landing_open", "workspace_insert", "save_lock", "save_insert", "save_commit",
       "artifact_insert", "response_insert", "telemetry_insert"} \cup Submitting

EvidenceKind == ({"draft_saved"} \X (2..MaxRevision))
                  \cup {<<"task_response", 0>>, <<"telemetry", 0>>}

TypeOK ==
  /\ tokenLive \in BOOLEAN
  /\ invitation \in InvitationState
  /\ session \in SessionState \cup {"none"}
  /\ disclosed \in BOOLEAN
  /\ draft \in [exists : BOOLEAN, revision : 0..MaxRevision, finalised : BOOLEAN]
  /\ artifact \in [Artifact -> [status : ArtifactStatus, upload : 0..MaxUpload]]
  /\ manifest \in [written : BOOLEAN, revision : 0..MaxRevision, entries : SUBSET Entry]
  /\ evidence \in SUBSET EvidenceKind
  /\ pc \in [Request -> PC]
  /\ local \in [Request -> [revision : 0..MaxRevision, entries : SUBSET Entry]]

Init ==
  /\ tokenLive = TRUE
  /\ invitation = "sent"
  /\ session = "none"
  /\ disclosed = FALSE
  /\ draft = NoDraft
  /\ artifact = [a \in Artifact |-> [status |-> "absent", upload |-> 0]]
  /\ manifest = NoManifest
  /\ evidence = {}
  /\ pc = [r \in Request |-> "idle"]
  /\ local = [r \in Request |-> NoLocal]

-------------------------------------------------------------------------------
(* Row locks. *)

HoldsSession(r) == pc[r] \in Submitting
HoldsDraft(r) == pc[r] = "save_commit" \/ (pc[r] = "submit_commit" /\ draft.exists)

(* Wrong on purpose: transitionSession without FOR UPDATE. *)
SessionNeverHeld(r) == r \in Request

SessionFree(r) == \A q \in Request \ {r} : ~HoldsSession(q)
DraftFree(r) == \A q \in Request \ {r} : ~HoldsDraft(q)

(* A handler starts once withPortal has resolved the token. *)
Begin(r) == tokenLive /\ pc[r] = "idle"

Goto(r, label) == pc' = [pc EXCEPT ![r] = label]
Finish(r) == Goto(r, "idle") /\ local' = [local EXCEPT ![r] = NoLocal]
Idle(r) == UNCHANGED <<pc, local>>

-------------------------------------------------------------------------------
(* Invitation: landing, acceptance, expiry and reissue. *)

(* The landing view reads the status without a lock ... *)
LandingRead(r) ==
  /\ Begin(r) /\ invitation = "sent"
  /\ Goto(r, "landing_open")
  /\ UNCHANGED <<tokenLive, rows, local>>

(* ... and writes "opened" whatever the row says by then. *)
LandingOpen(r) ==
  /\ pc[r] = "landing_open"
  /\ invitation' = "opened"
  /\ Finish(r)
  /\ UNCHANGED <<tokenLive, session, disclosed, draft, artifact, manifest, evidence>>

(* Accept locks the invitation row; a second session row for the same      *)
(* invitation breaks UNIQUE (invitation_id) and rolls everything back.     *)
Accept(r) ==
  /\ Begin(r)
  /\ \E t \in InvitationState :
       <<invitation, "accept", t>> \in InvitationTransition /\ invitation' = t
  /\ session = "none" /\ session' = "disclosure_pending"
  /\ Idle(r)
  /\ UNCHANGED <<tokenLive, disclosed, draft, artifact, manifest, evidence>>

(* expires_at passes: the token no longer resolves. *)
TokenExpires ==
  /\ tokenLive /\ tokenLive' = FALSE
  /\ UNCHANGED <<rows, pc, local>>

(* Reissue marks the overdue row and issues a fresh invitation row with a  *)
(* token of its own; the old row stays "expired".                          *)
Reissue ==
  /\ ~tokenLive /\ invitation \in {"sent", "opened"}
  /\ invitation' = "expired"
  /\ UNCHANGED <<tokenLive, session, disclosed, draft, artifact, manifest, evidence, pc, local>>

-------------------------------------------------------------------------------
(* Session lifecycle: transitionSession locks the row, then one COMMIT. *)

Step(event, t) == <<session, event, t>> \in SessionTransition

Acknowledge(r) ==
  /\ Begin(r) /\ SessionFree(r) /\ ~disclosed
  /\ \E t \in SessionState : Step("acknowledge_disclosure", t) /\ session' = t
  /\ disclosed' = TRUE
  /\ Idle(r)
  /\ UNCHANGED <<tokenLive, invitation, draft, artifact, manifest, evidence>>

(* Wrong on purpose: the event written where the next state belongs. *)
LifecycleWritesEvent(r, event) ==
  /\ Begin(r) /\ SessionFree(r)
  /\ \E t \in SessionState : Step(event, t)
  /\ session' = event
  /\ Idle(r)
  /\ UNCHANGED <<tokenLive, invitation, disclosed, draft, artifact, manifest, evidence>>

Lifecycle(r, event) ==
  /\ Begin(r) /\ SessionFree(r)
  /\ \E t \in SessionState : Step(event, t) /\ session' = t
  /\ Idle(r)
  /\ UNCHANGED <<tokenLive, invitation, disclosed, draft, artifact, manifest, evidence>>

(* Wrong on purpose: submit accepts whatever state still allows editing. *)
SubmitLockEditable(r) ==
  /\ Begin(r) /\ SessionFree(r)
  /\ session \in Editable
  /\ Goto(r, "submit_read_draft")
  /\ UNCHANGED <<tokenLive, rows, local>>

(* Submit: the same lock and check, but five more statements to COMMIT. *)
SubmitLock(r) ==
  /\ Begin(r) /\ SessionFree(r)
  /\ \E t \in SessionState : Step("submit", t)
  /\ Goto(r, "submit_read_draft")
  /\ UNCHANGED <<tokenLive, rows, local>>

(* A plain SELECT; no row means revision 1 of the empty document. *)
SubmitReadDraft(r) ==
  /\ pc[r] = "submit_read_draft"
  /\ local' = [local EXCEPT ![r].revision = IF draft.exists THEN draft.revision ELSE 1]
  /\ Goto(r, "submit_read_artifacts")
  /\ UNCHANGED <<tokenLive, rows>>

SubmitReadArtifacts(r) ==
  /\ pc[r] = "submit_read_artifacts"
  /\ local' = [local EXCEPT ![r].entries =
                 {<<a, artifact[a].upload>> :
                    a \in {x \in Artifact : artifact[x].status \in {"available", "frozen"}}}]
  /\ Goto(r, "submit_finalise")
  /\ UNCHANGED <<tokenLive, rows>>

(* The UPDATE that finalises the draft waits for whoever holds its row. *)
SubmitFinalise(r) ==
  /\ pc[r] = "submit_finalise"
  /\ DraftFree(r)
  /\ Goto(r, "submit_commit")
  /\ UNCHANGED <<tokenLive, rows, local>>

(* Freeze, INSERT .. ON CONFLICT DO NOTHING of the manifest, audit, COMMIT. *)
SubmitCommit(r) ==
  /\ pc[r] = "submit_commit"
  /\ session' = "submitted"
  /\ draft' = IF draft.exists THEN [draft EXCEPT !.finalised = TRUE] ELSE draft
  /\ artifact' = [a \in Artifact |->
                    IF artifact[a].status = "available"
                      THEN [artifact[a] EXCEPT !.status = "frozen"] ELSE artifact[a]]
  /\ manifest' = IF manifest.written THEN manifest
                 ELSE [written |-> TRUE, revision |-> local[r].revision,
                       entries |-> local[r].entries]
  /\ Finish(r)
  /\ UNCHANGED <<tokenLive, invitation, disclosed, evidence>>

-------------------------------------------------------------------------------
(* Workspace draft. *)

(* GET creates revision 1 when it finds no row, in whatever state. *)
WorkspaceRead(r) ==
  /\ Begin(r) /\ session # "none" /\ ~draft.exists
  /\ Goto(r, "workspace_insert")
  /\ UNCHANGED <<tokenLive, rows, local>>

(* A row inserted meanwhile is a primary-key violation: ROLLBACK. *)
WorkspaceInsert(r) ==
  /\ pc[r] = "workspace_insert" /\ SessionFree(r)
  /\ draft' = IF draft.exists THEN draft ELSE NewDraft
  /\ Finish(r)
  /\ UNCHANGED <<tokenLive, invitation, session, disclosed, artifact, manifest, evidence>>

(* PUT reads the session status without a lock ... *)
SaveRead(r, expected) ==
  /\ Begin(r) /\ session \in Editable
  /\ local' = [local EXCEPT ![r].revision = expected]
  /\ Goto(r, "save_lock")
  /\ UNCHANGED <<tokenLive, rows>>

(* Wrong on purpose: the revision compared, finalised_at not looked at. *)
SaveLockFinalised(r) ==
  /\ pc[r] = "save_lock"
  /\ draft.exists /\ DraftFree(r) /\ draft.revision = local[r].revision
  /\ Goto(r, "save_commit")
  /\ UNCHANGED <<tokenLive, rows, local>>

(* Wrong on purpose: the conflict reply returned with the transaction open. *)
SaveLockLeaks(r) ==
  /\ pc[r] = "save_lock"
  /\ draft.exists /\ DraftFree(r)
  /\ ~draft.finalised /\ draft.revision = local[r].revision
  /\ Goto(r, "save_commit")
  /\ UNCHANGED <<tokenLive, rows, local>>

(* ... then SELECT .. FOR UPDATE, which locks the draft only if it is there. *)
SaveLock(r) ==
  /\ pc[r] = "save_lock"
  /\ \/ ~draft.exists /\ Goto(r, "save_insert") /\ UNCHANGED local
     \/ /\ draft.exists /\ DraftFree(r)
        /\ IF ~draft.finalised /\ draft.revision = local[r].revision
             THEN Goto(r, "save_commit") /\ UNCHANGED local
             ELSE Finish(r)
  /\ UNCHANGED <<tokenLive, rows>>

(* UPDATE, then the INSERT of the save's evidence row, then COMMIT. *)
SaveCommit(r) ==
  /\ pc[r] = "save_commit" /\ SessionFree(r)
  /\ draft' = [draft EXCEPT !.revision = @ + 1]
  /\ evidence' = evidence \cup {<<"draft_saved", draft.revision + 1>>}
  /\ Finish(r)
  /\ UNCHANGED <<tokenLive, invitation, session, disclosed, artifact, manifest>>

(* Wrong on purpose: evidence of the save recorded before the revisions are *)
(* compared, and kept when they differ.                                     *)
SaveInsertEvidenceFirst(r) ==
  /\ pc[r] = "save_insert" /\ SessionFree(r)
  /\ draft' = IF draft.exists THEN draft ELSE NewDraft
  /\ evidence' = evidence \cup {<<"draft_saved", 2>>}
  /\ Finish(r)
  /\ UNCHANGED <<tokenLive, invitation, session, disclosed, artifact, manifest>>

(* First save: INSERT revision 1, lock it, and go on as above.  The        *)
(* conflict reply is returned, not thrown, so the inserted row commits.    *)
SaveInsert(r) ==
  /\ pc[r] = "save_insert" /\ SessionFree(r)
  /\ LET matches == ~draft.exists /\ local[r].revision = 1 IN
       /\ draft' = IF matches THEN [NewDraft EXCEPT !.revision = 2]
                   ELSE IF draft.exists THEN draft ELSE NewDraft
       /\ evidence' = IF matches THEN evidence \cup {<<"draft_saved", 2>>} ELSE evidence
  /\ Finish(r)
  /\ UNCHANGED <<tokenLive, invitation, session, disclosed, artifact, manifest>>

-------------------------------------------------------------------------------
(* Artifacts. *)

(* Bound: no more rows are promised than Artifact has ids left. *)
ArtifactLeft ==
  Cardinality({q \in Request : pc[q] = "artifact_insert"})
    < Cardinality({a \in Artifact : artifact[a].status = "absent"})

ArtifactRead(r) ==
  /\ Begin(r) /\ session \in Editable
  /\ ArtifactLeft
  /\ Goto(r, "artifact_insert")
  /\ UNCHANGED <<tokenLive, rows, local>>

ArtifactInsert(r) ==
  /\ pc[r] = "artifact_insert" /\ SessionFree(r)
  /\ \E a \in Artifact :
       /\ artifact[a].status = "absent"
       /\ artifact' = [artifact EXCEPT ![a].status = "initiated"]
  /\ Finish(r)
  /\ UNCHANGED <<tokenLive, invitation, session, disclosed, draft, manifest, evidence>>

(* Neither completing nor removing looks at the session's status. *)
ArtifactComplete(r, a) ==
  /\ Begin(r) /\ session # "none"
  /\ artifact[a].status \notin {"absent", "frozen"}
  /\ artifact[a].upload < MaxUpload
  /\ artifact' = [artifact EXCEPT ![a] = [status |-> "available", upload |-> @.upload + 1]]
  /\ Idle(r)
  /\ UNCHANGED <<tokenLive, invitation, session, disclosed, draft, manifest, evidence>>

ArtifactRemove(r, a) ==
  /\ Begin(r) /\ session # "none"
  /\ artifact[a].status \notin {"absent", "frozen"}
  /\ artifact' = [artifact EXCEPT ![a].status = "removed"]
  /\ Idle(r)
  /\ UNCHANGED <<tokenLive, invitation, session, disclosed, draft, manifest, evidence>>

-------------------------------------------------------------------------------
(* Evidence ingestion: an unlocked status check, then the INSERT. *)

ResponseRead(r) ==
  /\ Begin(r) /\ session \in {"in_progress", "paused"}
  /\ Goto(r, "response_insert")
  /\ UNCHANGED <<tokenLive, rows, local>>

(* Wrong on purpose: telemetry taken from any session that exists. *)
TelemetryReadAnyState(r) ==
  /\ Begin(r) /\ session # "none"
  /\ Goto(r, "telemetry_insert")
  /\ UNCHANGED <<tokenLive, rows, local>>

TelemetryRead(r) ==
  /\ Begin(r) /\ session = "in_progress"
  /\ Goto(r, "telemetry_insert")
  /\ UNCHANGED <<tokenLive, rows, local>>

EvidenceInsert(r, label, kind) ==
  /\ pc[r] = label /\ SessionFree(r)
  /\ evidence' = evidence \cup {<<kind, 0>>}
  /\ Finish(r)
  /\ UNCHANGED <<tokenLive, invitation, session, disclosed, draft, artifact, manifest>>

ResponseInsert(r) == EvidenceInsert(r, "response_insert", "task_response")
TelemetryInsert(r) == EvidenceInsert(r, "telemetry_insert", "telemetry")

-------------------------------------------------------------------------------
(* Rollback: a thrown error, a lost connection, the process dying. *)
Abort(r) ==
  /\ pc[r] # "idle"
  /\ Finish(r)
  /\ UNCHANGED <<tokenLive, rows>>

(* A save holds the draft and waits for the session, a submit the reverse. *)
Deadlocked(r, q) ==
  /\ pc[r] = "save_commit"
  /\ pc[q] = "submit_finalise"

(* PostgreSQL cancels one transaction of a waiting cycle. *)
DeadlockVictim ==
  \E r, q \in Request :
    /\ Deadlocked(r, q)
    /\ Finish(r) \/ Finish(q)
    /\ UNCHANGED <<tokenLive, rows>>

Landing == \E r \in Request : LandingRead(r) \/ LandingOpen(r) \/ Accept(r)

SessionStep ==
  \E r \in Request :
    \/ Acknowledge(r)
    \/ \E event \in {"start", "pause", "resume", "withdraw"} : Lifecycle(r, event)

SubmitStep ==
  \E r \in Request :
    \/ SubmitLock(r) \/ SubmitReadDraft(r) \/ SubmitReadArtifacts(r)
    \/ SubmitFinalise(r) \/ SubmitCommit(r)

SaveStep ==
  \E r \in Request :
    \/ WorkspaceRead(r) \/ WorkspaceInsert(r)
    \/ \E expected \in 1..(MaxRevision - 1) : SaveRead(r, expected)
    \/ SaveLock(r) \/ SaveCommit(r) \/ SaveInsert(r)

ArtifactStep ==
  \E r \in Request :
    \/ ArtifactRead(r) \/ ArtifactInsert(r)
    \/ \E a \in Artifact : ArtifactComplete(r, a) \/ ArtifactRemove(r, a)

EvidenceStep ==
  \E r \in Request :
    ResponseRead(r) \/ ResponseInsert(r) \/ TelemetryRead(r) \/ TelemetryInsert(r)

Next ==
  \/ TokenExpires \/ Reissue \/ Landing
  \/ SessionStep \/ SubmitStep \/ SaveStep \/ ArtifactStep \/ EvidenceStep
  \/ DeadlockVictim \/ \E r \in Request : Abort(r)

(* The statement a slot waits to run: it runs once its lock is granted.    *)
(* PostgreSQL queues lock waiters, so a lock freed again and again is      *)
(* granted in the end; aborts, clicks and the clock are nobody's duty.     *)
Progress(r) ==
  \/ LandingOpen(r)
  \/ SubmitReadDraft(r) \/ SubmitReadArtifacts(r) \/ SubmitFinalise(r) \/ SubmitCommit(r)
  \/ WorkspaceInsert(r) \/ SaveLock(r) \/ SaveCommit(r) \/ SaveInsert(r)
  \/ ArtifactInsert(r) \/ ResponseInsert(r) \/ TelemetryInsert(r)

Fairness == WF_vars(DeadlockVictim) /\ \A r \in Request : SF_vars(Progress(r))

Spec == Init /\ [][Next]_vars
FairSpec == Spec /\ Fairness

-------------------------------------------------------------------------------
(* Properties. *)

SavedRevisions == {e[2] : e \in {x \in evidence : x[1] = "draft_saved"}}

(* What a submission seals is what was last saved: a finalised draft stands *)
(* at exactly the revision its manifest names, although submit reads the    *)
(* draft without locking it and a save never looks at the session again.    *)
ManifestPinsDraft ==
  draft.finalised => manifest.written /\ manifest.revision = draft.revision

(* Nothing is ingested before the candidate acknowledged the disclosure    *)
(* (BR-01), through any handler that checks the status without a lock.      *)
DisclosureFirst ==
  /\ evidence # {} => disclosed
  /\ session \in SessionState \ {"disclosure_pending", "withdrawn"} => disclosed

(* Every committed revision has its draft_saved row and no rolled-back or  *)
(* rejected save leaves one.                                                *)
SavesAreEvidenced == SavedRevisions = 2..draft.revision

(* What the submission finalised or froze, no later handler rewrites.       *)
SealedStaysSealed ==
  [][ /\ draft.finalised => draft' = draft
      /\ manifest.written => manifest' = manifest
      /\ \A a \in Artifact : artifact[a].status = "frozen" => artifact'[a] = artifact[a] ]_vars

(* The portal moves the session as the session machine allows, and writes  *)
(* its manifest in the very step that submits.                              *)
Lifecycle1 == INSTANCE SessionLifecycle WITH status <- session, submission <- manifest.written
ImplementsLifecycle == Lifecycle1!Spec

(* No request is left waiting for a row: the save and the submit that lock  *)
(* draft and session in opposite orders included.                           *)
RequestsEnd == \A r \in Request : pc[r] # "idle" ~> pc[r] = "idle"

(* "accepted" is terminal in the invitation machine. *)
AcceptedIsTerminal == [][invitation = "accepted" => invitation' = "accepted"]_vars

===============================================================================
