------------------------ MODULE CandidatePortalProofs ------------------------
(***************************************************************************)
(* Theorems about the V1 candidate portal, for any number of concurrent    *)
(* requests and artifacts and any bounds.                                  *)
(***************************************************************************)
EXTENDS CandidatePortal, FiniteSetTheorems, TLAPS

-------------------------------------------------------------------------------
(* The inductive invariant. *)

(* FOR UPDATE of the session row and of the draft row exclude. *)
LocksExclude ==
  /\ \A q, r \in Request : HoldsSession(q) /\ HoldsSession(r) => q = r
  /\ \A q, r \in Request : HoldsDraft(q) /\ HoldsDraft(r) => q = r

(* While a submission holds the session row nobody moves the session ... *)
SubmitsInProgress == \A r \in Request : HoldsSession(r) => session = "in_progress"

(* ... and nobody changes or creates the draft it has read. *)
ReadDraftStands ==
  \A r \in Request :
    pc[r] \in Submitting \ {"submit_read_draft"}
      => local[r].revision = IF draft.exists THEN draft.revision ELSE 1

(* The manifest is written in the step that submits and in no other, and   *)
(* the portal leads to no state behind "submitted".                        *)
SubmittedIsWritten ==
  /\ manifest.written <=> session = "submitted"
  /\ session \in Unsubmitted \cup {"none", "submitted", "withdrawn"}

DraftShape ==
  /\ draft.exists => draft.revision >= 1
  /\ ~draft.exists => draft = NoDraft

Saving == {"save_lock", "save_insert", "save_commit"}

(* A save knows the revision it was sent, below the bound, and from the    *)
(* moment it holds the draft that is the draft's revision.                 *)
SavesCompare ==
  \A r \in Request :
    /\ pc[r] \in Saving => local[r].revision \in 1..(MaxRevision - 1)
    /\ pc[r] = "save_commit"
         => draft.exists /\ ~draft.finalised /\ draft.revision = local[r].revision

(* What was admitted by a status check was admitted after the disclosure. *)
AdmittedDisclosed ==
  \A r \in Request :
    pc[r] \in Saving \cup Submitting \cup {"response_insert", "telemetry_insert"} => disclosed

(* The part about who holds which row, and the part about what is recorded. *)
LockInv == LocksExclude /\ SubmitsInProgress /\ ReadDraftStands /\ SavesCompare

RecordInv ==
  /\ SubmittedIsWritten /\ DraftShape /\ AdmittedDisclosed
  /\ ManifestPinsDraft /\ DisclosureFirst /\ SavesAreEvidenced

IInv == TypeOK /\ LockInv /\ RecordInv

(* One more saved revision: the evidence row of a save names the revision  *)
(* the save wrote.                                                          *)
LEMMA EvidenceAdds ==
  ASSUME NEW n \in Nat, evidence' = evidence \cup {<<"draft_saved", n>>}
  PROVE  SavedRevisions' = SavedRevisions \cup {n}
<1>1. {x \in evidence' : x[1] = "draft_saved"}
        = {x \in evidence : x[1] = "draft_saved"} \cup {<<"draft_saved", n>>}
  OBVIOUS
<1>2. <<"draft_saved", n>>[2] = n
  OBVIOUS
<1>. QED BY <1>1, <1>2 DEF SavedRevisions

-------------------------------------------------------------------------------
(* The invitation. *)

(* Reading the invitation changes no row. *)
LEMMA LandingReadKeeps ==
  ASSUME IInv, NEW r \in Request, LandingRead(r)
  PROVE  IInv'
<1>. USE DEF IInv, LockInv, RecordInv
<1>1. TypeOK'
  BY DEF LandingRead, TypeOK, rows, Goto, PC
<1>2. LockInv'
  BY DEF LandingRead, LocksExclude, SubmitsInProgress, ReadDraftStands,
     SavesCompare, rows, Goto, HoldsSession, HoldsDraft, Submitting, Saving
<1>3. RecordInv'
  BY DEF LandingRead, SubmittedIsWritten, DraftShape, AdmittedDisclosed,
     ManifestPinsDraft, DisclosureFirst, SavesAreEvidenced, rows, Goto,
     Submitting, Saving, SavedRevisions
<1>. QED BY <1>1, <1>2, <1>3

(* The landing write touches the invitation alone. *)
LEMMA LandingOpenKeeps ==
  ASSUME IInv, NEW r \in Request, LandingOpen(r)
  PROVE  IInv'
<1>. USE DEF IInv, LockInv, RecordInv
<1>1. TypeOK'
  BY BoundsAssumption DEF LandingOpen, TypeOK, Goto, Finish, NoLocal, PC,
     InvitationState
<1>2. LockInv'
  BY DEF LandingOpen, LocksExclude, SubmitsInProgress, ReadDraftStands,
     SavesCompare, Goto, Finish, HoldsSession, HoldsDraft, Submitting,
     Saving
<1>3. RecordInv'
  BY DEF LandingOpen, SubmittedIsWritten, DraftShape, AdmittedDisclosed,
     ManifestPinsDraft, DisclosureFirst, SavesAreEvidenced, Goto, Finish,
     Submitting, Saving, SavedRevisions
<1>. QED BY <1>1, <1>2, <1>3

(* Acceptance inserts the session row, of which nothing exists yet. *)
LEMMA AcceptKeeps ==
  ASSUME IInv, NEW r \in Request, Accept(r)
  PROVE  IInv'
<1>. USE DEF IInv, LockInv, RecordInv
<1>1. TypeOK'
  BY DEF Accept, TypeOK, Idle, SessionState
<1>2. LockInv'
  BY DEF Accept, LocksExclude, SubmitsInProgress, ReadDraftStands,
     SavesCompare, Idle, HoldsSession, HoldsDraft
<1>3. RecordInv'
  BY DEF Accept, SubmittedIsWritten, DraftShape, AdmittedDisclosed,
     ManifestPinsDraft, DisclosureFirst, SavesAreEvidenced, Idle,
     Unsubmitted, SavedRevisions
<1>. QED BY <1>1, <1>2, <1>3

-------------------------------------------------------------------------------
(* The session. *)

(* Acknowledging writes the disclosure record with the transition. *)
LEMMA AcknowledgeKeeps ==
  ASSUME IInv, NEW r \in Request, Acknowledge(r)
  PROVE  IInv'
<1>. USE DEF IInv, LockInv, RecordInv
<1>1. TypeOK'
  BY DEF Acknowledge, TypeOK, Idle
<1>2. LockInv'
  BY DEF Acknowledge, LocksExclude, SubmitsInProgress, ReadDraftStands,
     SavesCompare, AdmittedDisclosed, Idle, HoldsSession, HoldsDraft
<1>3. RecordInv'
  BY DEF Acknowledge, SubmittedIsWritten, DraftShape, AdmittedDisclosed,
     ManifestPinsDraft, DisclosureFirst, SavesAreEvidenced, Unsubmitted,
     SavedRevisions, Step, SessionTransition
<1>. QED BY <1>1, <1>2, <1>3

(* transitionSession moves the session only while no submit holds its row. *)
LEMMA LifecycleKeeps ==
  ASSUME IInv, NEW r \in Request, NEW event \in {"start", "pause", "resume", "withdraw"},
         Lifecycle(r, event)
  PROVE  IInv'
<1>. USE DEF IInv, LockInv, RecordInv
<1>1. TypeOK'
  BY DEF Lifecycle, TypeOK, Idle
<1>2. LockInv'
  BY DEF Lifecycle, LocksExclude, SubmitsInProgress, ReadDraftStands,
     SavesCompare, Begin, Idle, HoldsSession, HoldsDraft, SessionFree,
     Submitting
<1>3. RecordInv'
  BY DEF Lifecycle, SubmittedIsWritten, DraftShape, AdmittedDisclosed,
     ManifestPinsDraft, DisclosureFirst, SavesAreEvidenced, Idle,
     Unsubmitted, SessionState, SavedRevisions, Step, SessionTransition
<1>. QED BY <1>1, <1>2, <1>3

-------------------------------------------------------------------------------
(* Submission. *)

(* Submit takes the session row that no other submit holds. *)
LEMMA SubmitLockKeeps ==
  ASSUME IInv, NEW r \in Request, SubmitLock(r)
  PROVE  IInv'
<1>. USE DEF IInv, LockInv, RecordInv
<1>1. TypeOK'
  BY DEF SubmitLock, TypeOK, rows, Goto, Submitting, PC
<1>2. LockInv'
  BY DEF SubmitLock, LocksExclude, SubmitsInProgress, ReadDraftStands,
     SavesCompare, rows, Goto, HoldsSession, HoldsDraft, SessionFree,
     Saving, Step, SessionTransition
<1>3. RecordInv'
  BY DEF SubmitLock, SubmittedIsWritten, DraftShape, AdmittedDisclosed,
     ManifestPinsDraft, DisclosureFirst, SavesAreEvidenced, rows,
     SessionState, SavedRevisions, Step, SessionTransition
<1>. QED BY <1>1, <1>2, <1>3

(* The revision submit reads is the draft's: nobody else may write now. *)
LEMMA SubmitReadDraftKeeps ==
  ASSUME IInv, NEW r \in Request, SubmitReadDraft(r)
  PROVE  IInv'
<1>. USE DEF IInv, LockInv, RecordInv
<1>1. TypeOK'
  BY BoundsAssumption DEF SubmitReadDraft, TypeOK, rows, Goto, Submitting,
     PC
<1>2. LockInv'
  BY DEF SubmitReadDraft, LocksExclude, SubmitsInProgress, ReadDraftStands,
     SavesCompare, TypeOK, rows, Goto, HoldsSession, HoldsDraft, Submitting,
     Saving
<1>3. RecordInv'
  BY DEF SubmitReadDraft, SubmittedIsWritten, DraftShape, AdmittedDisclosed,
     ManifestPinsDraft, DisclosureFirst, SavesAreEvidenced, TypeOK, rows,
     PC, SavedRevisions
<1>. QED BY <1>1, <1>2, <1>3

(* Reading the artifacts leaves the revision read before. *)
LEMMA SubmitReadArtifactsKeeps ==
  ASSUME IInv, NEW r \in Request, SubmitReadArtifacts(r)
  PROVE  IInv'
<1>. USE DEF IInv, LockInv, RecordInv
<1>1. TypeOK'
  BY DEF SubmitReadArtifacts, TypeOK, rows, Goto, Submitting, PC, Entry
<1>2. LockInv'
  BY DEF SubmitReadArtifacts, LocksExclude, SubmitsInProgress,
     ReadDraftStands, SavesCompare, rows, Goto, HoldsSession, HoldsDraft,
     Submitting, Saving
<1>3. RecordInv'
  BY DEF SubmitReadArtifacts, SubmittedIsWritten, DraftShape,
     AdmittedDisclosed, ManifestPinsDraft, DisclosureFirst,
     SavesAreEvidenced, TypeOK, rows, PC, SavedRevisions
<1>. QED BY <1>1, <1>2, <1>3

(* The finalising UPDATE takes the draft row from nobody. *)
LEMMA SubmitFinaliseKeeps ==
  ASSUME IInv, NEW r \in Request, SubmitFinalise(r)
  PROVE  IInv'
<1>. USE DEF IInv, LockInv, RecordInv
<1>1. TypeOK'
  BY DEF SubmitFinalise, TypeOK, rows, Goto, Submitting, PC
<1>2. LockInv'
  BY DEF SubmitFinalise, LocksExclude, SubmitsInProgress, ReadDraftStands,
     SavesCompare, rows, Goto, HoldsSession, HoldsDraft, DraftFree,
     Submitting, Saving
<1>3. RecordInv'
  BY DEF SubmitFinalise, SubmittedIsWritten, DraftShape, AdmittedDisclosed,
     ManifestPinsDraft, DisclosureFirst, SavesAreEvidenced, TypeOK, rows,
     PC, SavedRevisions
<1>. QED BY <1>1, <1>2, <1>3

(* COMMIT of a submission writes its manifest and closes the session. *)
LEMMA SubmitCommitKeeps ==
  ASSUME IInv, NEW r \in Request, SubmitCommit(r) PROVE IInv'
<1>. USE DEF IInv, LockInv, RecordInv
<1>1. /\ session = "in_progress" /\ session' = "submitted"
      /\ local[r].revision = IF draft.exists THEN draft.revision ELSE 1
  BY DEF SubmitCommit, SubmitsInProgress, ReadDraftStands, HoldsSession,
     Submitting
<1>2. /\ ~manifest.written
      /\ manifest' = [written |-> TRUE, revision |-> local[r].revision,
                      entries |-> local[r].entries]
  BY <1>1 DEF SubmitCommit, SubmittedIsWritten
<1>3. /\ draft'.exists = draft.exists /\ draft'.revision = draft.revision
      /\ draft'.finalised = draft.exists \/ draft'.finalised = draft.finalised
      /\ ~draft.exists => draft' = draft
      /\ draft' \in [exists : BOOLEAN, revision : 0..MaxRevision, finalised : BOOLEAN]
  <2>1. draft \in [exists : BOOLEAN, revision : 0..MaxRevision, finalised : BOOLEAN]
    BY DEF TypeOK
  <2>2. CASE draft.exists
    <3>1. draft' = [draft EXCEPT !.finalised = TRUE]
      BY <2>2 DEF SubmitCommit
    <3>. QED BY <2>1, <2>2, <3>1
  <2>3. CASE ~draft.exists
    BY <2>1, <2>3 DEF SubmitCommit
  <2>. QED BY <2>2, <2>3
<1>4. artifact' \in [Artifact -> [status : ArtifactStatus, upload : 0..MaxUpload]]
  BY DEF SubmitCommit, TypeOK, ArtifactStatus
<1>5. TypeOK'
  BY <1>1, <1>2, <1>3, <1>4, BoundsAssumption DEF SubmitCommit, TypeOK,
     Goto, Finish, NoLocal, PC, SessionState
<1>6. LockInv'
  BY DEF SubmitCommit, LocksExclude, ReadDraftStands, SavesCompare,
     SubmitsInProgress, TypeOK,
     Goto, Finish, HoldsSession, HoldsDraft, Submitting, Saving
<1>7. SavesAreEvidenced'
  BY <1>3 DEF SubmitCommit, SavesAreEvidenced, SavedRevisions
<1>8. SubmittedIsWritten' /\ DraftShape' /\ ManifestPinsDraft'
  <2>1. SubmittedIsWritten'
    BY <1>1, <1>2 DEF SubmittedIsWritten
  <2>2. DraftShape'
    BY <1>3 DEF DraftShape
  <2>3. ManifestPinsDraft'
    <3>1. CASE draft.exists
      BY <1>1, <1>2, <1>3, <3>1 DEF ManifestPinsDraft
    <3>2. CASE ~draft.exists
      BY <1>3, <3>2 DEF ManifestPinsDraft, DraftShape, NoDraft
    <3>. QED BY <3>1, <3>2
  <2>. QED BY <2>1, <2>2, <2>3
<1>9. AdmittedDisclosed' /\ DisclosureFirst'
  BY DEF SubmitCommit, AdmittedDisclosed, DisclosureFirst, Goto, Finish,
     Saving, Submitting, TypeOK
<1>10. RecordInv'
  BY <1>7, <1>8, <1>9
<1>. QED BY <1>5, <1>6, <1>10

-------------------------------------------------------------------------------
(* The draft. *)

(* Looking for the draft changes no row. *)
LEMMA WorkspaceReadKeeps ==
  ASSUME IInv, NEW r \in Request, WorkspaceRead(r)
  PROVE  IInv'
<1>. USE DEF IInv, LockInv, RecordInv
<1>1. TypeOK'
  BY DEF WorkspaceRead, TypeOK, rows, Goto, PC
<1>2. LockInv'
  BY DEF WorkspaceRead, LocksExclude, SubmitsInProgress, ReadDraftStands,
     SavesCompare, rows, Goto, HoldsSession, HoldsDraft, Submitting, Saving
<1>3. RecordInv'
  BY DEF WorkspaceRead, SubmittedIsWritten, DraftShape, AdmittedDisclosed,
     ManifestPinsDraft, DisclosureFirst, SavesAreEvidenced, rows, Goto,
     Submitting, Saving, SavedRevisions
<1>. QED BY <1>1, <1>2, <1>3

(* The read that creates the draft creates it at revision 1. *)
LEMMA WorkspaceInsertKeeps ==
  ASSUME IInv, NEW r \in Request, WorkspaceInsert(r)
  PROVE  IInv'
<1>. USE DEF IInv, LockInv, RecordInv
<1>1. TypeOK'
  BY BoundsAssumption DEF WorkspaceInsert, TypeOK, Goto, Finish, NewDraft,
     NoLocal, PC
<1>2. LockInv'
  BY DEF WorkspaceInsert, LocksExclude, SubmitsInProgress, ReadDraftStands,
     SavesCompare, Goto, Finish, HoldsSession, HoldsDraft, SessionFree,
     Submitting, Saving
<1>3. RecordInv'
  BY DEF WorkspaceInsert, SubmittedIsWritten, DraftShape, AdmittedDisclosed,
     ManifestPinsDraft, DisclosureFirst, SavesAreEvidenced, Goto, Finish,
     Submitting, Saving, NoDraft, NewDraft, SavedRevisions
<1>. QED BY <1>1, <1>2, <1>3

(* A save is admitted to an open session, so after the disclosure. *)
LEMMA SaveReadKeeps ==
  ASSUME IInv, NEW r \in Request, NEW expected \in 1..(MaxRevision - 1),
         SaveRead(r, expected)
  PROVE  IInv'
<1>. USE DEF IInv, LockInv, RecordInv
<1>1. TypeOK'
  BY BoundsAssumption DEF SaveRead, TypeOK, rows, Goto, PC
<1>2. LockInv'
  BY DEF SaveRead, LocksExclude, SubmitsInProgress, ReadDraftStands,
     SavesCompare, TypeOK, rows, Goto, HoldsSession, HoldsDraft, Submitting
<1>3. RecordInv'
  BY DEF SaveRead, SubmittedIsWritten, DraftShape, AdmittedDisclosed,
     ManifestPinsDraft, DisclosureFirst, SavesAreEvidenced, rows, Editable,
     SessionState, SavedRevisions
<1>. QED BY <1>1, <1>2, <1>3

(* A save goes on only with the draft locked, open and unchanged. *)
LEMMA SaveLockKeeps ==
  ASSUME IInv, NEW r \in Request, SaveLock(r)
  PROVE  IInv'
<1>. USE DEF IInv, LockInv, RecordInv
<1>1. TypeOK'
  BY BoundsAssumption DEF SaveLock, TypeOK, rows, Goto, Finish, NoLocal, PC
<1>2. LockInv'
  BY DEF SaveLock, LocksExclude, SubmitsInProgress, ReadDraftStands,
     SavesCompare, ManifestPinsDraft, SubmittedIsWritten, TypeOK, rows,
     Goto, Finish, HoldsSession, HoldsDraft, DraftFree, Submitting, Saving
<1>3. RecordInv'
  BY DEF SaveLock, SubmittedIsWritten, DraftShape, AdmittedDisclosed,
     ManifestPinsDraft, DisclosureFirst, SavesAreEvidenced, rows, Saving,
     SavedRevisions
<1>. QED BY <1>1, <1>2, <1>3

(* COMMIT of a save raises the revision by the one it has evidence of. *)
LEMMA SaveCommitKeeps ==
  ASSUME IInv, NEW r \in Request, SaveCommit(r) PROVE IInv'
<1>. USE DEF IInv, LockInv, RecordInv
<1>1. TypeOK'
  BY BoundsAssumption DEF SaveCommit, TypeOK, SavesCompare, Goto, Finish,
     Saving, NoLocal, PC, EvidenceKind
<1>2. LockInv'
  BY DEF SaveCommit, LocksExclude, ReadDraftStands, SavesCompare,
     SubmitsInProgress, TypeOK, Goto, Finish, HoldsSession, HoldsDraft,
     SessionFree, Submitting, Saving
<1>3. /\ draft.exists /\ ~draft.finalised /\ draft.revision \in 1..(MaxRevision - 1)
      /\ draft'.exists /\ ~draft'.finalised /\ draft'.revision = draft.revision + 1
  BY DEF SaveCommit, TypeOK, SavesCompare, Saving
<1>4. SavesAreEvidenced'
  <2>1. SavedRevisions' = SavedRevisions \cup {draft.revision + 1}
    <3>1. draft.revision + 1 \in Nat
      BY <1>3, BoundsAssumption
    <3>2. evidence' = evidence \cup {<<"draft_saved", draft.revision + 1>>}
      BY DEF SaveCommit
    <3>. QED BY <3>1, <3>2, EvidenceAdds
  <2>2. 2..(draft.revision + 1) = (2..draft.revision) \cup {draft.revision + 1}
    <3>1. \A n \in Nat \ {0} : 2..(n + 1) = (2..n) \cup {n + 1}
      OBVIOUS
    <3>2. draft.revision \in Nat \ {0}
      BY <1>3, BoundsAssumption
    <3>. QED BY <3>1, <3>2
  <2>. QED BY <1>3, <2>1, <2>2 DEF SavesAreEvidenced
<1>5. RecordInv'
  BY <1>3, <1>4, BoundsAssumption DEF SaveCommit, SubmittedIsWritten,
     DraftShape, AdmittedDisclosed,
     ManifestPinsDraft, DisclosureFirst, Goto, Finish, Saving, Submitting, TypeOK
<1>. QED BY <1>1, <1>2, <1>5

(* A first save creates the draft, and counts only from revision 1. *)
LEMMA SaveInsertKeeps ==
  ASSUME IInv, NEW r \in Request, SaveInsert(r) PROVE IInv'
<1>. USE DEF IInv, LockInv, RecordInv
<1>1. 1 < MaxRevision
  BY BoundsAssumption DEF SaveInsert, SavesCompare, Saving
<1>2. CASE ~draft.exists /\ local[r].revision = 1
  <2>1. /\ draft' = [exists |-> TRUE, revision |-> 2, finalised |-> FALSE]
        /\ evidence' = evidence \cup {<<"draft_saved", 2>>}
    BY <1>2 DEF SaveInsert, NewDraft
  <2>2. SavesAreEvidenced'
    <3>1. SavedRevisions = {}
      BY <1>2 DEF SavesAreEvidenced, DraftShape, NoDraft
    <3>2. SavedRevisions' = {2}
      BY <2>1, <3>1, EvidenceAdds
    <3>. QED BY <2>1, <3>2 DEF SavesAreEvidenced
  <2>3. /\ evidence' \in SUBSET EvidenceKind
        /\ draft' \in [exists : BOOLEAN, revision : 0..MaxRevision, finalised : BOOLEAN]
    BY <1>1, <2>1, BoundsAssumption DEF EvidenceKind, TypeOK
  <2>4. TypeOK'
    BY <2>3, BoundsAssumption DEF SaveInsert, TypeOK, Goto, Finish, NoLocal, PC
  <2>5. LockInv'
    BY <1>2, <2>1 DEF SaveInsert, LocksExclude, ReadDraftStands,
       SavesCompare, SubmitsInProgress,
       TypeOK, Goto, Finish, HoldsSession, HoldsDraft, SessionFree, Submitting, Saving
  <2>6. RecordInv'
    BY <1>2, <2>1, <2>2 DEF SaveInsert, SubmittedIsWritten, DraftShape,
       AdmittedDisclosed,
       ManifestPinsDraft, DisclosureFirst, Goto, Finish, Saving, Submitting, TypeOK
  <2>. QED BY <2>4, <2>5, <2>6
<1>3. CASE ~(~draft.exists /\ local[r].revision = 1)
  <2>1. /\ draft' = IF draft.exists THEN draft ELSE NewDraft
        /\ evidence' = evidence
    BY <1>3 DEF SaveInsert
  <2>2. SavesAreEvidenced'
    <3>1. SavedRevisions' = SavedRevisions
      BY <2>1 DEF SavedRevisions
    <3>2. CASE draft.exists
      BY <2>1, <3>1, <3>2 DEF SavesAreEvidenced
    <3>3. CASE ~draft.exists
      BY <2>1, <3>1, <3>3 DEF SavesAreEvidenced, DraftShape, NoDraft, NewDraft
    <3>. QED BY <3>2, <3>3
  <2>4. TypeOK'
    BY <2>1, BoundsAssumption DEF SaveInsert, TypeOK, Goto, Finish,
       NoLocal, NewDraft, PC
  <2>5. LockInv'
    BY <2>1 DEF SaveInsert, NewDraft, LocksExclude, ReadDraftStands,
       SavesCompare, SubmitsInProgress,
       TypeOK, Goto, Finish, HoldsSession, HoldsDraft, SessionFree, Submitting, Saving
  <2>6. RecordInv'
    BY <2>1, <2>2 DEF SaveInsert, NoDraft, NewDraft, SubmittedIsWritten,
       DraftShape, AdmittedDisclosed,
       ManifestPinsDraft, DisclosureFirst, Goto, Finish, Saving, Submitting, TypeOK
  <2>. QED BY <2>4, <2>5, <2>6
<1>. QED BY <1>2, <1>3

-------------------------------------------------------------------------------
(* Artifacts, evidence, rollback. *)

(* Starting an upload is admitted by an open session. *)
LEMMA ArtifactReadKeeps ==
  ASSUME IInv, NEW r \in Request, ArtifactRead(r)
  PROVE  IInv'
<1>. USE DEF IInv, LockInv, RecordInv
<1>1. TypeOK'
  BY DEF ArtifactRead, TypeOK, rows, Goto, PC
<1>2. LockInv'
  BY DEF ArtifactRead, LocksExclude, SubmitsInProgress, ReadDraftStands,
     SavesCompare, rows, Goto, HoldsSession, HoldsDraft, Submitting, Saving
<1>3. RecordInv'
  BY DEF ArtifactRead, SubmittedIsWritten, DraftShape, AdmittedDisclosed,
     ManifestPinsDraft, DisclosureFirst, SavesAreEvidenced, rows, Editable,
     SessionState, SavedRevisions
<1>. QED BY <1>1, <1>2, <1>3

(* The new artifact row is nobody's yet. *)
LEMMA ArtifactInsertKeeps ==
  ASSUME IInv, NEW r \in Request, ArtifactInsert(r)
  PROVE  IInv'
<1>. USE DEF IInv, LockInv, RecordInv
<1>1. TypeOK'
  BY BoundsAssumption DEF ArtifactInsert, TypeOK, Goto, Finish, NoLocal, PC,
     ArtifactStatus
<1>2. LockInv'
  BY DEF ArtifactInsert, LocksExclude, SubmitsInProgress, ReadDraftStands,
     SavesCompare, Goto, Finish, HoldsSession, HoldsDraft, Submitting,
     Saving
<1>3. RecordInv'
  BY DEF ArtifactInsert, SubmittedIsWritten, DraftShape, AdmittedDisclosed,
     ManifestPinsDraft, DisclosureFirst, SavesAreEvidenced, Goto, Finish,
     Submitting, Saving, SavedRevisions
<1>. QED BY <1>1, <1>2, <1>3

(* Completing an upload touches an unfrozen artifact only. *)
LEMMA ArtifactCompleteKeeps ==
  ASSUME IInv, NEW r \in Request, NEW a \in Artifact, ArtifactComplete(r, a)
  PROVE  IInv'
<1>. USE DEF IInv, LockInv, RecordInv
<1>1. TypeOK'
  BY BoundsAssumption DEF ArtifactComplete, TypeOK, Idle, ArtifactStatus
<1>2. LockInv'
  BY DEF ArtifactComplete, LocksExclude, SubmitsInProgress, ReadDraftStands,
     SavesCompare, Idle, HoldsSession, HoldsDraft
<1>3. RecordInv'
  BY DEF ArtifactComplete, SubmittedIsWritten, DraftShape,
     AdmittedDisclosed, ManifestPinsDraft, DisclosureFirst,
     SavesAreEvidenced, Idle, SavedRevisions
<1>. QED BY <1>1, <1>2, <1>3

(* Removing touches an unfrozen artifact only. *)
LEMMA ArtifactRemoveKeeps ==
  ASSUME IInv, NEW r \in Request, NEW a \in Artifact, ArtifactRemove(r, a)
  PROVE  IInv'
<1>. USE DEF IInv, LockInv, RecordInv
<1>1. TypeOK'
  BY DEF ArtifactRemove, TypeOK, Idle, ArtifactStatus
<1>2. LockInv'
  BY DEF ArtifactRemove, LocksExclude, SubmitsInProgress, ReadDraftStands,
     SavesCompare, Idle, HoldsSession, HoldsDraft
<1>3. RecordInv'
  BY DEF ArtifactRemove, SubmittedIsWritten, DraftShape, AdmittedDisclosed,
     ManifestPinsDraft, DisclosureFirst, SavesAreEvidenced, Idle,
     SavedRevisions
<1>. QED BY <1>1, <1>2, <1>3

(* A task response is admitted by a started session. *)
LEMMA ResponseReadKeeps ==
  ASSUME IInv, NEW r \in Request, ResponseRead(r)
  PROVE  IInv'
<1>. USE DEF IInv, LockInv, RecordInv
<1>1. TypeOK'
  BY DEF ResponseRead, TypeOK, rows, Goto, PC
<1>2. LockInv'
  BY DEF ResponseRead, LocksExclude, SubmitsInProgress, ReadDraftStands,
     SavesCompare, rows, Goto, HoldsSession, HoldsDraft, Submitting, Saving
<1>3. RecordInv'
  BY DEF ResponseRead, SubmittedIsWritten, DraftShape, AdmittedDisclosed,
     ManifestPinsDraft, DisclosureFirst, SavesAreEvidenced, rows,
     SessionState, SavedRevisions
<1>. QED BY <1>1, <1>2, <1>3

(* The response it was admitted for is ingested. *)
LEMMA ResponseInsertKeeps ==
  ASSUME IInv, NEW r \in Request, ResponseInsert(r)
  PROVE  IInv'
<1>. USE DEF IInv, LockInv, RecordInv
<1>1. TypeOK'
  BY BoundsAssumption DEF ResponseInsert, TypeOK, Goto, Finish, NoLocal,
     EvidenceInsert, PC, EvidenceKind
<1>2. LockInv'
  BY DEF ResponseInsert, LocksExclude, SubmitsInProgress, ReadDraftStands,
     SavesCompare, Goto, Finish, HoldsSession, HoldsDraft, Submitting,
     Saving, EvidenceInsert
<1>3. RecordInv'
  BY DEF ResponseInsert, SubmittedIsWritten, DraftShape, AdmittedDisclosed,
     ManifestPinsDraft, DisclosureFirst, SavesAreEvidenced, EvidenceInsert,
     SavedRevisions
<1>. QED BY <1>1, <1>2, <1>3

(* Telemetry is admitted by a session in progress. *)
LEMMA TelemetryReadKeeps ==
  ASSUME IInv, NEW r \in Request, TelemetryRead(r)
  PROVE  IInv'
<1>. USE DEF IInv, LockInv, RecordInv
<1>1. TypeOK'
  BY DEF TelemetryRead, TypeOK, rows, Goto, PC
<1>2. LockInv'
  BY DEF TelemetryRead, LocksExclude, SubmitsInProgress, ReadDraftStands,
     SavesCompare, rows, Goto, HoldsSession, HoldsDraft, Submitting, Saving
<1>3. RecordInv'
  BY DEF TelemetryRead, SubmittedIsWritten, DraftShape, AdmittedDisclosed,
     ManifestPinsDraft, DisclosureFirst, SavesAreEvidenced, rows,
     SessionState, SavedRevisions
<1>. QED BY <1>1, <1>2, <1>3

(* The telemetry it was admitted for is ingested. *)
LEMMA TelemetryInsertKeeps ==
  ASSUME IInv, NEW r \in Request, TelemetryInsert(r)
  PROVE  IInv'
<1>. USE DEF IInv, LockInv, RecordInv
<1>1. TypeOK'
  BY BoundsAssumption DEF TelemetryInsert, TypeOK, Goto, Finish, NoLocal,
     EvidenceInsert, PC, EvidenceKind
<1>2. LockInv'
  BY DEF TelemetryInsert, LocksExclude, SubmitsInProgress, ReadDraftStands,
     SavesCompare, Goto, Finish, HoldsSession, HoldsDraft, Submitting,
     Saving, EvidenceInsert
<1>3. RecordInv'
  BY DEF TelemetryInsert, SubmittedIsWritten, DraftShape, AdmittedDisclosed,
     ManifestPinsDraft, DisclosureFirst, SavesAreEvidenced, EvidenceInsert,
     SavedRevisions
<1>. QED BY <1>1, <1>2, <1>3

(* ROLLBACK releases what the transaction held and writes nothing. *)
LEMMA AbortKeeps ==
  ASSUME IInv, NEW r \in Request, Abort(r)
  PROVE  IInv'
<1>. USE DEF IInv, LockInv, RecordInv
<1>1. TypeOK'
  BY BoundsAssumption DEF Abort, TypeOK, rows, Goto, Finish, NoLocal, PC
<1>2. LockInv'
  BY DEF Abort, LocksExclude, SubmitsInProgress, ReadDraftStands,
     SavesCompare, TypeOK, rows, Goto, Finish, HoldsSession, HoldsDraft,
     Submitting, Saving
<1>3. RecordInv'
  BY DEF Abort, SubmittedIsWritten, DraftShape, AdmittedDisclosed,
     ManifestPinsDraft, DisclosureFirst, SavesAreEvidenced, rows, Goto,
     Finish, Submitting, Saving, SavedRevisions
<1>. QED BY <1>1, <1>2, <1>3

-------------------------------------------------------------------------------
(* The invariant, and what follows from it. *)

(* The clock and the recruiter: neither touches the session's own rows.    *)
LEMMA OutsideKeeps ==
  ASSUME IInv, TokenExpires \/ Reissue \/ UNCHANGED vars PROVE IInv'
<1>. USE DEF IInv, LockInv, RecordInv
<1>1. TypeOK'
  BY DEF TypeOK, TokenExpires, Reissue, vars, rows, InvitationState
<1>2. LockInv'
  BY DEF LocksExclude, SubmitsInProgress, ReadDraftStands, SavesCompare, TokenExpires, Reissue,
     vars, rows, HoldsSession, HoldsDraft
<1>3. RecordInv'
  BY DEF SubmittedIsWritten, DraftShape, AdmittedDisclosed, ManifestPinsDraft, DisclosureFirst,
     SavesAreEvidenced, SavedRevisions, TokenExpires, Reissue, vars, rows
<1>. QED BY <1>1, <1>2, <1>3

(* A deadlock's victim is a transaction rolled back like any other. *)
LEMMA VictimAborts ==
  ASSUME DeadlockVictim PROVE \E r \in Request : Abort(r)
BY DEF DeadlockVictim, Deadlocked, Abort

(* The initial state: no session, and nothing in flight. *)
LEMMA InitIInv == Init => IInv
<1>. SUFFICES ASSUME Init PROVE IInv
  OBVIOUS
<1>. USE DEF IInv, LockInv, RecordInv
<1>1. TypeOK
  <2>1. 0 \in 0..MaxRevision /\ 0 \in 0..MaxUpload
    BY BoundsAssumption
  <2>2. /\ draft \in [exists : BOOLEAN, revision : 0..MaxRevision, finalised : BOOLEAN]
        /\ manifest \in [written : BOOLEAN, revision : 0..MaxRevision, entries : SUBSET Entry]
    BY <2>1 DEF Init, NoDraft, NoManifest
  <2>3. artifact \in [Artifact -> [status : ArtifactStatus, upload : 0..MaxUpload]]
    BY <2>1 DEF Init, ArtifactStatus
  <2>4. /\ pc \in [Request -> PC]
        /\ local \in [Request -> [revision : 0..MaxRevision, entries : SUBSET Entry]]
    BY <2>1 DEF Init, PC, NoLocal
  <2>. QED BY <2>2, <2>3, <2>4 DEF Init, TypeOK, InvitationState
<1>2. LockInv
  BY DEF Init, LocksExclude, SubmitsInProgress, ReadDraftStands, SavesCompare, HoldsSession,
     HoldsDraft, Submitting, Saving
<1>3. RecordInv
  BY DEF Init, SubmittedIsWritten, DraftShape, AdmittedDisclosed, ManifestPinsDraft,
     DisclosureFirst, SavesAreEvidenced, SavedRevisions, NoDraft, NoManifest, Submitting, Saving,
     SessionState
<1>. QED BY <1>1, <1>2, <1>3

(* IInv is inductive: no statement of any handler, whatever the others     *)
(* have read or hold, breaks it.                                            *)
THEOREM StepIInv == IInv /\ [Next]_vars => IInv'
<1>. SUFFICES ASSUME IInv, [Next]_vars PROVE IInv'
  OBVIOUS
<1>1. CASE TokenExpires \/ Reissue \/ UNCHANGED vars
  BY <1>1, OutsideKeeps
<1>2. CASE Landing
  BY <1>2, LandingReadKeeps, LandingOpenKeeps, AcceptKeeps DEF Landing
<1>3. CASE SessionStep
  BY <1>3, AcknowledgeKeeps, LifecycleKeeps DEF SessionStep
<1>4. CASE SubmitStep
  BY <1>4, SubmitLockKeeps, SubmitReadDraftKeeps, SubmitReadArtifactsKeeps, SubmitFinaliseKeeps,
     SubmitCommitKeeps DEF SubmitStep
<1>5. CASE SaveStep
  BY <1>5, WorkspaceReadKeeps, WorkspaceInsertKeeps, SaveReadKeeps, SaveLockKeeps,
     SaveCommitKeeps, SaveInsertKeeps DEF SaveStep
<1>6. CASE ArtifactStep
  BY <1>6, ArtifactReadKeeps, ArtifactInsertKeeps, ArtifactCompleteKeeps, ArtifactRemoveKeeps
     DEF ArtifactStep
<1>7. CASE EvidenceStep
  BY <1>7, ResponseReadKeeps, ResponseInsertKeeps, TelemetryReadKeeps, TelemetryInsertKeeps
     DEF EvidenceStep
<1>8. CASE DeadlockVictim \/ \E r \in Request : Abort(r)
  BY <1>8, AbortKeeps, VictimAborts
<1>. QED BY <1>1, <1>2, <1>3, <1>4, <1>5, <1>6, <1>7, <1>8 DEF Next

(* Whatever requests are in flight, and however many, the invariant holds. *)
THEOREM Invariance == Spec => []IInv
<1>1. Init => IInv
  BY InitIInv
<1>2. IInv /\ [Next]_vars => IInv'
  BY StepIInv
<1>. QED BY <1>1, <1>2, PTL DEF Spec

(* Every variable keeps its type: a revision within its bound, a status    *)
(* the session machine knows.                                               *)
THEOREM TypeCorrect == Spec => []TypeOK
<1>1. IInv => TypeOK
  BY DEF IInv
<1>. QED BY <1>1, Invariance, PTL

(* A finalised draft stands at the revision the submission manifest names, *)
(* although submit reads it without a lock (portal.ts:497).                 *)
THEOREM ManifestPins == Spec => []ManifestPinsDraft
<1>1. IInv => ManifestPinsDraft
  BY DEF IInv, RecordInv
<1>. QED BY <1>1, Invariance, PTL

(* No handler ingests before the disclosure, although each checks the      *)
(* status without a lock (portal.ts:634, 905, 1110, 1180).                  *)
THEOREM DisclosesFirst == Spec => []DisclosureFirst
<1>1. IInv => DisclosureFirst
  BY DEF IInv, RecordInv
<1>. QED BY <1>1, Invariance, PTL

(* The draft's revisions and the draft_saved rows agree one for one.       *)
THEOREM SavesEvidenced == Spec => []SavesAreEvidenced
<1>1. IInv => SavesAreEvidenced
  BY DEF IInv, RecordInv
<1>. QED BY <1>1, Invariance, PTL

-------------------------------------------------------------------------------
(* What no step does. *)

Sealed ==
  /\ draft.finalised => draft' = draft
  /\ manifest.written => manifest' = manifest
  /\ \A a \in Artifact : artifact[a].status = "frozen" => artifact'[a] = artifact[a]

(* Most statements write none of the sealed rows. *)
LEMMA UntouchedSealed ==
  ASSUME UNCHANGED <<draft, manifest, artifact>> PROVE Sealed
BY DEF Sealed

(* A submission finds nothing sealed: a manifest would mean "submitted",   *)
(* and the session is in progress while submit holds it.                    *)
LEMMA SubmitCommitSeals ==
  ASSUME IInv, NEW r \in Request, SubmitCommit(r) PROVE Sealed
<1>1. session = "in_progress"
  BY DEF IInv, LockInv, SubmitsInProgress, HoldsSession, Submitting, SubmitCommit
<1>2. ~manifest.written /\ ~draft.finalised
  BY <1>1 DEF IInv, RecordInv, SubmittedIsWritten, ManifestPinsDraft
<1>3. \A a \in Artifact : artifact[a].status = "frozen" => artifact'[a] = artifact[a]
  BY DEF SubmitCommit
<1>. QED BY <1>2, <1>3 DEF Sealed

(* Nor does a save reach a finalised draft: it holds the row from the      *)
(* comparison to COMMIT.                                                    *)
LEMMA SavesSeal ==
  ASSUME IInv, NEW r \in Request, SaveCommit(r) \/ SaveInsert(r) \/ WorkspaceInsert(r)
  PROVE  Sealed
<1>1. UNCHANGED <<manifest, artifact>>
  BY DEF SaveCommit, SaveInsert, WorkspaceInsert
<1>2. draft.finalised => draft.exists
  BY DEF IInv, RecordInv, DraftShape, NoDraft
<1>3. CASE SaveCommit(r)
  BY <1>1, <1>3 DEF SaveCommit, IInv, LockInv, SavesCompare, Sealed
<1>4. CASE SaveInsert(r) \/ WorkspaceInsert(r)
  BY <1>1, <1>2, <1>4 DEF SaveInsert, WorkspaceInsert, Sealed
<1>. QED BY <1>3, <1>4

(* Completing and removing refuse a frozen artifact. *)
LEMMA ArtifactsSeal ==
  ASSUME IInv, ArtifactStep PROVE Sealed
<1>1. UNCHANGED <<manifest, draft>>
  BY DEF ArtifactStep, ArtifactRead, ArtifactInsert, ArtifactComplete, ArtifactRemove, rows
<1>2. \A a \in Artifact : artifact[a].status = "frozen" => artifact'[a] = artifact[a]
  BY DEF ArtifactStep, ArtifactRead, ArtifactInsert, ArtifactComplete, ArtifactRemove, rows,
     IInv, TypeOK
<1>. QED BY <1>1, <1>2 DEF Sealed

(* What the submission finalised or froze no later handler rewrites,       *)
(* though complete, delete and the unlocked reads never look at the status *)
(* again (portal.ts:965-1055).                                              *)
THEOREM SealedStays == Spec => SealedStaysSealed
<1>1. IInv /\ [Next]_vars => Sealed
  <2>. SUFFICES ASSUME IInv, [Next]_vars PROVE Sealed
    OBVIOUS
  <2>1. CASE TokenExpires \/ Reissue \/ Landing \/ UNCHANGED vars
    BY <2>1, UntouchedSealed
       DEF TokenExpires, Reissue, Landing, LandingRead, LandingOpen, Accept, vars, rows
  <2>2. CASE SessionStep \/ EvidenceStep
    BY <2>2, UntouchedSealed
       DEF SessionStep, Acknowledge, Lifecycle, EvidenceStep, ResponseRead, TelemetryRead,
           ResponseInsert, TelemetryInsert, EvidenceInsert, rows
  <2>3. CASE SubmitStep
    BY <2>3, UntouchedSealed, SubmitCommitSeals
       DEF SubmitStep, SubmitLock, SubmitReadDraft, SubmitReadArtifacts, SubmitFinalise, rows
  <2>4. CASE SaveStep
    BY <2>4, UntouchedSealed, SavesSeal DEF SaveStep, WorkspaceRead, SaveRead, SaveLock, rows
  <2>5. CASE ArtifactStep
    BY <2>5, ArtifactsSeal
  <2>6. CASE DeadlockVictim \/ \E r \in Request : Abort(r)
    BY <2>6, UntouchedSealed DEF DeadlockVictim, Abort, rows
  <2>. QED BY <2>1, <2>2, <2>3, <2>4, <2>5, <2>6 DEF Next
<1>2. IInv /\ [Next]_vars
        => [ /\ draft.finalised => draft' = draft
             /\ manifest.written => manifest' = manifest
             /\ \A a \in Artifact :
                  artifact[a].status = "frozen" => artifact'[a] = artifact[a] ]_vars
  BY <1>1 DEF Sealed
<1>. QED BY <1>2, Invariance, PTL DEF Spec, SealedStaysSealed

-------------------------------------------------------------------------------
(* The portal implements the session lifecycle. *)

(* A step the lifecycle allows, or one it does not see. *)
Walks == Lifecycle1!Next \/ UNCHANGED Lifecycle1!vars

(* transitionSession takes one row of the table, and never "submit". *)
LEMMA MoveWalks ==
  ASSUME NEW event, NEW t \in SessionState, Step(event, t), session' = t, event # "submit",
         UNCHANGED manifest
  PROVE  Walks
<1>. DEFINE m == <<session, event, t>>
<1>1. m \in Lifecycle1!SessionTransition
  BY DEF Step, SessionTransition, Lifecycle1!SessionTransition, Unsubmitted,
     Lifecycle1!Unsubmitted
<1>2. m[1] = session /\ m[2] = event /\ m[3] = t
  OBVIOUS
<1>. HIDE DEF m
<1>3. Lifecycle1!Move
  BY <1>1, <1>2 DEF Lifecycle1!Move
<1>. QED BY <1>3 DEF Walks, Lifecycle1!Next

(* The manifest is written in the step that submits. *)
LEMMA SubmitWalks ==
  ASSUME IInv, NEW r \in Request, SubmitCommit(r) PROVE Walks
<1>1. session = "in_progress"
  BY DEF IInv, LockInv, SubmitsInProgress, HoldsSession, Submitting, SubmitCommit
<1>2. ~manifest.written
  BY <1>1 DEF IInv, RecordInv, SubmittedIsWritten
<1>3. session' = "submitted" /\ manifest'.written = TRUE
  BY <1>2 DEF SubmitCommit
<1>. QED BY <1>1, <1>2, <1>3 DEF Walks, Lifecycle1!Next, Lifecycle1!Submit

(* No interleaving of the portal's requests takes the session anywhere the *)
(* session machine does not, or submits without its manifest, or twice.     *)
THEOREM PortalImplementsLifecycle == Spec => ImplementsLifecycle
<1>1. Init => Lifecycle1!Init
  BY DEF Init, Lifecycle1!Init, NoManifest
<1>2. IInv /\ [Next]_vars => [Lifecycle1!Next]_(Lifecycle1!vars)
  <2>. SUFFICES ASSUME IInv, [Next]_vars PROVE Walks
    BY DEF Walks
  <2>1. CASE UNCHANGED <<session, manifest>>
    BY <2>1 DEF Walks, Lifecycle1!vars
  <2>2. CASE TokenExpires \/ Reissue \/ UNCHANGED vars
    BY <2>1, <2>2 DEF TokenExpires, Reissue, vars, rows
  <2>3. CASE Landing
    <3>1. ASSUME NEW r \in Request, Accept(r) PROVE Walks
      BY <3>1 DEF Accept, Walks, Lifecycle1!Next, Lifecycle1!Open
    <3>. QED BY <2>1, <2>3, <3>1 DEF Landing, LandingRead, LandingOpen, rows
  <2>4. CASE SessionStep
    <3>1. ASSUME NEW r \in Request, Acknowledge(r) PROVE Walks
      BY <3>1, MoveWalks DEF Acknowledge
    <3>2. ASSUME NEW r \in Request, NEW event \in {"start", "pause", "resume", "withdraw"},
                 Lifecycle(r, event)
          PROVE  Walks
      BY <3>2, MoveWalks DEF Lifecycle
    <3>. QED BY <2>4, <3>1, <3>2 DEF SessionStep
  <2>5. CASE SubmitStep
    BY <2>1, <2>5, SubmitWalks
       DEF SubmitStep, SubmitLock, SubmitReadDraft, SubmitReadArtifacts, SubmitFinalise, rows
  <2>6. CASE SaveStep
    BY <2>1, <2>6 DEF SaveStep, WorkspaceRead, WorkspaceInsert, SaveRead, SaveLock, SaveCommit,
       SaveInsert, rows
  <2>7. CASE ArtifactStep
    BY <2>1, <2>7 DEF ArtifactStep, ArtifactRead, ArtifactInsert, ArtifactComplete,
       ArtifactRemove, rows
  <2>8. CASE EvidenceStep
    BY <2>1, <2>8 DEF EvidenceStep, ResponseRead, TelemetryRead, ResponseInsert,
       TelemetryInsert, EvidenceInsert, rows
  <2>9. CASE DeadlockVictim \/ \E r \in Request : Abort(r)
    BY <2>1, <2>9 DEF DeadlockVictim, Abort, rows
  <2>. QED BY <2>2, <2>3, <2>4, <2>5, <2>6, <2>7, <2>8, <2>9 DEF Next
<1>. QED BY <1>1, <1>2, Invariance, PTL DEF Spec, ImplementsLifecycle, Lifecycle1!Spec

-------------------------------------------------------------------------------
(* What takes an acceptance back. *)

(* No landing view is between its SELECT and its UPDATE of an accepted     *)
(* invitation.                                                             *)
LandsBefore == \A r \in Request : pc[r] = "landing_open" => invitation # "accepted"

(* An acceptance, which no landing view overlaps. *)
AcceptsAlone ==
  invitation # "accepted" /\ invitation' = "accepted" =>
    \A r \in Request : pc[r] # "landing_open"

(* Whatever is no landing view, acceptance or reissue leaves the           *)
(* invitation alone, and begins no landing view.                           *)
LEMMA InvitationUntouched ==
  ASSUME IInv, \/ TokenExpires \/ SessionStep \/ SubmitStep \/ SaveStep
               \/ ArtifactStep \/ EvidenceStep \/ DeadlockVictim
               \/ (\E r \in Request : Abort(r)) \/ UNCHANGED vars
  PROVE  /\ invitation' = invitation
         /\ \A q \in Request : pc'[q] = "landing_open" => pc[q] = "landing_open"
<1>. USE DEF IInv, TypeOK, Goto, Finish, Idle
<1>1. CASE TokenExpires \/ UNCHANGED vars
  BY <1>1 DEF TokenExpires, vars, rows
<1>2. CASE SessionStep
  BY <1>2 DEF SessionStep, Acknowledge, Lifecycle
<1>3. CASE SubmitStep
  BY <1>3 DEF SubmitStep, SubmitLock, SubmitReadDraft, SubmitReadArtifacts, SubmitFinalise,
              SubmitCommit, rows
<1>4. CASE SaveStep
  BY <1>4 DEF SaveStep, WorkspaceRead, WorkspaceInsert, SaveRead, SaveLock, SaveCommit,
              SaveInsert, rows
<1>5. CASE ArtifactStep
  BY <1>5 DEF ArtifactStep, ArtifactRead, ArtifactInsert, ArtifactComplete, ArtifactRemove, rows
<1>6. CASE EvidenceStep
  BY <1>6 DEF EvidenceStep, ResponseRead, ResponseInsert, TelemetryRead, TelemetryInsert,
              EvidenceInsert, rows
<1>7. CASE DeadlockVictim \/ \E r \in Request : Abort(r)
  BY <1>7 DEF DeadlockVictim, Abort, rows
<1>. QED BY <1>1, <1>2, <1>3, <1>4, <1>5, <1>6, <1>7

LEMMA LandsBeforeStep ==
  ASSUME IInv, LandsBefore, AcceptsAlone, [Next]_vars
  PROVE  /\ LandsBefore'
         /\ invitation = "accepted" => invitation' = "accepted"
<1>1. ASSUME NEW r \in Request, LandingRead(r)
      PROVE  LandsBefore' /\ invitation' = invitation
  BY <1>1 DEF LandingRead, Goto, LandsBefore, IInv, TypeOK, rows
<1>2. ASSUME NEW r \in Request, LandingOpen(r)
      PROVE  LandsBefore' /\ invitation # "accepted"
  BY <1>2 DEF LandingOpen, LandsBefore
<1>3. ASSUME NEW r \in Request, Accept(r)
      PROVE  LandsBefore' /\ invitation # "accepted"
  <2>1. invitation' = "accepted" /\ invitation = "opened" /\ pc' = pc
    BY <1>3 DEF Accept, InvitationTransition, Idle
  <2>. QED BY <2>1 DEF AcceptsAlone, LandsBefore
<1>4. CASE Reissue
  BY <1>4 DEF Reissue, LandsBefore
<1>5. CASE \/ TokenExpires \/ SessionStep \/ SubmitStep \/ SaveStep
           \/ ArtifactStep \/ EvidenceStep \/ DeadlockVictim
           \/ (\E r \in Request : Abort(r)) \/ UNCHANGED vars
  BY <1>5, InvitationUntouched DEF LandsBefore
<1>. QED BY <1>1, <1>2, <1>3, <1>4, <1>5 DEF Next, Landing

(* An accepted invitation stays accepted, through reissue, expiry and      *)
(* every handler, unless its acceptance falls between a landing view's     *)
(* SELECT and its UPDATE (portal.ts:233).                                  *)
THEOREM AcceptedUnlessOverlapped ==
  Spec /\ [][AcceptsAlone]_vars => AcceptedIsTerminal
<1>1. Init => LandsBefore
  BY DEF Init, LandsBefore
<1>2. UNCHANGED vars => AcceptsAlone
  BY DEF vars, rows, AcceptsAlone
<1>3. IInv /\ LandsBefore /\ [Next]_vars /\ [AcceptsAlone]_vars =>
        LandsBefore' /\ [invitation = "accepted" => invitation' = "accepted"]_vars
  BY <1>2, LandsBeforeStep
<1>. QED BY <1>1, <1>3, Invariance, PTL DEF Spec, AcceptedIsTerminal

-------------------------------------------------------------------------------
(* Nobody waits for ever. *)

(* What a request goes on to after a statement, unless it ends there. *)
Succession ==
  {<<"submit_read_draft", "submit_read_artifacts">>,
   <<"submit_read_artifacts", "submit_finalise">>,
   <<"submit_finalise", "submit_commit">>,
   <<"save_lock", "save_insert">>,
   <<"save_lock", "save_commit">>}

After(label) == {"idle"} \cup {next \in PC : <<label, next>> \in Succession}

(* The statements that insert a child row, or follow one with COMMIT. *)
NeedsSession == {"workspace_insert", "save_insert", "save_commit", "artifact_insert",
                 "response_insert", "telemetry_insert"}

(* The rows a request's next statement waits for are free, and the bound   *)
(* on artifact ids leaves it one.                                           *)
Runnable(r) ==
  /\ pc[r] \in NeedsSession => SessionFree(r)
  /\ pc[r] = "artifact_insert" => \E a \in Artifact : artifact[a].status = "absent"
  /\ pc[r] = "save_lock" => ~draft.exists \/ DraftFree(r)
  /\ pc[r] = "submit_finalise" => DraftFree(r)

(* Such a statement can run, and a cycle can be broken: what the guards of *)
(* Progress and DeadlockVictim say, written with ENABLED.                   *)
StepsEnabled ==
  /\ \A r \in Request : pc[r] # "idle" /\ Runnable(r) => ENABLED <<Progress(r)>>_vars
  /\ (\E r, q \in Request : Deadlocked(r, q)) => ENABLED <<DeadlockVictim>>_vars

(* The uploads admitted, and the ids left to insert them at. *)
Inserting == {r \in Request : pc[r] = "artifact_insert"}
Absent == {a \in Artifact : artifact[a].status = "absent"}

(* Every upload that was admitted has an id left to insert. *)
ArtifactPromise == Cardinality(Inserting) <= Cardinality(Absent)

(* The request a step belongs to: everybody else stays where it is. *)
Mover(r) ==
  /\ \A q \in Request \ {r} : pc'[q] = pc[q]
  /\ pc[r] # "idle" => pc'[r] \in {pc[r]} \cup After(pc[r])

(* A draft appears only while no submission holds the session. *)
DraftAppears ==
  \/ draft'.exists = draft.exists
  \/ \A q \in Request : ~HoldsSession(q) /\ ~HoldsSession(q)'

(* A transaction rolled back moves nobody but itself. *)
LEMMA RollbackMoves ==
  ASSUME IInv, NEW r \in Request, Finish(r)
  PROVE  Mover(r)
BY DEF Finish, Goto, Mover, After, IInv, TypeOK, PC

(* A statement that runs leads to the next one, and moves nobody else. *)
LEMMA ProgressMoves ==
  ASSUME IInv, NEW r \in Request, Progress(r)
  PROVE  /\ pc[r] # "idle"
         /\ pc'[r] \in After(pc[r])
         /\ \A q \in Request \ {r} : pc'[q] = pc[q]
<1>1. pc \in [Request -> PC]
  BY DEF IInv, TypeOK
<1>2. CASE \/ LandingOpen(r) \/ SubmitCommit(r) \/ WorkspaceInsert(r) \/ SaveCommit(r)
           \/ SaveInsert(r) \/ ArtifactInsert(r) \/ ResponseInsert(r) \/ TelemetryInsert(r)
  <2>1. pc[r] # "idle" /\ Finish(r)
    BY <1>2 DEF LandingOpen, SubmitCommit, WorkspaceInsert, SaveCommit, SaveInsert, ArtifactInsert,
       ResponseInsert, TelemetryInsert, EvidenceInsert
  <2>. QED BY <1>1, <2>1 DEF Finish, Goto, After
<1>3. CASE SubmitReadDraft(r)
  BY <1>1, <1>3 DEF SubmitReadDraft, Goto, After, Succession, PC, Submitting
<1>4. CASE SubmitReadArtifacts(r)
  BY <1>1, <1>4 DEF SubmitReadArtifacts, Goto, After, Succession, PC, Submitting
<1>5. CASE SubmitFinalise(r)
  BY <1>1, <1>5 DEF SubmitFinalise, Goto, After, Succession, PC, Submitting
<1>6. CASE SaveLock(r)
  BY <1>1, <1>6 DEF SaveLock, Goto, Finish, After, Succession, PC
<1>. QED BY <1>2, <1>3, <1>4, <1>5, <1>6 DEF Progress

(* Nor does a handler that starts, or one that is a single statement. *)
LEMMA StartMoves ==
  ASSUME IInv, NEW r \in Request, NEW label, pc[r] = "idle", Goto(r, label) \/ pc' = pc
  PROVE  Mover(r)
BY DEF Goto, Mover, IInv, TypeOK

(* So a step is one request's, or moves no request at all. *)
LEMMA StepMoves ==
  ASSUME IInv, [Next]_vars
  PROVE  pc' = pc \/ \E r \in Request : Mover(r)
<1>1. ASSUME NEW r \in Request, Progress(r) PROVE Mover(r)
  BY <1>1, ProgressMoves DEF Mover
<1>2. CASE TokenExpires \/ Reissue \/ UNCHANGED vars
  BY <1>2 DEF TokenExpires, Reissue, vars
<1>3. CASE Landing
  BY <1>1, <1>3, StartMoves DEF Landing, LandingRead, Accept, Begin, Idle, Progress
<1>4. CASE SessionStep
  BY <1>4, StartMoves DEF SessionStep, Acknowledge, Lifecycle, Begin, Idle
<1>5. CASE SubmitStep
  BY <1>1, <1>5, StartMoves DEF SubmitStep, SubmitLock, Begin, Progress
<1>6. CASE SaveStep
  BY <1>1, <1>6, StartMoves DEF SaveStep, WorkspaceRead, SaveRead, Begin, Progress
<1>7. CASE ArtifactStep
  BY <1>1, <1>7, StartMoves DEF ArtifactStep, ArtifactRead, ArtifactComplete, ArtifactRemove,
     Begin, Idle, Progress
<1>8. CASE EvidenceStep
  BY <1>1, <1>8, StartMoves DEF EvidenceStep, ResponseRead, TelemetryRead, Begin, Progress
<1>9. CASE DeadlockVictim \/ \E r \in Request : Abort(r)
  BY <1>9, VictimAborts, RollbackMoves DEF Abort
<1>. QED BY <1>2, <1>3, <1>4, <1>5, <1>6, <1>7, <1>8, <1>9 DEF Next

(* The INSERT of a draft waits for the session row. *)
LEMMA DraftAppearsAlone ==
  ASSUME IInv, [Next]_vars PROVE DraftAppears
<1>1. CASE draft' = draft
  BY <1>1 DEF DraftAppears
<1>2. ASSUME NEW r \in Request, SubmitCommit(r) \/ SaveCommit(r) PROVE draft'.exists = draft.exists
  BY <1>2 DEF SubmitCommit, SaveCommit, IInv, TypeOK
<1>3. ASSUME NEW r \in Request, WorkspaceInsert(r) \/ SaveInsert(r)
      PROVE  \A q \in Request : ~HoldsSession(q) /\ ~HoldsSession(q)'
  BY <1>3 DEF WorkspaceInsert, SaveInsert, SessionFree, HoldsSession, Finish, Goto, Submitting,
     IInv, TypeOK
<1>4. CASE TokenExpires \/ Reissue \/ Landing \/ UNCHANGED vars
  BY <1>1, <1>4 DEF TokenExpires, Reissue, Landing, LandingRead, LandingOpen, Accept, vars, rows
<1>5. CASE SessionStep \/ EvidenceStep \/ ArtifactStep
  BY <1>1, <1>5
     DEF SessionStep, Acknowledge, Lifecycle, EvidenceStep, ResponseRead, TelemetryRead,
         ResponseInsert, TelemetryInsert, EvidenceInsert, ArtifactStep, ArtifactRead,
         ArtifactInsert, ArtifactComplete, ArtifactRemove, rows
<1>6. CASE SubmitStep
  BY <1>1, <1>2, <1>6
     DEF SubmitStep, SubmitLock, SubmitReadDraft, SubmitReadArtifacts, SubmitFinalise, rows,
         DraftAppears
<1>7. CASE SaveStep
  BY <1>1, <1>2, <1>3, <1>7 DEF SaveStep, WorkspaceRead, SaveRead, SaveLock, rows, DraftAppears
<1>8. CASE DeadlockVictim \/ \E r \in Request : Abort(r)
  BY <1>1, <1>8 DEF DeadlockVictim, Abort, rows
<1>. QED BY <1>4, <1>5, <1>6, <1>7, <1>8 DEF Next

(* Neither row is locked. *)
NobodySession == \A q \in Request : ~HoldsSession(q)
NobodyDraft == \A q \in Request : ~HoldsDraft(q)

(* Whoever lets the session row go leaves it to nobody. *)
LEMMA SessionLetGo ==
  ASSUME IInv, [Next]_vars, NEW q \in Request, HoldsSession(q)
  PROVE  HoldsSession(q)' \/ NobodySession'
BY StepMoves DEF Mover, HoldsSession, NobodySession, IInv, LockInv, LocksExclude

(* So it is with the draft row. *)
LEMMA DraftLetGo ==
  ASSUME IInv, [Next]_vars, NEW q \in Request, HoldsDraft(q)
  PROVE  HoldsDraft(q)' \/ NobodyDraft'
<1>. SUFFICES ASSUME ~HoldsDraft(q)', NEW p \in Request, HoldsDraft(p)' PROVE FALSE
  BY DEF NobodyDraft
<1>1. pc[q] \in {"save_commit", "submit_commit"} /\ pc'[p] \in {"save_commit", "submit_commit"}
  BY DEF HoldsDraft
<1>2. pc'[q] # pc[q]
  BY DraftAppearsAlone DEF DraftAppears, HoldsDraft, HoldsSession, Submitting
<1>3. p # q
  BY DEF HoldsDraft
<1>4. pc'[p] = pc[p]
  BY <1>2, <1>3, StepMoves DEF Mover
<1>5. HoldsDraft(p)
  BY <1>4, DraftAppearsAlone DEF DraftAppears, HoldsDraft, HoldsSession, Submitting
<1>. QED BY <1>3, <1>5 DEF IInv, LockInv, LocksExclude

(* In the cycle there is one save and one submit: cancel either, and the   *)
(* submit is over or the draft is free.                                     *)
LEMMA VictimBreaks ==
  ASSUME IInv, DeadlockVictim, NEW r \in Request, pc[r] = "submit_finalise"
  PROVE  DraftFree(r)' \/ pc'[r] = "idle"
<1>1. PICK p \in Request, q \in Request : Deadlocked(p, q) /\ (Finish(p) \/ Finish(q))
  BY DEF DeadlockVictim
<1>2. q = r
  BY <1>1 DEF Deadlocked, HoldsSession, Submitting, IInv, LockInv, LocksExclude
<1>3. CASE Finish(q)
  BY <1>2, <1>3 DEF Finish, Goto, IInv, TypeOK
<1>4. CASE Finish(p)
  <2>1. HoldsDraft(p)
    BY <1>1 DEF Deadlocked, HoldsDraft
  <2>2. \A x \in Request \ {r} : pc'[x] # "save_commit" /\ pc'[x] # "submit_commit"
    BY <1>1, <1>2, <1>4, <2>1
       DEF Finish, Goto, IInv, TypeOK, LockInv, LocksExclude, HoldsDraft, HoldsSession, Submitting
  <2>. QED BY <2>2 DEF DraftFree, HoldsDraft
<1>. QED BY <1>1, <1>3, <1>4

(* Whom a submission waits for: the save it is in a cycle with. *)
LEMMA FinaliseWaits ==
  ASSUME IInv, NEW r \in Request, pc[r] = "submit_finalise", ~DraftFree(r)
  PROVE  \E p, q \in Request : Deadlocked(p, q)
BY DEF DraftFree, HoldsDraft, Deadlocked, IInv, LockInv, LocksExclude, HoldsSession, Submitting

(* Fairness, request by request. *)
Granted(r) == SF_vars(Progress(r))

(* The specification is fair to every request. *)
LEMMA AllGranted == FairSpec => \A r \in Request : Granted(r)
BY PTL DEF FairSpec, Fairness, Granted

(* A submission's finalising UPDATE runs, or the cycle it is in is broken. *)
LEMMA FinaliseRuns ==
  ASSUME NEW r \in Request
  PROVE  FairSpec /\ []StepsEnabled
           => [](pc[r] = "submit_finalise" => <>(pc[r] \in {"submit_commit", "idle"}))
<1>. DEFINE At == pc[r] = "submit_finalise"
            Gone == pc[r] \in {"submit_commit", "idle"}
<1>1. FairSpec => Granted(r)
  BY AllGranted
<1>2. Spec => []IInv
  BY Invariance
<1>0. After("submit_finalise") \subseteq {"submit_commit", "idle"}
  BY DEF After, Succession
<1>3. IInv /\ [Next]_vars /\ At => At' \/ Gone'
  BY <1>0, StepMoves DEF Mover
<1>4. IInv /\ <<Progress(r)>>_vars /\ At => Gone'
  BY <1>0, ProgressMoves
<1>5. StepsEnabled /\ At /\ DraftFree(r) => ENABLED <<Progress(r)>>_vars
  BY DEF StepsEnabled, Runnable, NeedsSession
<1>6. StepsEnabled /\ IInv /\ At /\ ~DraftFree(r) => ENABLED <<DeadlockVictim>>_vars
  BY FinaliseWaits DEF StepsEnabled
<1>7. IInv /\ <<DeadlockVictim>>_vars /\ At => DraftFree(r)' \/ Gone'
  BY VictimBreaks
<1>. HIDE DEF At, Gone
<1>8. FairSpec /\ []StepsEnabled => [](At => <>Gone)
  BY <1>1, <1>2, <1>3, <1>4, <1>5, <1>6, <1>7, PTL DEF FairSpec, Spec, Fairness, Granted
<1>. QED BY <1>8 DEF At, Gone

(* A submission that holds the session row lets it go. *)
LEMMA SubmissionEnds ==
  ASSUME NEW r \in Request
  PROVE  FairSpec /\ []StepsEnabled => [](HoldsSession(r) => <>NobodySession)
<1>. DEFINE First == pc[r] = "submit_read_draft"
            Second == pc[r] = "submit_read_artifacts"
            Third == pc[r] = "submit_finalise"
            Last == pc[r] = "submit_commit"
            In == HoldsSession(r)
<1>1. FairSpec => Granted(r)
  BY AllGranted
<1>2. Spec => []IInv
  BY Invariance
<1>3. /\ After("submit_read_draft") = {"submit_read_artifacts", "idle"}
      /\ After("submit_read_artifacts") = {"submit_finalise", "idle"}
      /\ After("submit_commit") = {"idle"}
  BY DEF After, Succession, PC, Submitting
<1>4. /\ IInv /\ [Next]_vars /\ First => First' \/ Second' \/ ~In'
      /\ IInv /\ [Next]_vars /\ Second => Second' \/ Third' \/ ~In'
      /\ IInv /\ [Next]_vars /\ Last => Last' \/ ~In'
  BY <1>3, StepMoves DEF Mover, HoldsSession, Submitting
<1>5. /\ IInv /\ <<Progress(r)>>_vars /\ First => Second' \/ ~In'
      /\ IInv /\ <<Progress(r)>>_vars /\ Second => Third' \/ ~In'
      /\ IInv /\ <<Progress(r)>>_vars /\ Last => ~In'
  BY <1>3, ProgressMoves DEF HoldsSession, Submitting
<1>6. StepsEnabled /\ (First \/ Second \/ Last) => ENABLED <<Progress(r)>>_vars
  BY DEF StepsEnabled, Runnable, NeedsSession
<1>7. pc[r] \in {"submit_commit", "idle"} => Last \/ ~In
  BY DEF HoldsSession, Submitting
<1>8. FairSpec /\ []StepsEnabled => [](Third => <>(pc[r] \in {"submit_commit", "idle"}))
  BY FinaliseRuns
<1>9. In => First \/ Second \/ Third \/ Last
  BY DEF HoldsSession, Submitting
<1>10. IInv /\ [Next]_vars /\ In => In' \/ NobodySession'
  BY SessionLetGo
<1>. HIDE DEF First, Second, Third, Last, In
<1>11. FairSpec /\ []StepsEnabled => [](In => <>NobodySession)
  BY <1>1, <1>2, <1>4, <1>5, <1>6, <1>7, <1>8, <1>9, <1>10, PTL DEF FairSpec, Spec, Granted
<1>. QED BY <1>11 DEF In

(* Again and again nobody holds the session row. *)
LEMMA SessionReturns == FairSpec /\ []StepsEnabled => []<>NobodySession
<1>1. FairSpec /\ []StepsEnabled => \A r \in Request : [](HoldsSession(r) => <>NobodySession)
  BY SubmissionEnds
<1>2. (\A r \in Request : [](HoldsSession(r) => <>NobodySession))
        => [](\A r \in Request : HoldsSession(r) => <>NobodySession)
  OBVIOUS
<1>3. (\A r \in Request : HoldsSession(r) => <>NobodySession)
        => ((\E r \in Request : HoldsSession(r)) => <>NobodySession)
  OBVIOUS
<1>4. ~NobodySession => \E r \in Request : HoldsSession(r)
  BY DEF NobodySession
<1>. QED BY <1>1, <1>2, <1>3, <1>4, PTL

(* An admitted upload is one more promise, an inserted one is kept. *)
LEMMA ArtifactPromiseKept ==
  ASSUME IsFiniteSet(Request), IsFiniteSet(Artifact), IInv, ArtifactPromise, [Next]_vars
  PROVE  ArtifactPromise'
<1>1. IsFiniteSet(Inserting) /\ IsFiniteSet(Absent)
  BY FS_Subset DEF Inserting, Absent
<1>2. Cardinality(Inserting) \in Nat /\ Cardinality(Absent) \in Nat
  BY <1>1, FS_CardinalityType
<1>3. CASE Inserting' \subseteq Inserting /\ Absent' = Absent
  <2>1. Cardinality(Inserting') <= Cardinality(Inserting) /\ Cardinality(Inserting') \in Nat
    BY <1>1, <1>3, FS_Subset, FS_CardinalityType
  <2>. QED BY <1>2, <1>3, <2>1 DEF ArtifactPromise
<1>4. ASSUME NEW r \in Request, ArtifactRead(r) PROVE ArtifactPromise'
  <2>1. Inserting' = Inserting \cup {r} /\ Absent' = Absent
    BY <1>4 DEF ArtifactRead, Inserting, Absent, Goto, rows, IInv, TypeOK
  <2>2. r \notin Inserting
    BY <1>4 DEF ArtifactRead, Begin, Inserting
  <2>3. Cardinality(Inserting') = Cardinality(Inserting) + 1
    BY <1>1, <2>1, <2>2, FS_AddElement
  <2>4. Cardinality(Inserting) < Cardinality(Absent)
    BY <1>4 DEF ArtifactRead, ArtifactLeft, Inserting, Absent
  <2>. QED BY <1>2, <2>1, <2>3, <2>4 DEF ArtifactPromise
<1>5. ASSUME NEW r \in Request, ArtifactInsert(r) PROVE ArtifactPromise'
  <2>1. PICK a \in Artifact : artifact[a].status = "absent"
                              /\ artifact' = [artifact EXCEPT ![a].status = "initiated"]
    BY <1>5 DEF ArtifactInsert
  <2>2. Inserting' = Inserting \ {r} /\ r \in Inserting
    BY <1>5 DEF ArtifactInsert, Inserting, Finish, Goto, IInv, TypeOK
  <2>3. Absent' = Absent \ {a} /\ a \in Absent
    BY <2>1 DEF Absent, IInv, TypeOK
  <2>4. /\ Cardinality(Inserting') = Cardinality(Inserting) - 1
        /\ Cardinality(Absent') = Cardinality(Absent) - 1
    BY <1>1, <2>2, <2>3, FS_RemoveElement
  <2>. QED BY <1>2, <2>4 DEF ArtifactPromise
<1>6. CASE /\ UNCHANGED artifact
           /\ \A q \in Request : pc'[q] = "artifact_insert" => pc[q] = "artifact_insert"
  BY <1>3, <1>6 DEF Inserting, Absent
<1>7. CASE TokenExpires \/ Reissue \/ UNCHANGED vars
  BY <1>6, <1>7 DEF TokenExpires, Reissue, vars, rows
<1>8. CASE Landing
  BY <1>6, <1>8 DEF Landing, LandingRead, LandingOpen, Accept, Goto, Finish, Idle, rows,
     IInv, TypeOK
<1>9. CASE SessionStep
  BY <1>6, <1>9 DEF SessionStep, Acknowledge, Lifecycle, Idle
<1>10. CASE SubmitStep
  <2>1. ASSUME NEW r \in Request, SubmitCommit(r) PROVE ArtifactPromise'
    <3>1. Absent' = Absent
      BY <2>1 DEF SubmitCommit, Absent, IInv, TypeOK
    <3>2. Inserting' \subseteq Inserting
      BY <2>1 DEF SubmitCommit, Inserting, Finish, Goto, IInv, TypeOK
    <3>. QED BY <1>3, <3>1, <3>2
  <2>2. ASSUME NEW r \in Request,
                   \/ SubmitLock(r) \/ SubmitReadDraft(r)
                   \/ SubmitReadArtifacts(r) \/ SubmitFinalise(r)
        PROVE ArtifactPromise'
    BY <1>6, <2>2 DEF SubmitLock, SubmitReadDraft, SubmitReadArtifacts, SubmitFinalise, Goto,
       rows, IInv, TypeOK
  <2>. QED BY <1>10, <2>1, <2>2 DEF SubmitStep
<1>11. CASE SaveStep
  BY <1>6, <1>11 DEF SaveStep, WorkspaceRead, WorkspaceInsert, SaveRead, SaveLock, SaveCommit,
     SaveInsert, Goto, Finish, rows, IInv, TypeOK
<1>12. CASE ArtifactStep
  <2>1. ASSUME NEW r \in Request, NEW a \in Artifact, ArtifactComplete(r, a) \/ ArtifactRemove(r, a)
        PROVE  ArtifactPromise'
    <3>1. Absent' = Absent
      BY <2>1 DEF ArtifactComplete, ArtifactRemove, Absent, IInv, TypeOK
    <3>2. Inserting' \subseteq Inserting
      BY <2>1 DEF ArtifactComplete, ArtifactRemove, Inserting, Idle
    <3>. QED BY <1>3, <3>1, <3>2
  <2>. QED BY <1>4, <1>5, <1>12, <2>1 DEF ArtifactStep
<1>13. CASE EvidenceStep
  BY <1>6, <1>13 DEF EvidenceStep, ResponseRead, TelemetryRead, ResponseInsert, TelemetryInsert,
     EvidenceInsert, Goto, Finish, rows, IInv, TypeOK
<1>14. CASE DeadlockVictim \/ \E r \in Request : Abort(r)
  BY <1>6, <1>14, VictimAborts DEF Abort, Goto, Finish, rows, IInv, TypeOK
<1>. QED BY <1>7, <1>8, <1>9, <1>10, <1>11, <1>12, <1>13, <1>14 DEF Next

(* So the promise holds throughout. *)
LEMMA PromiseHolds ==
  ASSUME IsFiniteSet(Request), IsFiniteSet(Artifact)
  PROVE  Spec => []ArtifactPromise
<1>1. Init => ArtifactPromise
  <2>1. Init => Inserting = {}
    BY DEF Init, Inserting
  <2>2. Cardinality(Absent) \in Nat
    BY FS_Subset, FS_CardinalityType DEF Absent
  <2>3. Cardinality({}) = 0
    BY FS_EmptySet
  <2>. QED BY <2>1, <2>2, <2>3 DEF ArtifactPromise
<1>2. IInv /\ ArtifactPromise /\ [Next]_vars => ArtifactPromise'
  BY ArtifactPromiseKept
<1>. QED BY <1>1, <1>2, Invariance, PTL DEF Spec

(* Who was promised an id finds one. *)
LEMMA ArtifactFound ==
  ASSUME IsFiniteSet(Request), IsFiniteSet(Artifact), ArtifactPromise,
         NEW r \in Request, pc[r] = "artifact_insert"
  PROVE  \E a \in Artifact : artifact[a].status = "absent"
<1>1. IsFiniteSet(Inserting) /\ IsFiniteSet(Absent) /\ r \in Inserting
  BY FS_Subset DEF Inserting, Absent
<1>2. Cardinality(Inserting) # 0 /\ Cardinality(Inserting) \in Nat /\ Cardinality(Absent) \in Nat
  BY <1>1, FS_EmptySet, FS_CardinalityType
<1>3. Absent # {}
  BY <1>1, <1>2, FS_EmptySet DEF ArtifactPromise
<1>. QED BY <1>3 DEF Absent


(* Whenever a request is in flight, one can run its next statement, or a   *)
(* save and a submission wait for each other.                               *)
SomebodyRuns ==
  (\E r \in Request : pc[r] # "idle")
    => \/ \E r \in Request : pc[r] # "idle" /\ Runnable(r)
       \/ \E r, q \in Request : Deadlocked(r, q)

(* Locks are taken in one order but for that pair: the portal has no other *)
(* deadlock (portal.ts:88, 523, 656).                                         *)
THEOREM OnlyDeadlock ==
  ASSUME IsFiniteSet(Request), IsFiniteSet(Artifact)
  PROVE  Spec => []SomebodyRuns
<1>1. IInv /\ ArtifactPromise => SomebodyRuns
  <2>. SUFFICES ASSUME IInv, ArtifactPromise, NEW r \in Request, pc[r] # "idle"
                PROVE  \/ \E x \in Request : pc[x] # "idle" /\ Runnable(x)
                       \/ \E x, y \in Request : Deadlocked(x, y)
    BY DEF SomebodyRuns
  <2>1. ASSUME NEW q \in Request, HoldsSession(q)
        PROVE  \/ \E x \in Request : pc[x] # "idle" /\ Runnable(x)
               \/ \E x, y \in Request : Deadlocked(x, y)
    <3>1. CASE pc[q] = "submit_finalise" /\ ~DraftFree(q)
      BY <3>1, FinaliseWaits
    <3>2. CASE pc[q] # "submit_finalise" \/ DraftFree(q)
      BY <2>1, <3>2 DEF HoldsSession, Submitting, Runnable, NeedsSession
    <3>. QED BY <3>1, <3>2
  <2>2. ASSUME NEW q \in Request, pc[q] \in NeedsSession
        PROVE  \/ \E x \in Request : pc[x] # "idle" /\ Runnable(x)
               \/ \E x, y \in Request : Deadlocked(x, y)
    <3>1. CASE NobodySession
      <4>1. pc[q] # "idle" /\ Runnable(q)
        BY <2>2, <3>1, ArtifactFound
           DEF NobodySession, SessionFree, Runnable, NeedsSession
      <4>. QED BY <4>1
    <3>. QED BY <2>1, <3>1 DEF NobodySession
  <2>3. CASE pc[r] = "save_lock"
    <3>1. CASE DraftFree(r)
      BY <2>3, <3>1 DEF Runnable, NeedsSession
    <3>2. ASSUME NEW q \in Request, HoldsDraft(q)
          PROVE  pc[q] \in NeedsSession \/ HoldsSession(q)
      BY <3>2 DEF HoldsDraft, NeedsSession, HoldsSession, Submitting
    <3>. QED BY <2>1, <2>2, <3>1, <3>2 DEF DraftFree
  <2>4. CASE pc[r] = "landing_open"
    BY <2>4 DEF Runnable, NeedsSession
  <2>5. \/ pc[r] = "landing_open" \/ pc[r] \in NeedsSession \/ pc[r] = "save_lock"
        \/ HoldsSession(r)
    BY DEF IInv, TypeOK, PC, NeedsSession, HoldsSession
  <2>. QED BY <2>1, <2>2, <2>3, <2>4, <2>5
<1>. QED BY <1>1, Invariance, PromiseHolds, PTL

(* An INSERT that waits for the session row runs. *)
LEMMA InsertEnds ==
  ASSUME IsFiniteSet(Request), IsFiniteSet(Artifact), NEW r \in Request
  PROVE  FairSpec /\ []StepsEnabled => [](pc[r] \in NeedsSession => <>(pc[r] = "idle"))
<1>. DEFINE At == pc[r] \in NeedsSession
            Gone == pc[r] = "idle"
<1>1. FairSpec => Granted(r)
  BY AllGranted
<1>2. Spec => [](IInv /\ ArtifactPromise)
  BY Invariance, PromiseHolds, PTL
<1>3. At => After(pc[r]) = {"idle"}
  BY DEF After, Succession, NeedsSession
<1>4. IInv /\ [Next]_vars /\ At => At' \/ Gone'
  <2>. SUFFICES ASSUME IInv, [Next]_vars, At PROVE pc'[r] = pc[r] \/ pc'[r] = "idle"
    OBVIOUS
  <2>1. pc[r] # "idle"
    BY DEF NeedsSession
  <2>. QED BY <1>3, <2>1, StepMoves DEF Mover
<1>5. IInv /\ <<Progress(r)>>_vars /\ At => Gone'
  BY <1>3, ProgressMoves
<1>6. ArtifactPromise /\ NobodySession /\ At => Runnable(r)
  BY ArtifactFound DEF NobodySession, SessionFree, Runnable, NeedsSession
<1>7. StepsEnabled /\ At /\ Runnable(r) => ENABLED <<Progress(r)>>_vars
  BY DEF StepsEnabled, NeedsSession
<1>. HIDE DEF At, Gone
<1>8. FairSpec /\ []StepsEnabled => [](At => <>Gone)
  BY <1>1, <1>2, <1>4, <1>5, <1>6, <1>7, SessionReturns, PTL DEF FairSpec, Spec, Granted
<1>. QED BY <1>8 DEF At, Gone

(* Again and again nobody holds the draft row. *)
LEMMA DraftReturns ==
  ASSUME IsFiniteSet(Request), IsFiniteSet(Artifact)
  PROVE  FairSpec /\ []StepsEnabled => []<>NobodyDraft
<1>1. ASSUME NEW r \in Request
      PROVE  FairSpec /\ []StepsEnabled => [](HoldsDraft(r) => <>NobodyDraft)
  <2>1. HoldsDraft(r) => pc[r] \in NeedsSession \/ HoldsSession(r)
    BY DEF HoldsDraft, NeedsSession, HoldsSession, Submitting
  <2>2. pc[r] = "idle" => ~HoldsDraft(r)
    BY DEF HoldsDraft
  <2>3. IInv /\ NobodySession /\ HoldsDraft(r) => pc[r] \in NeedsSession
    BY <2>1 DEF NobodySession
  <2>4. IInv /\ [Next]_vars /\ HoldsDraft(r) => HoldsDraft(r)' \/ NobodyDraft'
    BY DraftLetGo
  <2>5. FairSpec /\ []StepsEnabled => [](pc[r] \in NeedsSession => <>(pc[r] = "idle"))
    BY InsertEnds
  <2>6. FairSpec /\ []StepsEnabled => [](HoldsSession(r) => <>NobodySession)
    BY SubmissionEnds
  <2>. QED BY <2>1, <2>2, <2>3, <2>4, <2>5, <2>6, Invariance, PTL DEF FairSpec, Spec
<1>2. FairSpec /\ []StepsEnabled => \A r \in Request : [](HoldsDraft(r) => <>NobodyDraft)
  BY <1>1
<1>3. (\A r \in Request : [](HoldsDraft(r) => <>NobodyDraft))
        => [](\A r \in Request : HoldsDraft(r) => <>NobodyDraft)
  OBVIOUS
<1>4. (\A r \in Request : HoldsDraft(r) => <>NobodyDraft)
        => ((\E r \in Request : HoldsDraft(r)) => <>NobodyDraft)
  OBVIOUS
<1>5. ~NobodyDraft => \E r \in Request : HoldsDraft(r)
  BY DEF NobodyDraft
<1>. QED BY <1>2, <1>3, <1>4, <1>5, PTL

(* A save that waits for the draft row goes on. *)
LEMMA SaveLockRuns ==
  ASSUME IsFiniteSet(Request), IsFiniteSet(Artifact), NEW r \in Request
  PROVE  FairSpec /\ []StepsEnabled
           => [](pc[r] = "save_lock" => <>(pc[r] \in NeedsSession \/ pc[r] = "idle"))
<1>. DEFINE At == pc[r] = "save_lock"
            Gone == pc[r] \in NeedsSession \/ pc[r] = "idle"
<1>1. FairSpec => Granted(r)
  BY AllGranted
<1>2. Spec => []IInv
  BY Invariance
<1>3. After("save_lock") \subseteq NeedsSession \cup {"idle"}
  BY DEF After, Succession, NeedsSession
<1>4. IInv /\ [Next]_vars /\ At => At' \/ Gone'
  BY <1>3, StepMoves DEF Mover
<1>5. IInv /\ <<Progress(r)>>_vars /\ At => Gone'
  BY <1>3, ProgressMoves
<1>6. StepsEnabled /\ At /\ NobodyDraft => ENABLED <<Progress(r)>>_vars
  BY DEF StepsEnabled, NobodyDraft, DraftFree, Runnable, NeedsSession
<1>. HIDE DEF At, Gone
<1>7. FairSpec /\ []StepsEnabled => [](At => <>Gone)
  BY <1>1, <1>2, <1>4, <1>5, <1>6, DraftReturns, PTL DEF FairSpec, Spec, Granted
<1>. QED BY <1>7 DEF At, Gone

(* The landing write waits for nothing. *)
LEMMA LandingEnds ==
  ASSUME NEW r \in Request
  PROVE  FairSpec /\ []StepsEnabled => [](pc[r] = "landing_open" => <>(pc[r] = "idle"))
<1>. DEFINE At == pc[r] = "landing_open"
            Gone == pc[r] = "idle"
<1>1. FairSpec => Granted(r)
  BY AllGranted
<1>2. Spec => []IInv
  BY Invariance
<1>3. After("landing_open") = {"idle"}
  BY DEF After, Succession
<1>4. IInv /\ [Next]_vars /\ At => At' \/ Gone'
  BY <1>3, StepMoves DEF Mover
<1>5. IInv /\ <<Progress(r)>>_vars /\ At => Gone'
  BY <1>3, ProgressMoves
<1>6. StepsEnabled /\ At => ENABLED <<Progress(r)>>_vars
  BY DEF StepsEnabled, Runnable, NeedsSession
<1>. HIDE DEF At, Gone
<1>7. FairSpec /\ []StepsEnabled => [](At => <>Gone)
  BY <1>1, <1>2, <1>4, <1>5, <1>6, PTL DEF FairSpec, Spec, Granted
<1>. QED BY <1>7 DEF At, Gone

(* No request is left waiting for a row (portal.ts:88, 523, 656): the      *)
(* session row is let go by every submission, the draft row by every save   *)
(* that no longer waits for the session, and the one cycle of a save and a  *)
(* submission is broken by the database.                                    *)
THEOREM RequestsAllEnd ==
  ASSUME IsFiniteSet(Request), IsFiniteSet(Artifact)
  PROVE  FairSpec /\ []StepsEnabled => RequestsEnd
<1>1. ASSUME NEW r \in Request
      PROVE  FairSpec /\ []StepsEnabled => (pc[r] # "idle" ~> pc[r] = "idle")
  <2>1. FairSpec /\ []StepsEnabled => [](pc[r] = "landing_open" => <>(pc[r] = "idle"))
    BY LandingEnds
  <2>2. FairSpec /\ []StepsEnabled => [](pc[r] \in NeedsSession => <>(pc[r] = "idle"))
    BY InsertEnds
  <2>3. FairSpec /\ []StepsEnabled
          => [](pc[r] = "save_lock" => <>(pc[r] \in NeedsSession \/ pc[r] = "idle"))
    BY SaveLockRuns
  <2>4. FairSpec /\ []StepsEnabled => [](HoldsSession(r) => <>NobodySession)
    BY SubmissionEnds
  <2>5. IInv /\ [Next]_vars /\ HoldsSession(r) => HoldsSession(r)' \/ (pc[r] = "idle")'
    BY StepMoves DEF Mover, After, Succession, HoldsSession, Submitting
  <2>6. NobodySession => ~HoldsSession(r)
    BY DEF NobodySession
  <2>7. IInv /\ pc[r] # "idle"
          => \/ pc[r] = "landing_open" \/ pc[r] \in NeedsSession \/ pc[r] = "save_lock"
             \/ HoldsSession(r)
    BY DEF IInv, TypeOK, PC, NeedsSession, HoldsSession
  <2>. QED BY <2>1, <2>2, <2>3, <2>4, <2>5, <2>6, <2>7, Invariance, PTL DEF FairSpec, Spec
<1>2. FairSpec /\ []StepsEnabled => \A r \in Request : (pc[r] # "idle" ~> pc[r] = "idle")
  BY <1>1
<1>. QED BY <1>2 DEF RequestsEnd

===============================================================================
