# Formal model of the assessment platform

TLA+ modules for an assessment platform: the candidate's invitation and session, the
work saved in it and its submission, the two runtimes and the two human reviews, the
records an organisation keeps around them, the services every handler leans on, and
the pages that keep a state of their own beside the server's. TLC checks the modules on
small instances; TLAPS proves their main properties for every value of the constants.
File names below are relative to `apps/api/src/modules/` unless they start with
`packages/` or `apps/`.

## 1. The system

A TypeScript monorepo: a Fastify API (`apps/api`) over PostgreSQL, shared
packages with the contracts and state machines, and React front ends. All state
is in PostgreSQL. A handler opens one transaction (`withTx`, `withOrgTx` in
`apps/api/src/db/pool.ts`) at READ COMMITTED, row-level security restricting it
to one organisation, and ends it with COMMIT or, on a throw, ROLLBACK. There is
no in-memory coordination between requests: what keeps two of them apart is
row locks, unique constraints and one advisory lock.

| Component | State | Operations | Hard behaviour | What makes it correct |
|---|---|---|---|---|
| State machines (`packages/assessment-framework`, `packages/v2-contracts`) | none: tables | `can`, `next` | events in states nobody expected | a status only moves along the table |
| Candidate portal V1 (`candidate/portal.ts`) | invitation, session, disclosure, draft, artifacts, manifest, evidence | land, accept, acknowledge, start/pause/resume/withdraw, submit, workspace read/save, artifact initiate/complete/delete, evidence, events | tabs and retries interleave statement by statement; status checks without locks; opposite lock orders | the manifest pins the saved draft; nothing before disclosure; sealed rows stay |
| Runtime V2 (`v2/runtime.ts`) | session manifest (state, clock), artifacts and versions, shutdown receipt | disclose, preflight, check-in, start, pause, resume, poll, put, finalise | reply before COMMIT, crash between, time limit, retry of finalise | one durable receipt over what was saved; time accounted; V1 projection coherent |
| Review V2 (`v2/review.ts`) | assignments, dimension reviews, adjudications, appeals | assign, review, finalise, close adjudication, appeal | two blind rounds in any order | finalised only with every required round |
| Reviews V1 (`org/reviews.ts`, `org/claims.ts`, `org/acknowledgements.ts`) | review, criterion scores, claims, acknowledgements | assign, score, claim, second review, adjudicate, finalise, issue report, read profile | two reviewers and an administrator over one row; the V2 review writes the same status | no variance left, a finalised review stands, no report without a human decision |
| Hiring (`org/hiring.ts`) | candidates, invitations, lookup rows | create, import, issue, reissue | plan limit by count-then-insert; reissue of a row in use | the limit is passed by a bounded amount |
| Tool broker, copilot (`v2/tool-broker.ts`, `v2/copilot.ts`) | receipts, turns, tokens | invoke, prompt | requests side by side; a replay racing its original; the submission | budgets and turn numbers hold |
| Behaviour events (`candidate/runtime-v2.ts`) | numbered, chained events | append | `max(seq)+1` without a lock | - (two statements found untrue, see 3) |
| Data rights, retention (`org/data-rights.ts`, `apps/api/src/jobs/retention*.ts`) | requests, holds, the rows themselves | request, fulfil, hold, release, sweep | holds, writes and sweeps between the statements of an erasure | what is reported erased is; what is held stays |
| Notifications (`notifications/queue.ts`, `apps/api/src/jobs/notify.ts`) | outbound messages | enqueue, send a batch | a batch is one transaction; mail leaves before COMMIT; runs overlap | every message settles, and says truly how |
| Audit chain (`apps/api/src/db/audit.ts`) | hash chain | append, verify | many writers, roll-backs | it verifies at every moment |
| Idempotency keys (`idempotency.ts`) | keys and stored replies | run once | first uses at once, roll-backs, retries | one effect per key |
| Sign-in (`auth/routes.ts`, `auth/guards.ts`) | failures, sessions, second factor | sign in and out, step up, enrol, guard | failures counted without a lock; a guard's answer used later | guesses bounded |
| Members and platform (`platform/*.ts`, `v2/flags.ts`) | members, activations, plan, suspension, support grants, flags | create, invite, activate, remove, suspend, grant | guard and handler apart; last administrator counted without a lock | a token activates once |
| AI gateway (`org/ai-gateway.ts`) | a day's usage | request, retry, log | budget read before any call is charged | spending bounded |
| Learning (`org/learning.ts`) | course, pathway, enrolments, progress | author, publish, enrol, progress, complete, attempt | no handler locks anything | a published course's structure stays as it was, but for requests already under way |
| Insights (`org/intelligence.ts`, `org/workflow-insights.ts`) | opt-in, pain points, proposals | report, generate, decide | reads and writes in separate statements | no spam of proposals |
| Compliance (`org/compliance.ts`) | audit search, retention policy | page, filter, edit | entries arrive between pages; last writer wins | a walk misses nothing; the policy is the one audited |
| Web front ends (`apps/web`, `apps/admin-web`) | drafts, versions last heard of, requests in flight, timers | type, save, load, poll, submit, upload, invite | answers late, lost or crossed; another tab; reload | what is shown as saved, submitted or agreed is |
| Analytics, views, packs, proctor companion | see PROJECT.json | - | - | - |

They meet in five places. The *session row* (`assessment_sessions`) is written by
the portal, by the V2 runtime (as a projection of its own state), and by both
reviews (`MixedReviews`). The *manifest row* of a V2 session is the lock under which
the runtime, the review, the broker and the copilot take turns. The *invitation lookup
row* decides whether a candidate's token still resolves; hiring writes it, every
candidate handler reads it before its transaction starts. The *audit chain* is appended
to at the end of almost every transaction, under an advisory lock held to COMMIT;
nothing that matters elsewhere is locked after it, so it adds no waiting cycle and only
`AuditChain` has it. A *page* and a handler meet in requests and answers, either
of which may be lost, late or overtaken.

## 2. The modules

| Module | Models |
|---|---|
| `StateMachines` | the three transition tables, as sets of triples |
| `SessionLifecycle` | abstract specification: a session's status walks the machine; the record of its submission appears in the step that submits, once |
| `CandidatePortal` | `candidate/portal.ts`, one SQL statement per step, and the reissue of `org/hiring.ts` |
| `RuntimeV2` | `v2/runtime.ts`, one handler per step, COMMIT apart from the reply |
| `ReviewV2` | `v2/review.ts`, one handler per step but for the two that take no session lock, and the calibration records of `org/calibration.ts` |
| `ReviewV1`, `MixedReviews` | `org/reviews.ts` with its claims and acknowledgements; the same composed with `ReviewV2` over one session row |
| `DataLifecycle` | `org/data-rights.ts`, `jobs/retention.ts`, `jobs/retention-v2.ts`, one statement per step |
| `Hiring` | candidates and invitations of `org/hiring.ts` under the plan of `platform/entitlements.ts` |
| `Learning` | `org/learning.ts` |
| `Outbox`, `AuditChain`, `Idempotency` | `notifications/queue.ts` with its job; `db/audit.ts`; `idempotency.ts` |
| `SessionTools`, `BehaviourEvents` | `v2/tool-broker.ts`, `v2/copilot.ts`; `candidate/runtime-v2.ts` |
| `AiGateway`, `Insights` | `org/ai-gateway.ts`; `org/intelligence.ts`, `org/workflow-insights.ts` |
| `SignIn`, `Tenancy` | `auth/`; `platform/`, `v2/flags.ts` |
| `WorkspacePage`, `EntryPage` | the V2 candidate's pages (`apps/web`, `features/candidate-v2`) |
| `PortalPage`, `SetupPage`, `ActivityPage` | the V1 candidate's page of `apps/admin-web`: its workspace, what leads up to and away from it, its files and notes |
| `EvidencePage` | the V1 candidate's page of `apps/web` |
| `ReviewPage`, `RoundPage` | the reviewer's pages of V1 and V2 |
| `BuilderPage`, `CandidatesDesk`, `AuditExplorer`, `RetentionForm` | the authors' lists, the office's desk of candidates, the compliance console and its routes (`org/compliance.ts`) |
| `MCCandidatePortal`, `MCRuntimeV2`, `MCReviewV2`, `MCRecords`, `MCServices` | the instances for TLC |
| `CandidatePortalProofs`, `RuntimeV2Proofs`, `ReviewV2Proofs` | theorems about the first three |
| `MechanismProofs`, `RecordsProofs`, `BoundsProofs` | theorems about the mechanisms, the records, and what a check without a lock lets through |
| `RecordsPagesProofs`, `ServicesPagesProofs` | theorems about the pages, in the composition each of the two instances runs them in |

### CandidatePortal

The variables are the rows of one invitation (`invitation`, `session`,
`disclosed`, `draft`, `artifact`, `manifest`, `evidence`), whether the token
resolves (`tokenLive`), and, per concurrent request, the statement it is about to
run (`pc`) and what its transaction has read (`local`). Row locks are not
variables: which request holds the session or the draft row follows from its
`pc` (`HoldsSession`, `HoldsDraft`).

The grain is the one PostgreSQL gives. A plain SELECT and the statement that
acts on it are two steps with anything in between. SELECT .. FOR UPDATE holds
its row to COMMIT. An INSERT into a child table of `assessment_sessions` takes
FOR KEY SHARE on the session row for its foreign key, which waits for a FOR
UPDATE: `SessionFree` guards each such INSERT. This is what makes a save (draft,
then evidence: session) and a submit (session, then draft) wait for each other;
`DeadlockVictim` is PostgreSQL cancelling one of them. Handlers that take one
lock and read nothing of another's are one step.

Submit is five steps. It checks and locks the session (`SubmitLock`), reads the
draft (`SubmitReadDraft`) and the artifacts (`SubmitReadArtifacts`) with plain
SELECTs, finalises the draft (`SubmitFinalise`, where it may have to wait), and
freezes, writes the manifest and commits (`SubmitCommit`). A save is an unlocked
status check (`SaveRead`), the lock of the draft with the comparison of
revisions (`SaveLock`), and the UPDATE, the evidence row and COMMIT
(`SaveCommit`); with no draft to lock it inserts one first (`SaveInsert`).

Content is abstracted to what the properties compare: a draft is its revision,
an upload of an artifact its ordinal, an evidence row its kind and, for a
save, the revision it records. An artifact's `uploaded` status, which no code
sets, is left out. `ArtifactComplete` accepts an upload for a removed artifact
because the handler does.

### RuntimeV2

Every handler starts with SELECT .. FOR UPDATE of the session's manifest row,
so handlers do not interleave and each is one step. What does come apart is the
reply and the COMMIT: disclose, the artifact PUT and finalise send their reply
from inside the transaction. They leave the rows they wrote in `tx`; `Commit`
installs them, `Crash` (lost connection, dead process, failed COMMIT) drops
them, and the candidate has been answered either way (`told`, `answer`). The
other handlers return their body and are answered after COMMIT.

`db` is the record of committed rows: `state` and `status` (the V2 state and its V1
projection), `activeSince` and `scored` (the clock), `latest` and `final`
(version numbers per path) and `receipt`. The clock (`now`) runs in ticks, several to a second, since
`transition` rounds each segment down to whole seconds. `activeTicks` and
`segments` are history variables: how long the session really was active, and
how often it became so. A receipt is its code and the heads it signs; the code is fresh for
each one drawn. Deliverable slots are the required paths; hidden checks, hashes
and signatures are values the handlers compute and nothing reads back.

`time_credit_seconds` is always 0 here: no handler under `v2/` adds a credit. The
events `withdraw`, `expire`, `escalate_support` and `resolve_support` are in the
table and no handler of the runtime sends them.

### ReviewV2

The review of one session, from the state the runtime leaves it in. `loadV2Session`
locks the manifest, and assign, the evidence bundle, the dimension PUT and finalise
touch the review's rows under that lock, so each is one step. The other two are
two steps: closing an adjudication locks its row (`CloseLock`), then updates it and
the session (`CloseCommit`); an appeal reads the assignments (`AppealRead`) and is
inserted later (`AppealInsert`), without any lock. A handler that rolls back changes
nothing, and the reply it may have sent before (the PUT and finalise reply before
COMMIT, as in the runtime) is read by no other handler here, so it is left out;
`RoundPage` has it, where a page reads it.

`assigned`, `completed` and `anchor` are `review_assignments_v2` and
`review_dimensions_v2` by round; an anchor is its position in `ANCHORS`. A session
has at most one adjudication, since only round 2 opens one and completes once
(`Adjudicated` in the proofs), so it is a status. `seen` is a history variable: whom the bundle
showed a round that is not his. `late` in an appeal is one too: it was opened
after the decision. Calibration records come and go; the roles stay as they are.
`second_review_required` is always true: it is a column default nothing overrides.

### SessionLifecycle

The portal and the runtime write `assessment_sessions.status`. `SessionLifecycle` says what
its readers may count on: it walks `SessionTransition`, and the submission's
record (the manifest in V1, the receipt in V2) appears in the very step that
submits. `ImplementsLifecycle` and `ProjectionIsLifecycle` are the two refinements.

### The reviews together

`ReviewV1` has one review row per session. Assign and issue-report lock the session
first, every other handler the review row, and each writes only under its lock, so each
is one step; the report's status is the session's. `MixedReviews` extends it with
`ReviewV2` as it is: the V1 handlers ask only for the status, which the V2 handlers
write, so a session of the V2 runtime can be given to either or to both.

### The records of an organisation

`DataLifecycle` follows one candidate's rows. An erasure (`BeginErasure`, one step per
table, `CommitErasure`) and a sweep read what is committed statement by statement, while
holds are placed and released, the candidate writes, and the other runs. What was there
when a request was taken up (`known`) and whether some hold outlasted the sweep (`spared`)
are history variables. `Hiring` keeps the count and the INSERT of an invitation apart, and
the landing view's read and write, as `CandidatePortal` does; `ceiling` and `reissues` are
history. In `Learning` every check and its write are apart, since nothing locks; `late`
counts the writes a course has had since it was published.

### The services

`Outbox`: a run claims a batch with SKIP LOCKED, and every row it marks is marked at the
COMMIT of the whole batch; a crash between has sent mail that no row knows of (`mailed`,
`bounced`). `AuditChain`: lock, read of the last entry, insert, as often as a transaction
likes, and then COMMIT or ROLLBACK, which alone frees the lock. `Idempotency`: claim, work
and stored answer in one transaction, beside others with the same key. `SessionTools`: a
request counts under the manifest's row what is committed; the broker's replay is looked
up before. `AiGateway`, `SignIn`, `Insights`: a count is read, and what it admits is
written later, side by side with others. `Tenancy`: an administrator's request is the
guard's answer and then the handler.

### The pages

A page module has what the component holds in its state (drafts, the version or revision
it last heard of, whether it is saving, which screen it shows), what is on its way
(requests, answers, timers), and of the server only the rows these requests read or write,
with what others do to them. One action each for a click, a keystroke, a timer, a request
arriving, an answer arriving or lost, a reload. `PortalPage`, `SetupPage` and
`ActivityPage` are one component of 1681 lines, cut where its parts share nothing but the
session's status.

Five V2 routes answer from inside the transaction: disclose, the artifact PUT, finalise, and the
review's PUT and its finalise. On their pages the answer and the COMMIT are two steps as well: what is answered
for and not committed is a variable (`dueState`, `duePut`, `uncommittedRow`, `uncommittedEnd`),
`Commit...` installs it and `RollBack...` drops it, while the page may have shown it already;
whatever takes the manifest's row meanwhile waits. `lostReceipt`, `lostPuts` and `lostRows` are
history variables: for what the page was answered and the COMMIT failed. The routes of V1 reply
after COMMIT, so there an answer on its way is enough.

Two distinctions a page makes matter. In `PortalPage` an entry that is empty (`NoWords`) is not an
entry that is missing (`Absent`): `{...content, ...prev}` lets the first override the server's text,
and leaving a field nobody typed in stores one (`HandleSave`); `leftEmpty` is the history of the responses such an entry
was made for. In `WorkspacePage` loading is the listing, which gives the versions
(`ListArtifacts`), and then one request for each content (`FetchContent`); one that fails leaves the
empty text under the version listed (`unread`).

## 3. Runs

| Run | Instance | States | Shows |
|---|---|---|---|
| `portal` | 2 requests, 1 artifact, 3 revisions, 2 uploads | 175,155 | the safety properties, the refinement and `RequestsEnd` |
| `portal_accepted` | same | - | violated: `accepted` goes back to `opened` |
| `runtime` | 3 paths, 1 required, 2 artifacts, 2 versions, timebox 2 s at 2 ticks/s, 7 ticks, 2 segments, 2 receipts | 190,844 | the safety properties, the refinement and `TimeLimitEnds` |
| `runtime_receipts` | same | - | violated: two different receipts handed out |
| `runtime_refusal` | same | - | violated: a refusal leaves a session that takes no more work |
| `review` | 3 reviewers, one an administrator, 2 dimensions, 3 anchors, 1 appeal | 246,970 | the safety and action properties of the review |
| `review_two` | same | - | violated: a session decided on one completed review |
| `review_blind` | same | - | violated: a second reviewer who had read the first round |
| `records` | both reviews, data, hiring, learning, setup, activity, builder, desk, explorer, retention | 1,347,245 | their safety properties |
| `services` | mail, audit, keys, tools, events, gateway, sign-in, members, insights, seven pages | 718,297 | their safety properties and `MessageSettles` |
| `workspace_saved` | 2 deliverables | - | violated: a page says "saved" of a text it never sent |
| `tenancy_last_admin` | 2 users | - | violated: an organisation without an administrator |

**Focus.** `MCRecords` and `MCServices` hold components that share no state. A behaviour
follows one of them, chosen by `focus` in the first state, and the others stand still at
one initial state: the run explores the union of their state spaces, not the product,
which would tell nothing more. Components that do interact are composed for real:
`MixedReviews`, `CandidatePortal` with hiring's reissue, every page with its routes.

**Bounds.** Two requests make every pair of handlers interleave, and both ways
of the save/submit deadlock; a third adds no new pair, and the theorems hold for
any number. Three revisions allow a save after the first and a stale one. Two
uploads tell an artifact's content at submission from a later one. In the
runtime two artifacts for three paths let the quota shut out the required one;
seven ticks run a two-second timebox past its limit with a pause in between that
drops half a second; two receipts are what it takes to see a second one.
In the review three users fill two rounds in every way and leave one to appeal to;
one of them holds both roles; two dimensions leave a round half done; three
neighbouring anchors agree, nearly agree and disagree (the two plain reviewers, and the
dimensions, are symmetric). `MaxRevision`, `MaxUpload`, `MaxTime`, `MaxSegments`,
`MaxReceipts` and `MaxAppeals` bound the models, not the code. `MaxArtifacts` and `MaxVersions` are limits of the code.

In `records` two holds can relieve each other within a sweep; two clerks pass the count of
a plan together, and three invitations leave one to reissue and one beside it; scores 2 and 4 are
apart by the trigger; two authors add to one list. In `services` three transactions append to the
audit chain while a third waits; three calls race for one key, so a loser has a winner and a
retry; two messages, two runs and one crash let a batch fail beside another; two
administrators and three proposals let a revived proposal meet a new one. Limits the code
sets high (60 turns, 5 failures, 8 reports, 3 attempts) are constants given small values: what happens at
a limit does not depend on its size, and the theorems leave it open. Every page has one
request more on its way than its code intends, two texts and the empty one (in `PortalPage` also no entry), and one lost answer, COMMIT or
failure where they are counted (`MaxOutage`, `MaxFailure`, `MaxPost`, `MaxSetupPut`).
`MaxCrashes`, `MaxEntry`, `MaxInvite`, `MaxDay`, `MaxHour`, `MaxCohort`, `MaxLength`,
`MaxTrail`, `MaxAsked`, `MaxTold`, `MaxSequence` bound the models only.

**Deadlock** is checked in `review` alone. Once the token has expired nobody calls the portal
or the runtime any more; sessions of the other components end, mail settles and bounds are
reached: all of these really stop.

**Fairness.** In the portal, `SF(Progress(r))`: a transaction's next statement runs
once its lock can be granted; PostgreSQL queues waiters, so a lock that is freed
again and again is granted in the end (strong, since others keep taking it). `WF(DeadlockVictim)`:
the detector runs. Nothing is assumed of clicks, clocks or aborts. In the runtime, `WF(Commit)`: a
COMMIT that is not lost completes. `SF(Poll)`: the workspace page polls the state
every 30 s (`apps/web/src/features/candidate-v2/runtime/WorkspacePage.tsx:72`)
and its turn at the row lock comes. `TimeLimitEnds` needs the
page to be open: nothing in the server enforces the limit by itself. For mail, `WF(Work(w))`
and `WF(BackoffElapses(m))` where mail is the focus: the notification job is meant to be
run by a scheduler again and again (`apps/api/src/jobs/notify.ts`), and time passes. Nothing is assumed of the mail
server's answers, nor of crashes beyond their being finite (`MaxCrashes`). The reviews and everything else
have no fairness: what people do is up to them, so they have safety properties only.

### The properties

Portal: `ManifestPinsDraft` (what the submission seals is what was last saved),
`DisclosureFirst` (BR-01, through every handler that checks the status without
a lock), `SavesAreEvidenced` (revisions and evidence rows agree one for one,
rolled-back and refused saves included), `SealedStaysSealed` (no later handler
rewrites what was finalised or frozen), `ImplementsLifecycle`, `RequestsEnd` (no
request waits for ever).

Runtime: `ReceiptSealsFinals` (a receipt exactly in a submitted session, over
what was last saved on every path), `TimeAccounted` (only active time is
charged, and less than a second is forgiven per segment), `NothingTakenBack`
(committed receipts, versions and scored time), `ProjectionIsLifecycle`,
`TimeLimitEnds`.

Review: `FinalisedExactly` (the second round decides, and nothing is left undecided
behind it), `NoDisagreementUnresolved` (the disagreement is computed once, over
whatever round 1 has by then, and still none gets through), `CompletedRoundsWhole`,
`CompletedRoundStands` (through a close that holds no session lock and a
finalisation that does not look at the state), `WalksMachines` (the UPDATEs are
written by hand, past the state machine), `BlindUnlessAdmin`, `LateAppealsIndependent`.

Records: `VarianceAdjudicated` and `FinalisedReviewStands` (the V1 review, whoever comes,
changes or goes last), `DecidedByReview` (two reviews writing one status),
`SweepSparesHeld` and `FulfilledMeansErased` (statements of erasures, sweeps and holds in any
order), `PlanOvershootBounded` (count, then insert, and reissues beside them),
`LateWritesBounded` (a published course changes only by requests already under way, so by fewer
than there can be at once), `PolicyAsAudited`, and the pages: `SetupToldTruly` (nothing begun that was not prepared and
informed of; a receipt of a submission only) and `PagesTellTruly` (details, lists,
positions, tokens, reports and walks are about the records they are shown for).

`PagesTellTruly` says less than its name in three places, each marked in its module: once a late answer has put
another candidate's token on the desk (`strayed`), or a file was chosen during an import
(`rechosen`), it is silent on that token or report, because there the code is wrong; and its walk through the audit log
takes entries of one millisecond to come in a stable order, which `org/compliance.ts:78-81` does not ask for.

Services: `ChainVerifies`, `OneEffectPerKey`, `SettledTruly` and `MessageSettles`,
`BudgetsKept`, `SpendBounded` and `GuessesBounded` (by how much a count without a lock is
passed), `TokenUsedOnce`, `OpenProposalsBounded`, and the pages: `ShownSavedIsStored` (what
four pages show as saved the server has; in V2, or will have with the COMMIT its answer was ahead of,
and a failed COMMIT after the answer is the only exception), `CandidateToldTruly` (begun knowingly, submitted
when it says so, with the same exception for a receipt), `ResponsesNeverDropped` (no conflict, reload or late answer
drops a stored entry, and only an empty entry some page made for a response blanks its text).

Four of these are conjunctions of one property per page, `SetupToldTruly` and
`PagesTellTruly` in `MCRecords`, `ShownSavedIsStored` and `CandidateToldTruly` in
`MCServices`: the pages run side by side in one run, and fail one by one in the named
conjunct. The operators marked "Wrong on purpose" beside the real ones are the plausible
mistakes each property was seen to catch; no specification uses them.
Types are checked where they are proved and not again by runs.

### Disagreements found

Seven statements of the repository that the code does not keep, each one run:

1. `accepted` is declared terminal, but the landing view writes `opened` over it
   (read without a lock, UPDATE without a condition).
2. "One receipt per session regardless of concurrency": the receipt is sent
   before COMMIT; if that fails, the retry sends another.
3. "validation failures leave the session active and mutable": not after the
   time limit moved it to `submitting`.
4. "every V2 session requires a blind second review": round 2 may be finalised before
   round 1 has written a word, and decides the session; the first reviewer is then
   refused.
5. "round-2 reviewers never see round-1 anchors until they complete": an
   administrator who is also a reviewer sees them before he is assigned.
6. "autosaves a second after you stop typing": the V2 workspace has one timer for
   all deliverables, and typing in a second drops the save of the first; the page says "saved".
7. "so the org can never lock itself out": two administrators who remove each other
   both count one other.

More were met while modelling and have a definition in their module, or a comment, but no run:

- *V1 portal.* An artifact not yet `available` at the submission is not frozen, and still
  changes; a save whose status check came before a submission or withdrawal still commits.
- *V2 runtime.* Finalising in `paused_tech` is answered with a 500, not STATE_CONFLICT. V1
  routes accept a V2 session's token and move its V1 status away from the projection.
- *Reviews.* A report is issued on the status alone: of a session the V2 review decided
  there is no V1 review to show (`IssuedReportIsReadable`), and the V2 handlers write over
  `report_issued` (`ReportIssuedIsTerminal`). A V2 assignment is never reassigned. An appeal can
  be opened before the decision, and its reviewer be assigned a round after (`late`).
- *Data.* A hold placed after the look does not block an erasure (`HoldBlocksErasure`). The
  V2 retention looks at no hold, and its audit row fails for want of `entry_hash`; a
  sweep anonymises a candidate with one past session who has others to come; holds released in a
  sweep lift it over its cap; rows written during an erasure and the V2 tables remain.
- *Hiring.* A reissue asks for no limit, can be repeated, and drops the pack version.
- *Keys, mail, tools, events.* The loser of an idempotency race is answered with a 500
  (`EveryCallerSeesTheResult`), as is a tool replay racing its original; mail is sent before the
  COMMIT that records it (`SendsAudited`); two batches of events can chain on one head, and
  numbers arrive below a stored one (`IncomingAboveStored`); the receipt's event head may be an old one.
- *People.* Enrolling a second factor races its verification; step-up failures are not
  counted; a support request past its time can be approved; a plan assigned while suspended
  is active; an activation issued earlier stays good.
- *Learning, insights, gateway.* A completed enrolment is reopened by a progress request on its
  way; a lesson added during publication, or after it by a request that read the draft, is outside the checksum, though
  `org/learning.ts:281-283` says "exactly what was published", and a second publication overwrites the first one's. A pain point may be
  stored after the opt-out, and proposals are drawn without asking for the opt-in. A call outlives
  the switching-off of the gateway, and failed attempts are not charged.
- *Candidate's pages.* "Save failed - retrying" never retries; a late answer reverts
  what was typed since, and text that could not be read on loading is shown as empty and "saved"
  (`WorkspacePage`). An answered save or finalisation whose COMMIT fails leaves a tick or a receipt for
  nothing; after a lost first save every later one conflicts, as no head is there to take the version from. In the V1
  portal, leaving an untouched field during a conflict blanks the answer another tab stored
  (`CandidatePortalPage.tsx:375`, `:496`). The V1 workspace of `apps/web` is lost on reload or
  pause, and autosaves an empty event at first. The V2 entry is stuck after a half-done
  check-in until reopened; a failing refresh replaces the receipt with an error. A paused V1 session cannot
  be resumed from its page (it posts `start`), a withdrawal after submission is always refused, a stage
  clock lives in the browser alone, an annotation of the note erases the flag, and the other way round.
- *Reviewer's pages.* The V1 page says "Unsaved changes" from the start, drops unsaved
  scores at finalisation, lets nobody adjudicate (the evidence is refused to the
  administrator), and one early adjudication refuses the whole save. The V2 page keeps
  "saved" beside edited text and beside a save whose COMMIT failed, and saving again empties the cited evidence.
- *Office's pages.* A late answer shows one candidate's token under another's name
  (`strayed`); a file chosen during an import is never sent though a report is shown beside it (`rechosen`). A
  filter keeps the offset, so the audit log can look empty; "Next" twice skips a page; the
  retention form overwrites what another administrator has set since.

## 4. What is proved

Constants are arbitrary, subject to the named assumption of their module: numbers are
naturals, values that stand for "nothing" are not members of what they stand beside, and a set is assumed finite
only where a bound is counted in it (requests in flight, `Clerk`, `Admin`, `Attempt`,
`Requester`). Safety theorems use no fairness; `TimeLimitReached` and
`RequestsAllEnd` use that of the `FairSpec` they are about.

Three kinds of theorem follow. The first states a property a run checks, so that the run
shows it of a small instance and the theorem of every one. The second is about a
*violated* statement of the code: it names a condition under which the statement holds, and
so says that what the trace of section 3 shows is the only way to break it. The
third is type correctness. Where a property is stated of a component's own
specification, `RecordsAreTheirParts` and `ServicesAreTheirParts` carry it to the
specifications the runs explore: a behaviour of the union is a behaviour of each part.

**Portal** (`CandidatePortalProofs`): `TypeCorrect`, `ManifestPins`,
`DisclosesFirst`, `SavesEvidenced`, `SealedStays`, `PortalImplementsLifecycle`, `OnlyDeadlock`,
`RequestsAllEnd`. `ManifestPinsDraft` is not inductive: nothing in it says why the
revision submit has read is still the draft's when it commits. The inductive
invariant `IInv` has a part about locks and a part about records. `LockInv`: the two row locks exclude; while a submit holds
the session it is `in_progress`, so no other submit, withdrawal or first
transition runs (`SubmitsInProgress`); the draft submit read stands
(`ReadDraftStands`), because a save's last statement needs the session row for
its foreign key and so waits; a save that holds the draft holds it unfinalised at the
revision it was sent (`SavesCompare`). `RecordInv`: a manifest exactly in a
submitted session (`SubmittedIsWritten`), a draft's shape, and that whatever was admitted was
admitted after the disclosure (`AdmittedDisclosed`). One lemma per
action, one step per part. The argument shows that the unlocked read in submit is safe
*only* through the foreign key of `evidence_events`: `SaveCommit` is kept out by
nothing else.

`OnlyDeadlock` says of any number of requests that one of them can run its next statement,
or a save and a submission wait for each other: the portal has no other deadlock than the
one the database breaks. It needs `ArtifactPromise`, that every upload admitted has an identity
left to insert. `RequestsAllEnd` follows the locks one by one: a submission ends or
is broken off (`SubmissionEnds`), so the session row is free again and again
(`SessionReturns`), so whoever needs it gets it by strong fairness, so a save that holds the draft
ends, so the draft row is free again and again.

**Runtime** (`RuntimeV2Proofs`): `TypeCorrect`, `ReceiptSeals`,
`TakesNothingBack`, `RuntimeImplementsLifecycle`, `ClockAccounts`, `TimeLimitReached`. The invariant says of both copies of the rows, committed
and answered, that the status is the projection of the state and a receipt names the
latest versions, and of the answered copy that it is one legal step
ahead of the committed one (`Follows`), so COMMIT can be shown a step of the
lifecycle without looking at the handler again. The clock has an
invariant of its own, `TimeInv`: time charged plus time running is at most the
active time, and short of it by at most `TicksPerSecond - 1` ticks for each segment closed. `RoundsDown` is the arithmetic
of one segment. `TimeLimitReached` rests on `OverLimitStays`: past its limit a session
stays so until it leaves "active", and no save or pause in between gives time back.

**Review** (`ReviewV2Proofs`): `TypeCorrect`, `DecidedBySecondRound`,
`DisagreementsResolved`, `RoundsWhole`, `RoundsStand`, `Blindness`,
`AppealsIndependent`, `MachinesWalked`. `FinalisedExactly` is inductive only with
`Adjudicated` (an adjudication follows round 2, a close an open one) and
`RoundsFilled` (round 2 is assigned after round 1, to somebody else):
`Finalise` does not look at the state, so that it finds a session in review when
round 2 completes has to come from them. `NoDisagreementUnresolved` rests on
the dimension PUT alone: the decision is the last moment anchors can change.
`AppealStands` carries an appeal's independence from its read to its insertion,
because a decided session has both its rounds assigned and takes no other.

The invariant is split in two: `OwnInv` speaks of the rows only this review writes, `Paired` of
the session's status, which the V1 handlers write as well. `OwnInv` is kept by any step that leaves its rows alone, so the proofs
are instantiated in `RecordsProofs` beside V1: `ReviewsApart` and `RoundsStandApart` say
that all this review promises of its own rows survives a V1 review of the same
session. What does not is in `Paired`. `MixedReviews` then assumes of the
constants what both reviews do (`MixedAssumption`: anchors are naturals, appeals counted).

**Mechanisms** (`MechanismProofs`): `AuditChainVerifies`, `KeyActsOnce`,
`ActivatesOnce`, `MailSettlesTruly`. `ChainVerifies` speaks of committed entries;
`ChainIInv` adds (`Chained`) that a transaction which has begun to append holds the lock,
what it read is still the last entry, and its uncommitted entries chain on the log and on
each other: so a COMMIT extends the log by a verified tail. `MaxExists` gives the last entry.
`KeyIInv`: the effects are the rows of the key, and no request has inserted it while one
is committed. `ActivationIInv`: a token being redeemed is live, and in one request's
hands. `MailIInv`: committed rows and drafts alike are true of their mail (`Truly`), and stay
so since deliveries are only counted (`TrulyStays`).

**Records** (`RecordsProofs`): `VariancesAdjudicated`, `HumansDecide`,
`FinalisedStands`, `HeldAreSpared`, `FulfilledErases`, `LateWritesAreFew`,
`PolicyAudited`, `CompletionsBegun`. The first three are of the composed specification `MixedSpec` and share
`ReviewsIInv`, which adds that a session with a V1 review has left "submitted" for good:
then a decided session got there through one review or the other. `ErasureIInv` types the
requests and says what an erasure in each stage covers of the rows known when it was
taken up (`ErasureCovers`). `SweepIInv` adds to `SweepSparesHeld` that a hold outlasting the
sweep is there. `CourseIInv`: once a course is published nobody reads its draft any more, so
each late write uses up a request that was under way, and the one that published is spent already. `StudyIInv`: an enrolment begun, like a completion on its way, has the progress of a lesson, and
progress is never deleted. `PolicyIInv` is the property with the types of the saves on their way.

**Bounds** (`BoundsProofs`): `GuessingBounded`, `SpendingBounded`, `BudgetsHold`, `NothingLeftBehind`,
`PlanBounded`, `ProposalsBounded`, for any limit and any number of requests at a time.
Each invariant counts what has passed the check and not yet been written with what has been
(`Counted`, `InAir`, `Issuing`, `Generators`), and what may come back: `Reviving` for a landing view
that reopens an expired invitation, `Hot` for a dismissed proposal with an approval on its
way. `CrowdOfDeciders` is the argument that these are in distinct hands. `BudgetsHold` is exact, not a bound with
slack: whoever counts holds the manifest's row until he has written (`Holding`). By the same
lock `NothingLeftBehind`: pausing and closing wait for it, so what was let in while the session was active is
written before, and a submission's counts stay right.

**Pages** (`RecordsPagesProofs`, `ServicesPagesProofs`): `SetupTold`, `PagesTold`,
`PagesShowSaved`, `CandidatesTold`, `ResponsesKept`. They are stated of `RecordsSpec` and
`ServicesSpec`, the specifications the runs check; each page's part is a lemma about its own
module, and a lemma says the others' steps leave its variables alone. A page is right in
spite of late answers because something at the server only grows, or because an answer was
given for it and is still to be committed, and that is what each invariant adds to the property:

- *The V1 workspace* (`KeepIInv`, for `ResponsesNeverDropped`). Whatever a load, a conflict or an
  answer carries was the draft at the revision it names, so at that revision it has every
  response the server has (`Fits`); once the server is ahead, the comparison of revisions
  refuses it. A page that has heard of no revision names the first, whose draft has no answers yet. `BlankIInv`
  adds that an empty entry on the page, on its way or stored is of a response one was made for.
- *The authors' lists* (`BuilderIInv`). Entries are only added, so a length shown or
  posted is at most the list's, and a position that is free is the one after the last.
- *The audit explorer* (`ExplorerIInv`). Entries are numbered upward and shown latest first, so
  what lies above a given entry only increases: an orderly walk at some offset has read all
  that was there down to it, and an entry arriving meanwhile can only push things to where
  they are read twice.
- *The desk and the artifact details* (`DeskIInv`, `ActivityIInv`). An answer still allowed to
  set the page is for the person, sheet or file now chosen; the ones overtaken are marked.
- *Scoring and rounds* (`ScoringIInv`, `RoundIInv`). A save stored is of the drafts now in
  the reviewer's own column: the other reviewer writes the other one. A dimension called saved is recorded, or in the
  open transaction, or among the lost.
- *The V2 workspace* (`HeadIInv`, `WorkIInv`). Versions only go up, one at a time under the manifest's lock
  (`HeadIInv`), and every version a page, a save or an answer names was stored, or answered for and not yet committed, or
  lost after its answer (`Had`).
- *Begun and submitted* (`SetupIInv`, `EntryIInv`, `EvidenceIInv`). Each stage of a page
  lies behind what was confirmed before it, requests under way and open transactions included.

**What the violated statements lack.** Each hypothesis is a step or a state the code does
not exclude, so none of these says that the code keeps its statement; the trace shows it
does not.

| Statement | Theorem | Holds as long as |
|---|---|---|
| `AcceptedIsTerminal` | `AcceptedUnlessOverlapped` | no acceptance commits between a landing view's SELECT and its UPDATE |
| `OneReceipt` | `OneReceiptUnlessLost` | no finalisation is lost at its COMMIT after it was answered; other crashes do no harm |
| `RefusalLeavesMutable` | `MutableWithinTime` | an active session has time left |
| `FinalisedOnTwoReviews` | `TwoReviewsInOrder` | round 2 is completed after round 1 |
| `SecondReviewIsBlind` | `BlindWithOneRole` | nobody is reviewer and administrator |
| `SavedMeansSaved` | `SavedOfOneDeliverable` | the pack has one deliverable, the poll never calls the page offline, no COMMIT of an answered save fails and no content is unread on loading (`Undisturbed`) |
| `AnAdminRemains` | `LastAdminKept` | no two removals are between count and DELETE |
| `IncomingAboveStored` | `SequenceGrows` | no two batches have both read the highest number |
| `SendsAudited` | `MailOncePerLoss` | no run was lost; otherwise mails exceed audit rows, and one mail each recipient, by at most the runs lost |
| `HoldBlocksErasure` | `HeldUnlessLate` | no hold is placed while an erasure is under way |
| `FrozenServed` | `FrozenIsServed` | authors take turns: no two have requests on the course at once |

The last four are statements of section 3's second list, which no run checks. The
safety half of each argument is an invariant that the hypothesis makes inductive
(`LandsBefore`, `ToldKept`, `StillMutable`, `SavedIInv`, `AdminIInv`, `AloneIInv`, `AboveStored`, `OnceIInv`, `ErasesUnheld`).

**Types.** Besides the three `TypeCorrect`, the theorems `MechanismsTyped`, `RecordsTyped` and
`BoundsTyped` type the components' variables. Two conjuncts are not typing alone: that
no message is tried more than `MAX_ATTEMPTS` times needs runs to hold different, unsettled rows
(`LimitIInv`), and that there are no more reissues than rows needs each to use up a fresh identity
(`ReissueIInv`).

**Only model-checked.** Every safety property of a passing run has its theorem, and so have
two of the three liveness properties, up to one hypothesis. TLAPS cannot expand
ENABLED, so `RequestsAllEnd` and `TimeLimitReached` assume `[]StepsEnabled`: that a statement whose
guard holds can be executed, as one reads off the definitions. TLC finds `StepsEnabled`
an invariant of the instances. `MessageSettles` is left to TLC altogether: it takes an induction over
the attempts left, which the prover cannot instantiate.

## 5. Plan

Done: everything listed in section 2. What would add most next:

1. `CandidatePortal` and `RuntimeV2` over one session, for the V1 routes a V2 token
   reaches (`candidate/portal.ts:478`): each alone takes minutes to explore, so the
   composition needs a coarser grain of the portal. `ReviewsApart` shows the form its
   theorem would take.
2. Type theorems of the pages, whose invariants so far type only the
   variables their properties read.
3. Causal theorems for the remaining entries of section 3's second list
   (`ReportIssuedIsTerminal`, `IssuedReportIsReadable`, `EveryCallerSeesTheResult`).
4. The pages of team and sessions (`apps/web`), which share the hazard of a late
   answer with the candidates' desk.

## 6. What is not modelled

Row-level security, rate limits and feature flags stand in front of the handlers and are
taken as passed; cryptography, pack content, prompts, scoring formulas, hashes and
signatures are values. Text is one of two or three values. Incidents and
accommodation requests insert rows nothing modelled reads. Analytics, usage and the
read-only views are left out, as are the proctor companion (message shapes and a desktop
shell), mail transport and templates, migrations but for the constraints the handlers
rely on, build and infrastructure.

Of the front ends, the pages without a state of their own (lists, dashboards, forms that post once) are left out;
their loading is `useAsyncData` and `useQuery`, modelled where a late answer matters. Most
other pages of `apps/admin-web` (settings, billing, home, its reviewer's pages) call routes that no module of the
API registers, so there is no handler to model them against. The learning player only
shows and posts.

Two hazards have no property: the mixed routes of the plan's first item, and the audit row of
`jobs/retention-v2.ts:90`, which always fails.
PROJECT.json lists every component with its status, and every hazard with the properties
that cover it or the reason that none does.
