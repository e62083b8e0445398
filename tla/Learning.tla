------------------------------- MODULE Learning -------------------------------
(***************************************************************************)
(* The learning module of one organisation (org/learning.ts): one course,  *)
(* one pathway, and the learners enrolled in the course.  No handler locks *)
(* anything: what it has read may be out of date when it writes.           *)
(***************************************************************************)
EXTENDS Integers, FiniteSets

CONSTANTS
  Author,      \* requests of authors at a time
  Learner,     \* members of the organisation
  Chapter,     \* positions of course_modules
  Place,       \* positions of lessons in a module
  Practice     \* the lessons that have a practice template

ASSUME LearningAssumption ==
  /\ Practice \subseteq Chapter \X Place
  /\ IsFiniteSet(Author) /\ Author # {}

VARIABLES
  course,      \* courses.status
  chapters,    \* course_modules
  lessons,     \* <<chapter, place>>
  frozen,      \* the lessons published_checksum was computed over
  late,        \* how many writes the course has had since it was first published
  linked,      \* the pathway has the course
  authoring,   \* author -> the request he has under way and what it read
  enrolment,   \* learner -> learning_enrollments.status
  progress,    \* lesson_progress: <<learner, lesson>> -> completed_at is set
  studying,    \* learner -> the statuses his requests under way have read
  attempts     \* learning_assessment_attempts

learningvars == <<course, chapters, lessons, frozen, late, linked, authoring,
                  enrolment, progress, studying, attempts>>
authored == <<course, chapters, lessons, frozen, late, linked, authoring>>
learned == <<enrolment, progress, studying, attempts>>

Slot == Chapter \X Place
NoRequest == [doing |-> "none", chapters |-> {}, lessons |-> {}]
NoStudy == [progress |-> "none", completion |-> "none"]
Enrolment == {"none", "enrolled", "in_progress", "completed", "withdrawn"}
EnrolmentTerminal == {"completed", "withdrawn"}

(* learningEnrollmentMachine *)
EnrolmentTransition ==
  {<<"enrolled", "begin", "in_progress">>, <<"in_progress", "complete", "completed">>}
  \cup {<<s, "withdraw", "withdrawn">> : s \in {"enrolled", "in_progress"}}

LearningTypeOK ==
  /\ course \in {"draft", "published"}
  /\ chapters \subseteq Chapter /\ lessons \subseteq Slot /\ frozen \subseteq Slot
  /\ late \in Nat /\ linked \in BOOLEAN
  /\ authoring \in [Author -> [doing : {"none", "edit", "outline", "publish"},
                               chapters : SUBSET Chapter, lessons : SUBSET Slot]]
  /\ enrolment \in [Learner -> Enrolment]
  /\ DOMAIN progress \subseteq Learner \X lessons
  /\ progress \in [DOMAIN progress -> BOOLEAN]
  /\ studying \in [Learner -> [progress : Enrolment, completion : Enrolment]]
  /\ attempts \subseteq Learner \X (lessons \cap Practice)

LearningInit ==
  /\ course = "draft" /\ chapters = {} /\ lessons = {} /\ frozen = {} /\ late = 0
  /\ linked = FALSE
  /\ authoring = [a \in Author |-> NoRequest]
  /\ enrolment = [l \in Learner |-> "none"]
  /\ progress = [p \in {} |-> FALSE]
  /\ studying = [l \in Learner |-> NoStudy]
  /\ attempts = {}

-------------------------------------------------------------------------------
(* Authoring: the status is read, with the module a lesson is to be put    *)
(* in, and the rest follows.                                               *)

Answer(a) == authoring' = [authoring EXCEPT ![a] = NoRequest]

(* A statement that writes to the course; late if the course is published. *)
Writes == late' = IF course = "published" THEN late + 1 ELSE late

(* Wrong on purpose: the status is not asked. *)
ReadDraftAnyStatus(a) ==
  /\ authoring[a] = NoRequest
  /\ authoring' = [authoring EXCEPT ![a].doing = "edit", ![a].chapters = chapters]
  /\ UNCHANGED <<course, chapters, lessons, frozen, late, linked, learned>>

ReadDraft(a) ==
  /\ authoring[a] = NoRequest /\ course = "draft"
  /\ authoring' = [authoring EXCEPT ![a].doing = "edit", ![a].chapters = chapters]
  /\ UNCHANGED <<course, chapters, lessons, frozen, late, linked, learned>>

(* UNIQUE (course_id, position): a second one is answered 409 (DropRequest).*)
AddModule(a, c) ==
  /\ authoring[a].doing = "edit" /\ c \notin chapters /\ Answer(a) /\ Writes
  /\ chapters' = chapters \cup {c}
  /\ UNCHANGED <<course, lessons, frozen, linked, learned>>

(* UNIQUE (course_module_id, position), likewise. *)
AddLesson(a, x) ==
  /\ authoring[a].doing = "edit" /\ x[1] \in authoring[a].chapters /\ x \notin lessons
  /\ lessons' = lessons \cup {x} /\ Answer(a) /\ Writes
  /\ UNCHANGED <<course, chapters, frozen, linked, learned>>

(* Publishing reads the modules, then the lessons of those modules; none   *)
(* of either is answered 422 COURSE_EMPTY.                                 *)
ReadModules(a) ==
  /\ authoring[a].doing = "edit" /\ chapters # {}
  /\ authoring' = [authoring EXCEPT ![a].doing = "outline", ![a].chapters = chapters]
  /\ UNCHANGED <<course, chapters, lessons, frozen, late, linked, learned>>

Outlined(a) == {x \in lessons : x[1] \in authoring[a].chapters}

ReadLessons(a) ==
  /\ authoring[a].doing = "outline" /\ Outlined(a) # {}
  /\ authoring' = [authoring EXCEPT ![a].doing = "publish", ![a].lessons = Outlined(a)]
  /\ UNCHANGED <<course, chapters, lessons, frozen, late, linked, learned>>

(* The UPDATE has no condition on the status. *)
Publish(a) ==
  /\ authoring[a].doing = "publish" /\ Answer(a) /\ Writes
  /\ course' = "published" /\ frozen' = authoring[a].lessons
  /\ UNCHANGED <<chapters, lessons, linked, learned>>

(* Refused, or the connection is lost. *)
DropRequest(a) ==
  /\ authoring[a] # NoRequest /\ Answer(a)
  /\ UNCHANGED <<course, chapters, lessons, frozen, late, linked, learned>>

(* A course in any status, once for each pathway. *)
LinkCourse ==
  /\ ~linked /\ linked' = TRUE
  /\ UNCHANGED <<course, chapters, lessons, frozen, late, authoring, learned>>

-------------------------------------------------------------------------------
(* Learning. *)

(* The status of the course is not asked; a learner enrolled already is    *)
(* skipped (ON CONFLICT DO NOTHING).                                       *)
BulkEnrol(learners) ==
  /\ enrolment' = [l \in Learner |->
       IF l \in learners /\ enrolment[l] = "none" THEN "enrolled" ELSE enrolment[l]]
  /\ UNCHANGED <<authored, progress, studying, attempts>>

ReadForProgress(l) ==
  /\ studying[l].progress = "none"
  /\ enrolment[l] \notin EnrolmentTerminal \cup {"none"}
  /\ studying' = [studying EXCEPT ![l].progress = enrolment[l]]
  /\ UNCHANGED <<authored, enrolment, progress, attempts>>

(* Any lesson there is: that it belongs to the course is not asked. *)
SaveProgress(l, x, done) ==
  /\ studying[l].progress # "none" /\ x \in lessons
  /\ progress' = [p \in DOMAIN progress \cup {<<l, x>>} |->
                    IF p = <<l, x>> THEN done ELSE progress[p]]
  /\ enrolment' = IF studying[l].progress = "enrolled"
                  THEN [enrolment EXCEPT ![l] = "in_progress"] ELSE enrolment
  /\ studying' = [studying EXCEPT ![l].progress = "none"]
  /\ UNCHANGED <<authored, attempts>>

(* Wrong on purpose: refused in a terminal state only. *)
ReadForCompletionLoose(l) ==
  /\ studying[l].completion = "none"
  /\ enrolment[l] \notin EnrolmentTerminal \cup {"none"}
  /\ studying' = [studying EXCEPT ![l].completion = enrolment[l]]
  /\ UNCHANGED <<authored, enrolment, progress, attempts>>

ReadForCompletion(l) ==
  /\ studying[l].completion = "none"
  /\ \E t \in Enrolment : <<enrolment[l], "complete", t>> \in EnrolmentTransition
  /\ studying' = [studying EXCEPT ![l].completion = enrolment[l]]
  /\ UNCHANGED <<authored, enrolment, progress, attempts>>

CompleteEnrolment(l) ==
  /\ studying[l].completion # "none"
  /\ enrolment' = [enrolment EXCEPT ![l] = "completed"]
  /\ studying' = [studying EXCEPT ![l].completion = "none"]
  /\ UNCHANGED <<authored, progress, attempts>>

DropStudy(l) ==
  /\ studying[l] # NoStudy
  /\ studying' = [studying EXCEPT ![l] = NoStudy]
  /\ UNCHANGED <<authored, enrolment, progress, attempts>>

(* Wrong on purpose: the lesson's template is not asked for. *)
PracticeAttemptUnlinked(l, x) ==
  /\ enrolment[l] # "none" /\ x \in lessons
  /\ attempts' = attempts \cup {<<l, x>>}
  /\ UNCHANGED <<authored, enrolment, progress, studying>>

(* Whatever the enrolment's status; a lesson of the course with a template.*)
PracticeAttempt(l, x) ==
  /\ enrolment[l] # "none" /\ x \in lessons \cap Practice
  /\ attempts' = attempts \cup {<<l, x>>}
  /\ UNCHANGED <<authored, enrolment, progress, studying>>

LearningNext ==
  \/ \E a \in Author :
       \/ ReadDraft(a) \/ ReadModules(a) \/ ReadLessons(a) \/ Publish(a) \/ DropRequest(a)
       \/ \E c \in Chapter : AddModule(a, c)
       \/ \E x \in Slot : AddLesson(a, x)
  \/ LinkCourse
  \/ \E learners \in SUBSET Learner \ {{}} : BulkEnrol(learners)
  \/ \E l \in Learner :
       \/ ReadForProgress(l) \/ ReadForCompletion(l) \/ CompleteEnrolment(l) \/ DropStudy(l)
       \/ \E x \in Slot : PracticeAttempt(l, x) \/ \E done \in BOOLEAN : SaveProgress(l, x, done)

LearningSpec == LearningInit /\ [][LearningNext]_learningvars

-------------------------------------------------------------------------------
(* Properties. *)

(* A completion is of an enrolment that was begun: whichever requests of   *)
(* the learner cross, a completed enrolment has the progress of a lesson.  *)
CompletedHasBegun ==
  \A l \in Learner :
    enrolment[l] = "completed" => \E x \in lessons : <<l, x>> \in DOMAIN progress

UnderWay == {a \in Author : authoring[a] # NoRequest}

(* "A published or archived course's structure cannot be edited": it can,  *)
(* by the requests that read the draft before the UPDATE and write after   *)
(* it, a lesson, a module or a second publication over the first one's     *)
(* checksum, and by no other: fewer of them than requests at a time.       *)
LateWritesBounded == late <= Cardinality(Author) - 1

===============================================================================
