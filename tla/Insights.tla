------------------------------- MODULE Insights -------------------------------
(***************************************************************************)
(* Workforce intelligence (org/intelligence.ts) and the proposals drawn    *)
(* from it (org/workflow-insights.ts).  Employees report pain points once  *)
(* the organisation has opted in; administrators read aggregates no cohort *)
(* below a floor is part of, have proposals generated, and decide them.    *)
(* Every request of an administrator reads in one statement and writes in  *)
(* another, with no lock between.                                          *)
(***************************************************************************)
EXTENDS Naturals, FiniteSets, Functions

CONSTANTS
  Admin,                \* administrators, each with one request at a time
  Employee,             \* those who report
  Theme,                \* categories of pain points
  Course,               \* published courses
  Proposal,             \* identities of proposals
  MIN_COHORT_FOR_CELL,  \* the floor (8)
  MaxCohort             \* bound on reports and on enrolments

ASSUME InsightsAssumption ==
  /\ MIN_COHORT_FOR_CELL \in Nat /\ MaxCohort \in Nat
  /\ Theme \cap Course = {}
  /\ IsFiniteSet(Admin)

VARIABLES
  enabled,    \* org_intelligence_settings.enabled
  voice,      \* employee -> past the opt-in check of a report
  reports,    \* theme -> its pain_point_reports
  enrolled,   \* course -> its enrolments
  completed,  \* course -> those completed
  about,      \* proposal -> source_key, if it exists
  decision,   \* proposal -> its status
  deed        \* administrator -> the request it has begun

figures == <<enabled, voice, reports, enrolled, completed>>
insightvars == <<figures, about, decision, deed>>

Signal == Theme \cup Course

(* A request: to generate, with the source keys it found open; or to       *)
(* decide a proposal it found undecided.                                   *)
Generating(open) == [kind |-> "generate", open |-> open]
Deciding(p, d) == [kind |-> "decide", proposal |-> p, to |-> d]
Idle == [kind |-> "none"]

Deed ==
  {Idle} \cup {Generating(open) : open \in SUBSET Signal}
         \cup {Deciding(p, d) : p \in Proposal, d \in {"approved", "dismissed"}}

InsightsTypeOK ==
  /\ enabled \in BOOLEAN
  /\ voice \in [Employee -> BOOLEAN]
  /\ reports \in [Theme -> Nat]
  /\ enrolled \in [Course -> Nat] /\ completed \in [Course -> Nat]
  /\ about \in [Proposal -> SUBSET Signal]
  /\ decision \in [Proposal -> {"none", "proposed", "approved", "dismissed"}]
  /\ deed \in [Admin -> Deed]

InsightsInit ==
  /\ enabled = FALSE
  /\ voice = [e \in Employee |-> FALSE]
  /\ reports = [k \in Theme |-> 0]
  /\ enrolled = [c \in Course |-> 0] /\ completed = [c \in Course |-> 0]
  /\ about = [p \in Proposal |-> {}]
  /\ decision = [p \in Proposal |-> "none"]
  /\ deed = [a \in Admin |-> Idle]

-------------------------------------------------------------------------------
(* The opt-in, and what is counted. *)

(* Enabling takes a fresh acknowledgement; disabling erases no report. *)
UpdateSettings ==
  /\ enabled' = ~enabled
  /\ UNCHANGED <<voice, reports, enrolled, completed, about, decision, deed>>

(* requireIntelligenceEnabled: a transaction of its own, before the        *)
(* handler's.                                                              *)
RequireIntelligenceEnabled(e) ==
  /\ enabled /\ ~voice[e]
  /\ voice' = [voice EXCEPT ![e] = TRUE]
  /\ UNCHANGED <<enabled, reports, enrolled, completed, about, decision, deed>>

SubmitPainPoint(e, k) ==
  /\ voice[e] /\ reports[k] < MaxCohort
  /\ voice' = [voice EXCEPT ![e] = FALSE]
  /\ reports' = [reports EXCEPT ![k] = @ + 1]
  /\ UNCHANGED <<enabled, enrolled, completed, about, decision, deed>>

(* Learning's enrolments of a published course, as its handlers make them. *)
Enrol(c) ==
  /\ enrolled[c] < MaxCohort
  /\ enrolled' = [enrolled EXCEPT ![c] = @ + 1]
  /\ UNCHANGED <<enabled, voice, reports, completed, about, decision, deed>>

Complete(c) ==
  /\ completed[c] < enrolled[c]
  /\ completed' = [completed EXCEPT ![c] = @ + 1]
  /\ UNCHANGED <<enabled, voice, reports, enrolled, about, decision, deed>>

-------------------------------------------------------------------------------
(* The aggregates: a figure is suppressed below the floor. *)

Unsuppressed(n) == n >= MIN_COHORT_FOR_CELL

ThemesShown == {k \in Theme : Unsuppressed(reports[k])}

SkillsGap == {c \in Course : Unsuppressed(enrolled[c]) /\ 2 * completed[c] < enrolled[c]}

(* What generate has something to say about: the same two aggregates, with *)
(* a floor of its own, and whether or not the organisation has opted in.   *)
Signalled == ThemesShown \cup SkillsGap

-------------------------------------------------------------------------------
(* Proposals. *)

Unused == {p \in Proposal : decision[p] = "none"}
OpenOn(s) == {p \in Proposal : decision[p] \in {"proposed", "approved"} /\ s \in about[p]}
OpenKeys == {s \in Signal : OpenOn(s) # {}}

GenerateRead(a) ==
  /\ deed[a] = Idle
  /\ deed' = [deed EXCEPT ![a] = Generating(OpenKeys)]
  /\ UNCHANGED <<figures, about, decision>>

Propose(fresh) ==
  /\ \E id \in Injection(fresh, Unused) :
       /\ about' = [p \in Proposal |-> about[p] \cup {s \in fresh : id[s] = p}]
       /\ decision' = [p \in Proposal |->
                         IF \E s \in fresh : id[s] = p THEN "proposed" ELSE decision[p]]
  /\ UNCHANGED figures

(* Wrong on purpose: every signal is proposed, open or not. *)
GenerateAgain(a) ==
  /\ deed[a].kind = "generate"
  /\ deed' = [deed EXCEPT ![a] = Idle]
  /\ Propose(Signalled)

(* One proposal for each signal not among the keys found open. *)
Generate(a) ==
  /\ deed[a].kind = "generate"
  /\ deed' = [deed EXCEPT ![a] = Idle]
  /\ Propose(Signalled \ deed[a].open)

DecideRead(a, p, d) ==
  /\ deed[a] = Idle /\ decision[p] = "proposed"
  /\ deed' = [deed EXCEPT ![a] = Deciding(p, d)]
  /\ UNCHANGED <<figures, about, decision>>

(* The update does not ask again whether it is still undecided. *)
Decide(a) ==
  /\ deed[a].kind = "decide"
  /\ decision' = [decision EXCEPT ![deed[a].proposal] = deed[a].to]
  /\ deed' = [deed EXCEPT ![a] = Idle]
  /\ UNCHANGED <<figures, about>>

InsightsNext ==
  \/ UpdateSettings
  \/ \E e \in Employee : RequireIntelligenceEnabled(e)
  \/ \E e \in Employee, k \in Theme : SubmitPainPoint(e, k)
  \/ \E c \in Course : Enrol(c) \/ Complete(c)
  \/ \E a \in Admin : GenerateRead(a) \/ Generate(a) \/ Decide(a)
  \/ \E a \in Admin, p \in Proposal, d \in {"approved", "dismissed"} : DecideRead(a, p, d)

InsightsSpec == InsightsInit /\ [][InsightsNext]_insightvars

-------------------------------------------------------------------------------
(* Properties. *)

(* Repeated runs do not spam: however the generations race, and however a  *)
(* late approval revives what was dismissed and proposed again, a signal   *)
(* has at most as many open proposals as administrators act at once.       *)
OpenProposalsBounded == \A s \in Signal : Cardinality(OpenOn(s)) <= Cardinality(Admin)

===============================================================================
