----------------------------- MODULE CandidatesDesk -----------------------------
(***************************************************************************)
(* The office's page of candidates (apps/web CandidatesPage) against the   *)
(* routes of org/hiring.ts: it searches, adds one candidate or a file of   *)
(* them, and invites one.  An invitation's answer carries the candidate's  *)
(* access token, which the page shows once.  Each window can be closed     *)
(* while what it sent is on its way; the answer finds the page, not the    *)
(* window.                                                                 *)
(***************************************************************************)

CONSTANTS
  Person,   \* the e-mail addresses of candidates
  Sheet,    \* the CSV files at hand, each a set of persons
  NoOne     \* neither a person nor a file

ASSUME CandidatesDeskAssumption ==
  /\ NoOne \notin Person \cup Sheet
  /\ Sheet \subseteq SUBSET Person

VARIABLES
  people,      \* candidates.status, "absent" before the row
  roster,      \* person -> the status the list shows, "absent" when it does not
  inviteFor,   \* whose invitation window is open
  inviting,    \* invitations on their way: for whom, and whether the window
               \* that asked is still the one that is open
  invited,     \* whose token the page holds
  strayed,     \* history: that token came for a window already closed
  sheet,       \* the file chosen in the import window
  importing,   \* files on their way, and whether that window is still open
  report,      \* the import's report
  rechosen     \* history: a file was chosen while another was on its way

deskvars == <<people, roster, inviteFor, inviting, invited, strayed,
              sheet, importing, report, rechosen>>
inviteWindow == <<inviteFor, inviting, invited, strayed>>
importWindow == <<sheet, importing, report, rechosen>>

Status == {"absent", "created", "invited"}
Report == [created : SUBSET Person, skipped : SUBSET Person]

CandidatesDeskTypeOK ==
  /\ people \in [Person -> Status]
  /\ roster \in [Person -> Status]
  /\ inviteFor \in Person \cup {NoOne} /\ invited \in Person \cup {NoOne}
  /\ inviting \subseteq Person \X BOOLEAN
  /\ strayed \in BOOLEAN /\ rechosen \in BOOLEAN
  /\ sheet \subseteq Sheet /\ \A s, t \in sheet : s = t
  /\ importing \subseteq Sheet \X BOOLEAN
  /\ report \subseteq Report

CandidatesDeskInit ==
  /\ people = [p \in Person |-> "absent"] /\ roster = people
  /\ inviteFor = NoOne /\ inviting = {} /\ invited = NoOne /\ strayed = FALSE
  /\ sheet = {} /\ importing = {} /\ report = {} /\ rechosen = FALSE

-------------------------------------------------------------------------------
(* The list: what one search finds, at some moment since it was asked for. *)

ListCandidates ==
  /\ \E found \in SUBSET Person :
       roster' = [p \in Person |-> IF p \in found THEN people[p] ELSE "absent"]
  /\ UNCHANGED <<people, inviteWindow, importWindow>>

-------------------------------------------------------------------------------
(* One candidate. *)

(* The form has one request at a time and keeps nothing of it: a row for   *)
(* the address is there already, and the answer is 409; or the row is      *)
(* inserted, and the answer may be lost.                                   *)
AddCandidate(p) ==
  /\ people' = [people EXCEPT ![p] = IF @ = "absent" THEN "created" ELSE @]
  /\ UNCHANGED <<roster, inviteWindow, importWindow>>

-------------------------------------------------------------------------------
(* A file of candidates. *)

AwaitsReport == \E i \in importing : i[2]

(* A file may be chosen at any time while no report is shown.              *)
ChooseSheet(s) ==
  /\ report = {} /\ sheet # {s}
  /\ sheet' = {s} /\ rechosen' = (rechosen \/ AwaitsReport)
  /\ UNCHANGED <<people, roster, inviteWindow, importing, report>>

ImportSheet ==
  /\ sheet # {} /\ ~AwaitsReport /\ report = {}
  /\ importing' = importing \cup {<<s, TRUE>> : s \in sheet} /\ rechosen' = FALSE
  /\ UNCHANGED <<people, roster, inviteWindow, sheet, report>>

(* All the rows are stored, or skipped where the address has one, in one   *)
(* transaction.                                                            *)
Imported(s) == [p \in Person |-> IF p \in s /\ people[p] = "absent" THEN "created" ELSE people[p]]

Partition(s) == [created |-> {p \in s : people[p] = "absent"},
                 skipped |-> {p \in s : people[p] # "absent"}]

(* Rolled back, or stored with the answer lost: "Import failed.", and the  *)
(* file may be sent again.                                                 *)
ImportFails(i) ==
  /\ i \in importing /\ importing' = importing \ {i}
  /\ people' = people \/ people' = Imported(i[1])
  /\ UNCHANGED <<roster, inviteWindow, sheet, report, rechosen>>

(* Wrong on purpose: the rows are counted before they are stored.          *)
ImportReportedFirst(i) ==
  /\ i \in importing /\ importing' = importing \ {i}
  /\ people' = people \/ people' = Imported(i[1])
  /\ report' = IF i[2] THEN {Partition(i[1])} ELSE report
  /\ UNCHANGED <<roster, inviteWindow, sheet, rechosen>>

ImportDone(i) ==
  /\ i \in importing /\ importing' = importing \ {i}
  /\ people' = Imported(i[1])
  /\ report' = IF i[2] THEN {Partition(i[1])} ELSE report
  /\ UNCHANGED <<roster, inviteWindow, sheet, rechosen>>

(* Closing forgets the file and the report, and asks for the list again.   *)
CloseImport ==
  /\ sheet' = {} /\ report' = {} /\ rechosen' = FALSE
  /\ importing' = {<<i[1], FALSE>> : i \in importing}
  /\ UNCHANGED <<people, roster, inviteWindow>>

-------------------------------------------------------------------------------
(* An invitation. *)

(* The rows whose button is not disabled.  Rows of erased and withdrawn    *)
(* candidates, the others, are left out: they are invited no more.         *)
Invitable == {"created", "invited"}

OpenInvite(p) ==
  /\ inviteFor = NoOne /\ roster[p] \in Invitable
  /\ inviteFor' = p
  /\ UNCHANGED <<people, roster, inviting, invited, strayed, importWindow>>

(* The form gives way to the token once the page holds one.                *)
PostInvite ==
  /\ inviteFor # NoOne /\ invited = NoOne
  /\ \A a \in inviting : ~a[2]
  /\ inviting' = inviting \cup {<<inviteFor, TRUE>>}
  /\ UNCHANGED <<people, roster, inviteFor, invited, strayed, importWindow>>

(* The route asks that the candidate's row is there, not for its status;   *)
(* the page keeps the token whatever window is open by now.                *)
InviteAnswered(a) ==
  /\ a \in inviting /\ inviting' = inviting \ {a}
  /\ people' = [people EXCEPT ![a[1]] = IF @ = "created" THEN "invited" ELSE @]
  /\ invited' = a[1] /\ strayed' = ~a[2]
  /\ UNCHANGED <<roster, inviteFor, importWindow>>

(* Refused (the plan's limit), or issued with the answer lost: nobody ever *)
(* sees that token.                                                        *)
InviteUnanswered(a) ==
  /\ a \in inviting /\ inviting' = inviting \ {a}
  /\ \/ people' = people
     \/ people' = [people EXCEPT ![a[1]] = IF @ = "created" THEN "invited" ELSE @]
  /\ UNCHANGED <<roster, inviteFor, invited, strayed, importWindow>>

(* Wrong on purpose: the window goes and the token stays on the page.      *)
CloseInviteOnly ==
  /\ inviteFor # NoOne /\ inviteFor' = NoOne
  /\ inviting' = {<<a[1], FALSE>> : a \in inviting}
  /\ UNCHANGED <<people, roster, invited, strayed, importWindow>>

CloseInvite ==
  /\ inviteFor # NoOne /\ inviteFor' = NoOne
  /\ inviting' = {<<a[1], FALSE>> : a \in inviting}
  /\ invited' = NoOne /\ strayed' = FALSE
  /\ UNCHANGED <<people, roster, importWindow>>

CandidatesDeskNext ==
  \/ ListCandidates \/ ImportSheet \/ CloseImport \/ PostInvite \/ CloseInvite
  \/ \E p \in Person :
       AddCandidate(p) \/ OpenInvite(p)
  \/ \E s \in Sheet : ChooseSheet(s)
  \/ \E i \in importing : ImportFails(i) \/ ImportDone(i)
  \/ \E a \in inviting : InviteAnswered(a) \/ InviteUnanswered(a)

CandidatesDeskSpec == CandidatesDeskInit /\ [][CandidatesDeskNext]_deskvars

-------------------------------------------------------------------------------
(* Properties. *)

(* The token under "Invite <name>" opens that candidate's assessment and   *)
(* nobody else's, unless it is the late answer to a window that was closed *)
(* while it asked: the page does not look whom an answer is for            *)
(* (CandidatesPage.tsx:173-183, :209-226).                                 *)
TokenUnderOwnName ==
  inviteFor # NoOne /\ invited # NoOne => invited = inviteFor \/ strayed

(* Every row of the file a report is read beside has its candidate, unless *)
(* the file was changed while another was on its way: the report does not  *)
(* name its file (CandidatesPage.tsx:332-359).                             *)
ReportedMeansStored ==
  \A s \in sheet, r \in report :
    ~rechosen => /\ s = r.created \cup r.skipped
                 /\ \A p \in s : people[p] # "absent"

===============================================================================
