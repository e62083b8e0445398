---------------------------- MODULE RecordsPagesProofs ----------------------------
(***************************************************************************)
(* Theorems about the pages that keep a state of their own beside an       *)
(* organisation's records: the V1 candidate's around his workspace, the    *)
(* authors', the office's.  They are stated of the specification that runs *)
(* these pages and the records side by side, each page's part being a lemma*)
(* about its own module.                                                   *)
(***************************************************************************)
EXTENDS MCRecords, FiniteSetTheorems, TLAPS

-------------------------------------------------------------------------------
(* The V1 candidate's setup. *)

(* Nothing leads past the preflight but a save that was sent with every    *)
(* check shown, and nothing past the disclosure but its ticked box.        *)
SetupIInv ==
  /\ (\E p \in puts : p.completed) => prepared = SetupCheck
  /\ stageShown # "preflight" => prepared = SetupCheck
  /\ stageShown \in {"assessment", "review", "submitted"} => boxed
  /\ chain # "no" => prepared = SetupCheck /\ boxed
  /\ portal = "submitted" => chain = "no"
  /\ BegunPrepared /\ ReceiptShownTruly

LEMMA SetupInitial == ASSUME SetupPageInit PROVE SetupIInv
  BY DEF SetupPageInit, SetupIInv, BegunPrepared, ReceiptShownTruly

(* What a page asks for does to the session, answered or not.              *)
LEMMA RequestServed ==
  ASSUME NEW wanted, Serves(wanted)
  PROVE  /\ standing' # "none" => wanted # "no" \/ standing # "none"
         /\ wanted = "submit" => standing' = "submitted"
  BY DEF Serves, Event, SessionTransition

LEMMA ElsewhereMoves ==
  ASSUME MovesElsewhere PROVE standing # "none" /\ standing # "submitted"
  BY DEF MovesElsewhere, SessionTransition, Standing, Unsubmitted

LEMMA SetupStep == ASSUME SetupIInv, [SetupPageNext]_setupvars PROVE SetupIInv'
<1>. USE DEF SetupIInv, BegunPrepared, ReceiptShownTruly, setupserver, preflight, begun
<1>1. CASE InvitationAnswered \/ Retry \/ LinkExpires
  BY <1>1 DEF InvitationAnswered, Retry, LinkExpires
<1>2. CASE MovesElsewhere
  BY <1>2, ElsewhereMoves DEF MovesElsewhere
<1>3. CASE OpenAgain
  <2>1. standing' # "none" => prepared = SetupCheck /\ boxed
    BY <1>3, RequestServed DEF OpenAgain
  <2>2. /\ puts' = {} /\ stageShown' = "preflight" /\ chain' = "no" /\ portal' = "loading"
        /\ UNCHANGED <<prepared, boxed>>
    BY <1>3 DEF OpenAgain
  <2>. QED BY <2>1, <2>2
<1>4. CASE AskPreflight \/ PreflightAnswered \/ WritePractice
  BY <1>4 DEF AskPreflight, PreflightAnswered, WritePractice
<1>5. ASSUME puts' = puts \cup {[checks |-> done', completed |-> FALSE]},
             UNCHANGED <<setupserver, portal, stageShown, prepared, begun>>
      PROVE  SetupIInv'
  BY <1>5
<1>6. CASE LeavePractice \/ \E k \in SetupCheck : PassCheck(k)
  BY <1>5, <1>6 DEF LeavePractice, PassCheck, PutPreflight
<1>7. CASE StartSetup
  <2>1. prepared' = SetupCheck
        /\ UNCHANGED <<setupserver, portal, stageShown, begun>>
    BY <1>7 DEF StartSetup
  <2>. QED BY <2>1
<1>8. ASSUME NEW p \in puts, PreflightSaved(p) PROVE SetupIInv'
  <2>1. /\ puts' \subseteq puts
        /\ p.completed => prepared = SetupCheck
        /\ stageShown' = IF p.completed THEN "welcome" ELSE stageShown
        /\ UNCHANGED <<standing, portal, prepared, begun>>
    BY <1>8 DEF PreflightSaved, SaveServed
  <2>. QED BY <2>1
<1>9. CASE Navigate \/ TickBox
  BY <1>9 DEF Navigate, Go, OnStage, TickBox
<1>10. CASE BeginAssessment
  <2>1. boxed'
    BY <1>10, Zenon DEF BeginAssessment
  <2>2. /\ stageShown = "disclosure" /\ portal = "welcome"
        /\ UNCHANGED <<setupserver, portal, preflight>>
        /\ stageShown' \in {"disclosure", "assessment"}
    BY <1>10 DEF BeginAssessment, OnStage
  <2>. QED BY <2>1, <2>2
<1>11. CASE ChainAnswered
  <2>1. /\ chain # "no" /\ Serves(chain) /\ UNCHANGED <<preflight, boxed>>
        /\ stageShown' # "preflight" \/ stageShown' = stageShown
        /\ portal' = IF chain = "submit" THEN "submitted" ELSE portal
        /\ chain = "submit" => chain' = "no"
    BY <1>11 DEF ChainAnswered, After
  <2>. QED BY <2>1, RequestServed
<1>12. CASE ChainFails
  <2>1. chain # "no" /\ chain' = "no" /\ portal' = "error" /\ UNCHANGED <<stageShown, preflight, boxed>>
    BY <1>12 DEF ChainFails
  <2>. QED BY <2>1
<1>13. CASE HandleSubmission \/ WithdrawSubmission
  BY <1>13 DEF HandleSubmission, WithdrawSubmission, OnStage
<1>14. CASE UNCHANGED setupvars
  BY <1>14 DEF setupvars
<1>. QED
  BY <1>1, <1>2, <1>3, <1>4, <1>6, <1>7, <1>8, <1>9, <1>10, <1>11, <1>12, <1>13, <1>14
  DEF SetupPageNext

(* The V1 candidate's page begins what was prepared for and informed of,   *)
(* and shows a receipt of what was submitted                               *)
(* (admin-web/src/pages/CandidatePortalPage.tsx).                          *)
THEOREM SetupTold == RecordsSpec => []SetupToldTruly
<1>1. RecordsInit => SetupIInv
  BY SetupInitial DEF RecordsInit
<1>2. SetupIInv /\ [RecordsNext]_records => SetupIInv'
  <2>1. [RecordsNext]_records => [SetupPageNext]_setupvars
    BY DEF RecordsNext, records
  <2>. QED BY <2>1, SetupStep
<1>3. SetupIInv => SetupToldTruly
  BY DEF SetupIInv, SetupToldTruly
<1>. QED BY <1>1, <1>2, <1>3, PTL DEF RecordsSpec

-------------------------------------------------------------------------------
(* The candidate's files and sources. *)

(* An answer the page waits for is the selected item's; a file whose       *)
(* completion is on its way has not been removed, since only a listed file *)
(* is, and a new upload takes a new row.                                   *)
ActivityIInv ==
  /\ turn \in {0, 1} /\ filed \in [FileId -> FileStatus]
  /\ transfer \in [FileId -> {"no", "initiate", "complete", "remove"}]
  /\ takenOff \subseteq FileId /\ fetching \subseteq PackItem \X {0, 1}
  /\ \A r \in fetching : r[2] = turn => r[1] \in selected
  /\ \A f \in FileId : /\ transfer[f] = "initiate" => filed[f] = "absent"
                       /\ transfer[f] = "complete" => filed[f] = "initiated"
  /\ DetailIsSelected /\ TakenOffStaysOut

LEMMA ActivityInitial == ASSUME ActivityPageInit PROVE ActivityIInv
  BY DEF ActivityPageInit, ActivityIInv, DetailIsSelected, TakenOffStaysOut, FileStatus

LEMMA ActivityStep == ASSUME ActivityIInv, [ActivityPageNext]_activityvars PROVE ActivityIInv'
<1>. USE DEF ActivityIInv, DetailIsSelected, TakenOffStaysOut, packvars, filevars, FileStatus
<1>1. CASE FreezeFiles
  BY <1>1 DEF FreezeFiles
<1>2. CASE HearTimeline \/ ReopenActivity
  BY <1>2 DEF HearTimeline, ReopenActivity
<1>3. ASSUME NEW i \in PackItem, SelectItem(i) PROVE ActivityIInv'
  BY <1>3 DEF SelectItem
<1>4. ASSUME NEW i \in PackItem, NEW a \in BOOLEAN, Became(i, a) PROVE ActivityIInv'
  BY <1>4 DEF Became
<1>5. ASSUME NEW r \in fetching, ItemAnswered(r) PROVE ActivityIInv'
  BY <1>5 DEF ItemAnswered, CurrentAnswer
<1>6. ASSUME NEW f \in FileId, UploadArtifact(f) PROVE ActivityIInv'
  BY <1>6 DEF UploadArtifact
<1>7. ASSUME NEW f \in FileId, Initiated(f) PROVE ActivityIInv'
  BY <1>7 DEF Initiated
<1>8. ASSUME NEW f \in FileId, Completed(f) PROVE ActivityIInv'
  BY <1>8 DEF Completed
<1>9. ASSUME NEW f \in FileId, RemoveArtifact(f) PROVE ActivityIInv'
  BY <1>9 DEF RemoveArtifact
<1>10. ASSUME NEW f \in FileId, Removed(f) PROVE ActivityIInv'
  BY <1>10 DEF Removed
<1>11. ASSUME NEW e \in Happening, EditAnnotation(e) \/ SaveAnnotation(e) PROVE ActivityIInv'
  BY <1>11 DEF EditAnnotation, SaveAnnotation
<1>12. CASE UNCHANGED activityvars
  BY <1>12 DEF activityvars
<1>. QED
  BY <1>1, <1>2, <1>3, <1>4, <1>5, <1>6, <1>7, <1>8, <1>9, <1>10, <1>11, <1>12
  DEF ActivityPageNext

-------------------------------------------------------------------------------
(* The office's candidates. *)

(* A request of the window that is open is about the person it names, and  *)
(* one of the file chosen about that file.                                 *)
DeskIInv ==
  /\ people \in [Person -> Status] /\ inviteFor \in Person \cup {NoOne}
  /\ inviting \subseteq Person \X BOOLEAN /\ importing \subseteq Sheet \X BOOLEAN
  /\ sheet \subseteq Sheet /\ \A s, t \in sheet : s = t
  /\ \A a \in inviting : a[2] => inviteFor = a[1]
  /\ invited # NoOne /\ ~strayed => invited = inviteFor
  /\ \A i \in importing : i[2] /\ ~rechosen => sheet \subseteq {i[1]}
  /\ ReportedMeansStored

LEMMA DeskInitial == ASSUME CandidatesDeskInit PROVE DeskIInv
  BY DEF CandidatesDeskInit, DeskIInv, ReportedMeansStored, Status

(* Closing a window leaves none of its requests marked; sending one marks  *)
(* that one.                                                               *)
LEMMA Lowered ==
  ASSUME NEW S, NEW I, I \subseteq S \X BOOLEAN, NEW J, J = {<<i[1], FALSE>> : i \in I}
  PROVE  J \subseteq S \X BOOLEAN /\ \A j \in J : ~j[2]
<1>1. \A i \in I : <<i[1], FALSE>> \in S \X BOOLEAN
  OBVIOUS
<1>2. \A s : ~<<s, FALSE>>[2]
  OBVIOUS
<1>. QED BY <1>1, <1>2, Zenon

LEMMA Raised ==
  ASSUME NEW S, NEW I, I \subseteq S \X BOOLEAN, NEW T, T \subseteq S,
         NEW J, J = I \cup {<<s, TRUE>> : s \in T}
  PROVE  J \subseteq S \X BOOLEAN /\ \A j \in J : j \in I \/ j[1] \in T
<1>1. \A s \in T : <<s, TRUE>> \in S \X BOOLEAN /\ <<s, TRUE>>[1] = s
  OBVIOUS
<1>. QED BY <1>1, Zenon

(* No step of the page or of its routes takes a candidate's row away.      *)
LEMMA StillThere ==
  ASSUME DeskIInv, people' \in [Person -> Status],
         \A p \in Person : people[p] # "absent" => people'[p] # "absent",
         sheet' = sheet, report' = report, rechosen' = rechosen
  PROVE  ReportedMeansStored'
  BY CandidatesDeskAssumption DEF DeskIInv, ReportedMeansStored

LEMMA DeskStep == ASSUME DeskIInv, [CandidatesDeskNext]_deskvars PROVE DeskIInv'
<1>. USE CandidatesDeskAssumption DEF DeskIInv, inviteWindow, importWindow, Status
<1>1. ASSUME NEW p \in Person, AddCandidate(p) PROVE DeskIInv'
  BY <1>1, StillThere DEF AddCandidate
<1>2. CASE ListCandidates
  BY <1>2, StillThere DEF ListCandidates
<1>3. ASSUME NEW s \in Sheet, ChooseSheet(s) PROVE DeskIInv'
  BY <1>3 DEF ChooseSheet, AwaitsReport, ReportedMeansStored
<1>4. CASE ImportSheet
  <2>1. /\ report = {} /\ \A i \in importing : ~i[2]
        /\ UNCHANGED <<people, inviteWindow, sheet, report>>
    BY <1>4 DEF ImportSheet, AwaitsReport
  <2>2. /\ importing' \subseteq Sheet \X BOOLEAN
        /\ \A i \in importing' : i \in importing \/ i[1] \in sheet
    <3>1. importing' = importing \cup {<<s, TRUE>> : s \in sheet}
      BY <1>4 DEF ImportSheet
    <3>2. importing \subseteq Sheet \X BOOLEAN /\ sheet \subseteq Sheet
      OBVIOUS
    <3>. HIDE DEF DeskIInv
    <3>3. \A J : J = importing \cup {<<s, TRUE>> : s \in sheet} =>
            J \subseteq Sheet \X BOOLEAN /\ \A i \in J : i \in importing \/ i[1] \in sheet
      BY <3>2, Raised
    <3>. QED BY <3>1, <3>3, Zenon
  <2>3. \A i \in importing' : i[2] => sheet \subseteq {i[1]}
    BY <2>1, <2>2
  <2>. QED BY <2>1, <2>2, <2>3 DEF ReportedMeansStored
<1>5. ASSUME NEW i \in importing, ImportFails(i) PROVE DeskIInv'
  BY <1>5, StillThere DEF ImportFails, Imported
<1>6. ASSUME NEW i \in importing, ImportDone(i) PROVE DeskIInv'
  <2>1. /\ people' \in [Person -> Status]
        /\ \A p \in Person : people[p] # "absent" \/ p \in i[1] => people'[p] # "absent"
    BY <1>6 DEF ImportDone, Imported
  <2>2. CASE ~i[2]
    BY <1>6, <2>1, <2>2, StillThere DEF ImportDone
  <2>3. CASE i[2]
    <3>1. i[1] = Partition(i[1]).created \cup Partition(i[1]).skipped
      BY DEF Partition
    <3>2. ReportedMeansStored'
      BY <1>6, <2>1, <2>3, <3>1 DEF ImportDone, ReportedMeansStored
    <3>. QED BY <1>6, <2>1, <3>2 DEF ImportDone
  <2>. QED BY <2>2, <2>3
<1>7. CASE CloseImport
  <2>1. importing' \subseteq Sheet \X BOOLEAN /\ \A i \in importing' : ~i[2]
    BY <1>7, Lowered DEF CloseImport
  <2>. QED BY <1>7, <2>1 DEF CloseImport, ReportedMeansStored
<1>8. ASSUME NEW p \in Person, OpenInvite(p) PROVE DeskIInv'
  BY <1>8, StillThere DEF OpenInvite
<1>9. CASE PostInvite
  <2>1. /\ inviteFor \in Person
        /\ UNCHANGED <<people, inviteFor, invited, strayed, importWindow>>
    BY <1>9 DEF PostInvite
  <2>2. inviting' = inviting \cup {<<inviteFor, TRUE>>}
    BY <1>9 DEF PostInvite
  <2>3. /\ inviting' \subseteq Person \X BOOLEAN
        /\ \A a \in inviting' : a \in inviting \/ a[1] = inviteFor
    <3>1. <<inviteFor, TRUE>> \in Person \X BOOLEAN /\ <<inviteFor, TRUE>>[1] = inviteFor
      BY <2>1
    <3>. QED BY <2>2, <3>1, Zenon
  <2>. QED BY <2>1, <2>3, StillThere
<1>10. ASSUME NEW a \in inviting, InviteAnswered(a) PROVE DeskIInv'
  BY <1>10, StillThere DEF InviteAnswered
<1>11. ASSUME NEW a \in inviting, InviteUnanswered(a) PROVE DeskIInv'
  BY <1>11, StillThere DEF InviteUnanswered
<1>12. CASE CloseInvite
  <2>1. inviting' \subseteq Person \X BOOLEAN /\ \A a \in inviting' : ~a[2]
    BY <1>12, Lowered DEF CloseInvite
  <2>. QED BY <1>12, <2>1, StillThere DEF CloseInvite
<1>13. CASE UNCHANGED deskvars
  BY <1>13, StillThere DEF deskvars
<1>. QED
  BY <1>1, <1>2, <1>3, <1>4, <1>5, <1>6, <1>7, <1>8, <1>9, <1>10, <1>11, <1>12, <1>13
  DEF CandidatesDeskNext

-------------------------------------------------------------------------------
(* The authors' lists. *)

(* A length shown and a position posted are at most the list's: lists only *)
(* grow.  A position that is free is then the next.                        *)
BuilderIInv ==
  /\ entries \in [Listing -> SUBSET (Nat \X Builder)]
  /\ shownLength \in [Builder -> SUBSET [Listing -> Nat]]
  /\ posted \in [Builder -> SUBSET (Listing \X Nat)]
  /\ \A l \in Listing : IsFiniteSet(entries[l])
  /\ \A b \in Builder, l \in Listing :
       /\ \A n \in shownLength[b] : n[l] <= Cardinality(entries[l])
       /\ \A e \in posted[b] : e[1] = l => e[2] <= Cardinality(entries[l])
  /\ PositionsContiguous

LEMMA BuilderInitial == ASSUME BuilderPageInit PROVE BuilderIInv
<1>1. IsFiniteSet({}) /\ Cardinality({}) = 0
  BY FS_EmptySet
<1>2. {row[1] : row \in {}} = 0..(0 - 1)
  OBVIOUS
<1>. QED BY <1>1, <1>2 DEF BuilderPageInit, BuilderIInv, PositionsContiguous

(* What an insertion does to a list numbered without a gap.                *)
LEMMA Appended ==
  ASSUME NEW rows, rows \subseteq Nat \X Builder, IsFiniteSet(rows),
         {row[1] : row \in rows} = 0..(Cardinality(rows) - 1),
         \A r, s \in rows : r[1] = s[1] => r = s,
         NEW b \in Builder, NEW k \in Nat, k <= Cardinality(rows), \A row \in rows : row[1] # k,
         NEW longer, longer = rows \cup {<<k, b>>}
  PROVE  /\ longer \subseteq Nat \X Builder /\ IsFiniteSet(longer)
         /\ Cardinality(longer) = Cardinality(rows) + 1
         /\ {row[1] : row \in longer} = 0..(Cardinality(longer) - 1)
         /\ \A r, s \in longer : r[1] = s[1] => r = s
<1>1. <<k, b>> \notin rows /\ <<k, b>>[1] = k /\ <<k, b>> \in Nat \X Builder
  OBVIOUS
<1>2. Cardinality(rows) \in Nat
  BY FS_CardinalityType
<1>3. IsFiniteSet(longer) /\ Cardinality(longer) = Cardinality(rows) + 1
  BY <1>1, FS_AddElement
<1>4. k = Cardinality(rows)
  <2>1. k \notin 0..(Cardinality(rows) - 1)
    BY <1>1
  <2>. QED BY <1>2, <2>1
<1>5. {row[1] : row \in longer} = {row[1] : row \in rows} \cup {k}
  BY <1>1, Zenon
<1>6. 0..(Cardinality(rows) - 1) \cup {Cardinality(rows)} = 0..Cardinality(rows)
  BY <1>2
<1>7. {row[1] : row \in longer} = 0..(Cardinality(longer) - 1)
  BY <1>2, <1>3, <1>4, <1>5, <1>6
<1>8. \A r, s \in longer : r[1] = s[1] => r = s
  BY <1>1, Zenon
<1>. QED BY <1>1, <1>3, <1>7, <1>8

LEMMA BuilderStep == ASSUME BuilderIInv, [BuilderPageNext]_buildervars PROVE BuilderIInv'
<1>. USE DEF BuilderIInv
<1>0. \A l \in Listing : Cardinality(entries[l]) \in Nat
  BY FS_CardinalityType
<1>1. ASSUME NEW b \in Builder, LoadLists(b) PROVE BuilderIInv'
  BY <1>0, <1>1 DEF LoadLists, PositionsContiguous
<1>2. ASSUME NEW b \in Builder, ReopenLists(b) \/ PublishCourse(b) PROVE BuilderIInv'
  BY <1>0, <1>2 DEF ReopenLists, PublishCourse, PositionsContiguous
<1>3. ASSUME NEW b \in Builder, NEW l \in Listing, PostEntry(b, l) PROVE BuilderIInv'
  <2>1. PICK n \in shownLength[b] : posted' = [posted EXCEPT ![b] = @ \cup {<<l, n[l]>>}]
    BY <1>3 DEF PostEntry
  <2>2. n[l] \in Nat /\ n[l] <= Cardinality(entries[l])
    OBVIOUS
  <2>3. UNCHANGED <<entries, shownLength>>
    BY <1>3 DEF PostEntry
  <2>. QED BY <1>0, <2>1, <2>2, <2>3 DEF PositionsContiguous
<1>4. ASSUME NEW b \in Builder, NEW e \in posted[b], PostAnswered(b, e) PROVE BuilderIInv'
  <2>1. /\ posted' \in [Builder -> SUBSET (Listing \X Nat)]
        /\ \A c \in Builder : posted'[c] \subseteq posted[c]
    BY <1>4 DEF PostAnswered
  <2>2. /\ shownLength' \in [Builder -> SUBSET [Listing -> Nat]]
        /\ \A c \in Builder : shownLength'[c] \subseteq shownLength[c]
    BY <1>4 DEF PostAnswered
  <2>3. CASE UNCHANGED entries
    BY <1>0, <2>1, <2>2, <2>3 DEF PositionsContiguous
  <2>4. CASE Inserted(b, e)
    <3>. DEFINE l == e[1]  k == e[2]
    <3>1. l \in Listing /\ k \in Nat /\ k <= Cardinality(entries[l])
      OBVIOUS
    <3>2. \A row \in entries[l] : row[1] # k
      BY <2>4 DEF Inserted
    <3>3. entries' = [entries EXCEPT ![l] = entries[l] \cup {<<k, b>>}]
      BY <2>4 DEF Inserted
    <3>. HIDE DEF l, k
    <3>4. /\ entries'[l] = entries[l] \cup {<<k, b>>}
          /\ \A m \in Listing \ {l} : entries'[m] = entries[m]
      BY <3>1, <3>3
    <3>5. /\ entries'[l] \subseteq Nat \X Builder /\ IsFiniteSet(entries'[l])
          /\ Cardinality(entries'[l]) = Cardinality(entries[l]) + 1
          /\ {row[1] : row \in entries'[l]} = 0..(Cardinality(entries'[l]) - 1)
          /\ \A r, s \in entries'[l] : r[1] = s[1] => r = s
      <4>1. /\ entries[l] \subseteq Nat \X Builder /\ IsFiniteSet(entries[l])
            /\ {row[1] : row \in entries[l]} = 0..(Cardinality(entries[l]) - 1)
            /\ \A r, s \in entries[l] : r[1] = s[1] => r = s
        BY <3>1 DEF PositionsContiguous
      <4>. QED BY <3>1, <3>2, <3>4, <4>1, Appended
    <3>6. entries' \in [Listing -> SUBSET (Nat \X Builder)]
      BY <3>1, <3>3, <3>4, <3>5
    <3>7. \A m \in Listing : Cardinality(entries[m]) <= Cardinality(entries'[m])
      <4>1. Cardinality(entries[l]) <= Cardinality(entries'[l])
        BY <1>0, <3>1, <3>5
      <4>2. ASSUME NEW m \in Listing \ {l}
            PROVE  Cardinality(entries[m]) <= Cardinality(entries'[m])
        <5>1. entries'[m] = entries[m] /\ Cardinality(entries[m]) \in Nat
          BY <1>0, <3>4
        <5>. HIDE DEF BuilderIInv
        <5>. QED BY <5>1
      <4>. QED BY <4>1, <4>2
    <3>8. PositionsContiguous'
      BY <3>4, <3>5 DEF PositionsContiguous
    <3>9. \A m \in Listing : IsFiniteSet(entries'[m]) /\ Cardinality(entries'[m]) \in Nat
      BY <3>4, <3>5, FS_CardinalityType
    <3>. QED BY <1>0, <2>1, <2>2, <3>6, <3>7, <3>8, <3>9
  <2>. QED BY <1>4, <2>3, <2>4 DEF PostAnswered
<1>5. CASE UNCHANGED buildervars
  BY <1>5 DEF buildervars, PositionsContiguous
<1>. QED BY <1>1, <1>2, <1>3, <1>4, <1>5 DEF BuilderPageNext

-------------------------------------------------------------------------------
(* The reader of the log. *)

(* The entries above one are those that came after it, so their number     *)
(* only grows: what lies within some distance of the top never gains a     *)
(* member.                                                                 *)
Above(f, i) == {j \in Matching(f) : j > i}
Within(f, n) == {i \in walk : Cardinality(Above(f, i)) < n}
Current(s) == s.filter = sought /\ s.offset = offset

(* An orderly reader at some page has seen all that was there down to it,  *)
(* and, while the page after is asked for, down to where that begins.      *)
ExplorerIInv ==
  /\ trail \in Seq(Kind) /\ offset \in Nat /\ querying \subseteq [filter : Filter, offset : Nat]
  /\ sought \in Filter /\ walk \subseteq 1..Len(trail)
  /\ \A s \in shownPage : s.total \in Nat /\ \A t \in shownPage : s = t
  /\ orderly =>
       /\ walk \subseteq Matching(sought)
       /\ offset # 0 => /\ Within(sought, offset) \subseteq readSoFar
                        /\ \A q \in querying : q = [filter |-> sought, offset |-> offset]
       /\ \A s \in shownPage : Current(s) =>
            /\ Within(sought, offset + PageRows) \subseteq readSoFar
            /\ offset + PageRows >= s.total => walk \subseteq readSoFar

LEMMA ExplorerInitial == ASSUME AuditExplorerInit PROVE ExplorerIInv
  BY DEF AuditExplorerInit, ExplorerIInv, Within, Filter

LEMMA MatchingFinite ==
  ASSUME trail \in Seq(Kind), NEW f
  PROVE  /\ Matching(f) \subseteq 1..Len(trail)
         /\ IsFiniteSet(Matching(f)) /\ Cardinality(Matching(f)) \in Nat
         /\ \A i : Cardinality(Above(f, i)) \in Nat /\ IsFiniteSet(Above(f, i))
         /\ \A i \in Matching(f) : Cardinality(Above(f, i)) < Cardinality(Matching(f))
<1>1. Len(trail) \in Nat /\ DOMAIN trail = 1..Len(trail)
  OBVIOUS
<1>2. Matching(f) \subseteq 1..Len(trail)
  BY <1>1 DEF Matching
<1>3. IsFiniteSet(1..Len(trail))
  BY <1>1, FS_Interval
<1>4. IsFiniteSet(Matching(f)) /\ Cardinality(Matching(f)) \in Nat
  BY <1>2, <1>3, FS_Subset, FS_CardinalityType
<1>5. ASSUME NEW i PROVE Cardinality(Above(f, i)) \in Nat /\ IsFiniteSet(Above(f, i))
  <2>1. Above(f, i) \subseteq Matching(f)
    BY DEF Above
  <2>. QED BY <1>4, <2>1, FS_Subset, FS_CardinalityType
<1>6. ASSUME NEW i \in Matching(f)
      PROVE  Cardinality(Above(f, i)) < Cardinality(Matching(f))
  <2>1. i \in Nat
    BY <1>1, <1>2
  <2>2. Above(f, i) \subseteq Matching(f) /\ i \notin Above(f, i)
    BY <2>1 DEF Above
  <2>3. /\ Cardinality(Above(f, i)) <= Cardinality(Matching(f))
        /\ Cardinality(Above(f, i)) = Cardinality(Matching(f)) => Above(f, i) = Matching(f)
    BY <1>4, <2>2, FS_Subset
  <2>. QED BY <1>4, <1>5, <2>2, <2>3
<1>. QED BY <1>2, <1>4, <1>5, <1>6

(* Appending leaves what matched where it is and adds nothing below it.    *)
LEMMA AppendRaises ==
  ASSUME trail \in Seq(Kind), NEW k \in Kind, trail' = Append(trail, k), NEW f
  PROVE  /\ trail' \in Seq(Kind) /\ Len(trail') = Len(trail) + 1
         /\ Matching(f) \subseteq Matching(f)'
         /\ \A i : Cardinality(Above(f, i)') \in Nat
         /\ \A i : Cardinality(Above(f, i)) <= Cardinality(Above(f, i)')
<1>1. /\ trail' \in Seq(Kind) /\ Len(trail') = Len(trail) + 1
      /\ \A i \in DOMAIN trail : i \in DOMAIN trail' /\ trail'[i] = trail[i]
  OBVIOUS
<1>2. Matching(f) \subseteq Matching(f)'
  BY <1>1 DEF Matching
<1>3. ASSUME NEW i
      PROVE  /\ Cardinality(Above(f, i)') \in Nat
             /\ Cardinality(Above(f, i)) <= Cardinality(Above(f, i)')
  <2>1. Above(f, i) \subseteq Above(f, i)'
    BY <1>2 DEF Above
  <2>2. IsFiniteSet(Above(f, i)')
    <3>1. Len(trail') \in Nat /\ DOMAIN trail' = 1..Len(trail')
      BY <1>1
    <3>2. Above(f, i)' \subseteq 1..Len(trail')
      BY <3>1 DEF Above, Matching
    <3>3. IsFiniteSet(1..Len(trail'))
      BY <3>1, FS_Interval
    <3>. QED BY <3>2, <3>3, FS_Subset
  <2>. QED BY <2>1, <2>2, FS_Subset, FS_CardinalityType
<1>. QED BY <1>1, <1>2, <1>3

(* Entries below the ones a page shows are further down than the page.     *)
LEMMA PageReaches ==
  ASSUME ExplorerIInv, NEW q, NEW n \in Nat, q.offset \in Nat, n = q.offset + PageRows,
         NEW i \in Matching(q.filter), Cardinality(Above(q.filter, i)) < n,
         Cardinality(Above(q.filter, i)) >= q.offset
  PROVE  i \in RowsOf(q)
<1>1. Cardinality(Above(q.filter, i)) \in Nat
  BY MatchingFinite DEF ExplorerIInv
<1>2. Cardinality(Above(q.filter, i)) \in q.offset..(q.offset + PageRows - 1)
  BY <1>1, AuditExplorerAssumption
<1>. QED BY <1>2 DEF RowsOf, Above

LEMMA ExplorerStep == ASSUME ExplorerIInv, [AuditExplorerNext]_explorervars PROVE ExplorerIInv'
<1>. USE AuditExplorerAssumption
<1>0. /\ trail \in Seq(Kind) /\ offset \in Nat /\ sought \in Filter
      /\ \A f, i : Cardinality(Above(f, i)) \in Nat
      /\ \A f : Cardinality(Matching(f)) \in Nat /\ Matching(f) \subseteq 1..Len(trail)
      /\ \A f : \A i \in Matching(f) : Cardinality(Above(f, i)) < Cardinality(Matching(f))
  BY MatchingFinite DEF ExplorerIInv
<1>1. ASSUME UNCHANGED <<trail, walk, shownPage>>, offset' \in Nat, sought' \in Filter,
             querying' \subseteq querying \cup {[filter |-> sought', offset |-> offset']},
             orderly' = FALSE
      PROVE  ExplorerIInv'
  BY <1>1 DEF ExplorerIInv
<1>2. ASSUME NEW q \in querying, SearchFails(q) PROVE ExplorerIInv'
  BY <1>0, <1>1, <1>2 DEF SearchFails
<1>3. CASE ApplyFilters \/ PreviousPage \/ \E f \in Filter : TypeFilter(f)
  <2>1. 0 \in Nat /\ (offset > PageRows => offset - PageRows \in Nat)
    BY <1>0
  <2>2. offset' \in {0, offset, offset - PageRows} /\ (offset' = offset - PageRows => offset' \in Nat)
    BY <1>0, <1>3, <2>1 DEF ApplyFilters, PreviousPage, TypeFilter, Ask
  <2>3. /\ UNCHANGED <<trail, walk, shownPage>> /\ orderly' = FALSE
        /\ querying' = querying \cup {[filter |-> sought', offset |-> offset']}
        /\ sought' \in Filter
    BY <1>3 DEF ApplyFilters, PreviousPage, TypeFilter, Ask, ExplorerIInv
  <2>. QED BY <1>0, <1>1, <2>1, <2>2, <2>3
<1>4. CASE NextPage
  <2>1. /\ offset' = offset + PageRows /\ sought' = sought
        /\ UNCHANGED <<trail, walk, shownPage, readSoFar>>
        /\ querying' = querying \cup {[filter |-> sought, offset |-> offset + PageRows]}
        /\ orderly' => orderly /\ InStep
    BY <1>4 DEF NextPage, Ask
  <2>2. offset' \in Nat /\ offset' # offset
    BY <1>0, <2>1
  <2>3. CASE ~orderly'
    BY <1>1, <2>1, <2>2, <2>3 DEF ExplorerIInv
  <2>4. CASE orderly'
    <3>1. querying = {} /\ Within(sought, offset + PageRows) \subseteq readSoFar
      BY <2>1, <2>4 DEF InStep, ExplorerIInv, Current
    <3>2. /\ Within(sought, offset)' = Within(sought, offset + PageRows)
          /\ Matching(sought)' = Matching(sought)
      BY <2>1 DEF Within, Above, Matching
    <3>3. \A s \in shownPage : s.offset # offset'
      BY <2>1, <2>2, <2>4 DEF InStep, ExplorerIInv
    <3>4. \A s \in shownPage' : ~Current(s)'
      BY <2>1, <3>3 DEF Current
    <3>. QED BY <1>0, <2>1, <2>2, <2>4, <3>1, <3>2, <3>4 DEF ExplorerIInv
  <2>. QED BY <2>3, <2>4
<1>5. ASSUME NEW k \in Kind, AppendEntry(k) PROVE ExplorerIInv'
  <2>1. /\ trail' = Append(trail, k)
        /\ UNCHANGED <<sought, offset, querying, shownPage, walk, readSoFar, orderly>>
    BY <1>5 DEF AppendEntry
  <2>2. /\ trail' \in Seq(Kind) /\ Len(trail') = Len(trail) + 1
        /\ \A f : Matching(f) \subseteq Matching(f)'
        /\ \A f, i : Cardinality(Above(f, i)) <= Cardinality(Above(f, i)')
        /\ \A f, i : Cardinality(Above(f, i)') \in Nat
    BY <1>0, <2>1, AppendRaises
  <2>3. \A n \in Nat : Within(sought, n)' \subseteq Within(sought, n)
    BY <1>0, <2>1, <2>2 DEF Within
  <2>4. Matching(sought) \subseteq Matching(sought)' /\ walk \subseteq 1..Len(trail')
    BY <1>0, <2>1, <2>2 DEF ExplorerIInv
  <2>. QED BY <1>0, <2>1, <2>2, <2>3, <2>4 DEF ExplorerIInv, Current
<1>6. ASSUME NEW q \in querying, SearchAnswered(q) PROVE ExplorerIInv'
  <2>. DEFINE page == [filter |-> q.filter, offset |-> q.offset, rows |-> RowsOf(q),
                       total |-> Cardinality(Matching(q.filter))]
  <2>1. /\ shownPage' = {page} /\ UNCHANGED <<trail, sought, offset>>
        /\ querying' = querying \ {q} /\ page.total \in Nat
    BY <1>0, <1>6 DEF SearchAnswered
  <2>2. /\ q = [filter |-> q.filter, offset |-> q.offset] /\ q.offset \in Nat
        /\ Current(page)' <=> q.filter = sought /\ q.offset = offset
    BY <2>1 DEF ExplorerIInv, Current
  <2>3. /\ Matching(sought)' = Matching(sought) /\ Len(trail') = Len(trail)
        /\ \A n : Within(sought, n)' = {i \in walk' : Cardinality(Above(sought, i)) < n}
    BY <2>1 DEF Matching, Above, Within
  <2>4. /\ trail' \in Seq(Kind) /\ offset' \in Nat /\ sought' \in Filter
        /\ querying' \subseteq [filter : Filter, offset : Nat]
        /\ \A s \in shownPage' : s.total \in Nat /\ \A t \in shownPage' : s = t
    BY <1>0, <2>1 DEF ExplorerIInv
  <2>5. ASSUME NEW i \in Matching(q.filter), Cardinality(Above(q.filter, i)) < q.offset + PageRows
        PROVE  i \in RowsOf(q) \/ Cardinality(Above(q.filter, i)) < q.offset
    BY <1>0, <2>2, <2>5, PageReaches
  <2>6. ASSUME q.offset + PageRows >= page.total, NEW i \in Matching(q.filter)
        PROVE  Cardinality(Above(q.filter, i)) < q.offset + PageRows
    BY <1>0, <2>1, <2>2, <2>6
  <2>7. CASE q = [filter |-> sought, offset |-> 0] /\ offset = 0
    <3>1. walk' = Matching(sought) /\ readSoFar' = RowsOf(q) /\ q.filter = sought /\ q.offset = 0
      BY <1>6, <2>7 DEF SearchAnswered
    <3>2. \A i \in Matching(sought) : Cardinality(Above(sought, i)) < PageRows => i \in readSoFar'
      BY <1>0, <2>5, <3>1
    <3>3. Within(sought, offset + PageRows)' \subseteq readSoFar'
      BY <2>1, <2>3, <2>7, <3>1, <3>2
    <3>4. offset' + PageRows >= page.total => walk' \subseteq readSoFar'
      BY <2>1, <2>6, <2>7, <3>1, <3>2
    <3>. QED BY <1>0, <2>1, <2>3, <2>4, <2>7, <3>1, <3>3, <3>4 DEF ExplorerIInv
  <2>8. CASE ~(q = [filter |-> sought, offset |-> 0] /\ offset = 0)
    <3>1. walk' = walk /\ readSoFar' = readSoFar \cup RowsOf(q) /\ orderly' = orderly
      BY <1>6, <2>8 DEF SearchAnswered
    <3>2. CASE ~orderly
      BY <2>1, <2>3, <2>4, <3>1, <3>2 DEF ExplorerIInv
    <3>3. CASE orderly /\ offset = 0
      <4>1. ~Current(page)'
        BY <2>2, <2>8, <3>3
      <4>2. \A s \in shownPage' : ~Current(s)'
        BY <2>1, <4>1 DEF Current
      <4>. QED BY <2>1, <2>3, <2>4, <3>1, <3>3, <4>2 DEF ExplorerIInv
    <3>4. CASE orderly /\ offset # 0
      <4>1. /\ q.filter = sought /\ q.offset = offset /\ walk \subseteq Matching(sought)
            /\ Within(sought, offset) \subseteq readSoFar
        BY <3>4 DEF ExplorerIInv
      <4>2. \A i \in walk : Cardinality(Above(sought, i)) < offset => i \in readSoFar
        BY <4>1 DEF Within
      <4>3. \A i \in walk : Cardinality(Above(sought, i)) < offset + PageRows => i \in readSoFar'
        BY <2>5, <3>1, <4>1, <4>2
      <4>4. Within(sought, offset + PageRows)' \subseteq readSoFar'
        BY <2>1, <2>3, <3>1, <4>3
      <4>5. Within(sought, offset)' \subseteq readSoFar'
        BY <2>1, <2>3, <3>1, <4>2
      <4>6. offset + PageRows >= page.total => walk' \subseteq readSoFar'
        BY <2>6, <3>1, <4>1, <4>3
      <4>. QED BY <1>0, <2>1, <2>3, <2>4, <3>1, <3>4, <4>1, <4>4, <4>5, <4>6 DEF ExplorerIInv
    <3>. QED BY <3>2, <3>3, <3>4
  <2>. QED BY <2>7, <2>8
<1>7. CASE UNCHANGED explorervars
  BY <1>7 DEF explorervars, ExplorerIInv, Within, Above, Matching, Current
<1>. QED BY <1>2, <1>3, <1>4, <1>5, <1>6, <1>7 DEF AuditExplorerNext

-------------------------------------------------------------------------------
(* What an artifact's details, an author's lists, a candidate's token, an  *)
(* import's report and the audit log read page by page show is about the   *)
(* records they are shown for (CandidatePortalPage.tsx, CourseBuilderPage, *)
(* CandidatesPage and CompliancePage).                                     *)
THEOREM PagesTold == RecordsSpec => []PagesTellTruly
<1>. DEFINE IInv == ActivityIInv /\ DeskIInv /\ BuilderIInv /\ ExplorerIInv
<1>1. RecordsInit => IInv
  BY ActivityInitial, DeskInitial, BuilderInitial, ExplorerInitial DEF RecordsInit
<1>2. IInv /\ [RecordsNext]_records => IInv'
  <2>1. [RecordsNext]_records =>
          /\ [ActivityPageNext]_activityvars /\ [CandidatesDeskNext]_deskvars
          /\ [BuilderPageNext]_buildervars /\ [AuditExplorerNext]_explorervars
    BY DEF RecordsNext, records
  <2>. QED BY <2>1, ActivityStep, DeskStep, BuilderStep, ExplorerStep
<1>3. ExplorerIInv => WalkMissesNothing
  <2>1. SUFFICES ASSUME ExplorerIInv, orderly, InStep, NEW s \in shownPage, offset + PageRows >= s.total
                 PROVE  walk \subseteq readSoFar
    BY DEF WalkMissesNothing
  <2>2. Current(s)
    BY <2>1 DEF InStep, Current, ExplorerIInv
  <2>. QED BY <2>1, <2>2 DEF ExplorerIInv
<1>4. IInv => PagesTellTruly
  <2>1. DeskIInv => TokenUnderOwnName /\ ReportedMeansStored
    BY DEF DeskIInv, TokenUnderOwnName
  <2>. QED BY <1>3, <2>1 DEF PagesTellTruly, ActivityIInv, BuilderIInv
<1>. QED BY <1>1, <1>2, <1>4, PTL DEF RecordsSpec

(* What the run explores is a behaviour of each component and each page:   *)
(* every theorem about a component's own specification holds of it as well.*)
THEOREM RecordsAreTheirParts ==
  RecordsSpec =>
    /\ MixedSpec /\ DataSpec /\ HiringSpec /\ LearningSpec /\ RetentionFormSpec
    /\ SetupPageSpec /\ ActivityPageSpec /\ BuilderPageSpec /\ CandidatesDeskSpec
    /\ AuditExplorerSpec
<1>1. RecordsInit =>
        /\ MixedInit /\ DataInit /\ HiringInit /\ LearningInit /\ RetentionFormInit
        /\ SetupPageInit /\ ActivityPageInit /\ BuilderPageInit /\ CandidatesDeskInit
        /\ AuditExplorerInit
  BY DEF RecordsInit
<1>2. [RecordsNext]_records =>
        /\ [MixedNext]_mixedvars /\ [DataNext]_datavars /\ [HiringNext]_hiringvars
        /\ [LearningNext]_learningvars /\ [RetentionFormNext]_retentionvars
        /\ [SetupPageNext]_setupvars /\ [ActivityPageNext]_activityvars
        /\ [BuilderPageNext]_buildervars /\ [CandidatesDeskNext]_deskvars
        /\ [AuditExplorerNext]_explorervars
  BY DEF RecordsNext, records
<1>. QED
  BY <1>1, <1>2, PTL
  DEF RecordsSpec, MixedSpec, DataSpec, HiringSpec, LearningSpec, RetentionFormSpec,
      SetupPageSpec, ActivityPageSpec, BuilderPageSpec, CandidatesDeskSpec, AuditExplorerSpec

===============================================================================
