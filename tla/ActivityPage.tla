------------------------------ MODULE ActivityPage ------------------------------
(***************************************************************************)
(* What the V1 candidate page does beside the responses                    *)
(* (admin-web/src/pages/CandidatePortalPage.tsx): the source pack it shows *)
(* one item of at a time, the files it uploads and removes in two requests *)
(* each, and the notes and flags put on the events of the timeline.  With  *)
(* the routes of candidate/portal.ts they call; any answer may be lost.    *)
(***************************************************************************)
EXTENDS Naturals, FiniteSets

CONSTANTS
  PackItem,        \* items of the source pack
  FileId,          \* artifact ids the database may hand out
  Happening,       \* events of the timeline
  Remarks, NoRemarks, \* notes an event may be given; NoRemarks is none
  Flag, NoFlag,    \* flags, "none" among them
  Untouched        \* neither a note nor a flag: the field was not edited

ASSUME ActivityPageAssumption ==
  /\ NoRemarks \in Remarks /\ NoFlag \in Flag
  /\ Untouched \notin Remarks \cup Flag

VARIABLES
  over,      \* the session is submitted: files can no longer be added
  ready,     \* the items of the pack that are available
  filed,     \* artifact -> its status
  noted, flagged, \* event -> the note and the flag stored with it
  selected,  \* the item selected, {} before the list is loaded
  fetching,  \* the requests for an item on their way, as item and turn
  turn,      \* of the two last, which request the page waits for
  detail,    \* the item shown
  listed,    \* the files the page lists
  transfer,  \* file -> what the page waits for
  takenOff,  \* the files it took off its list
  heard,     \* the timeline is shown
  noteDraft, flagDraft \* event -> what was put in its form

packvars == <<ready, selected, fetching, turn, detail>>
filevars == <<filed, listed, transfer, takenOff>>
timelinevars == <<noted, flagged, heard, noteDraft, flagDraft>>
activityvars == <<over, packvars, filevars, timelinevars>>

FileStatus == {"absent", "initiated", "available", "frozen", "removed"}

ActivityPageTypeOK ==
  /\ over \in BOOLEAN /\ ready \subseteq PackItem
  /\ filed \in [FileId -> FileStatus]
  /\ noted \in [Happening -> Remarks] /\ flagged \in [Happening -> Flag]
  /\ selected \subseteq PackItem /\ Cardinality(selected) <= 1
  /\ fetching \subseteq PackItem \X {0, 1} /\ turn \in {0, 1}
  /\ detail \subseteq PackItem /\ Cardinality(detail) <= 1
  /\ listed \subseteq FileId /\ takenOff \subseteq FileId
  /\ transfer \in [FileId -> {"no", "initiate", "complete", "remove"}]
  /\ heard \in BOOLEAN
  /\ noteDraft \in [Happening -> Remarks \cup {Untouched}]
  /\ flagDraft \in [Happening -> Flag \cup {Untouched}]

ActivityPageInit ==
  /\ over = FALSE /\ ready \in SUBSET PackItem
  /\ filed = [f \in FileId |-> "absent"]
  /\ noted = [e \in Happening |-> NoRemarks] /\ flagged = [e \in Happening |-> NoFlag]
  /\ selected = {} /\ fetching = {} /\ turn = 0 /\ detail = {}
  /\ listed = {} /\ takenOff = {} /\ transfer = [f \in FileId |-> "no"]
  /\ heard = FALSE
  /\ noteDraft = [e \in Happening |-> Untouched]
  /\ flagDraft = [e \in Happening |-> Untouched]

-------------------------------------------------------------------------------
(* The source pack. *)

(* The first item is selected when the list comes, any by its button.  A   *)
(* new request takes the place of the one before, whose answer is dropped. *)
SelectItem(i) ==
  /\ i \notin selected /\ selected' = {i}
  /\ \A r \in fetching : r[2] # 1 - turn  \* Bound: an answer two turns late
  /\ turn' = 1 - turn /\ fetching' = fetching \cup {<<i, turn'>>}
  /\ detail' = {}
  /\ UNCHANGED <<over, ready, filevars, timelinevars>>

Became(i, available) ==
  /\ ready' = IF available THEN ready \cup {i} ELSE ready \ {i}
  /\ UNCHANGED <<over, selected, fetching, turn, detail, filevars, timelinevars>>

(* Wrong on purpose: whatever answer comes is shown. *)
AnyAnswer(r) == detail' = {r[1]}

(* The controller of a request that was replaced is aborted. *)
CurrentAnswer(r) == IF r[2] = turn THEN detail' = {r[1]} ELSE UNCHANGED detail

(* An item that is not available is refused and nothing is shown.          *)
ItemAnswered(r) ==
  /\ fetching' = fetching \ {r}
  /\ \/ r[1] \in ready /\ CurrentAnswer(r)
     \/ UNCHANGED detail
  /\ UNCHANGED <<over, ready, selected, turn, filevars, timelinevars>>

-------------------------------------------------------------------------------
(* Files. *)

(* The input stays enabled during an upload: several may be on their way. *)
UploadArtifact(f) ==
  /\ filed[f] = "absent" /\ transfer[f] = "no"
  /\ transfer' = [transfer EXCEPT ![f] = "initiate"]
  /\ UNCHANGED <<over, packvars, filed, listed, takenOff, timelinevars>>

(* An answer lost after the row was made leaves a row nobody completes.    *)
Initiated(f) ==
  /\ transfer[f] = "initiate"
  /\ \/ /\ ~over /\ filed' = [filed EXCEPT ![f] = "initiated"]
        /\ transfer' = [transfer EXCEPT ![f] = "complete"]
     \/ /\ ~over /\ filed' = [filed EXCEPT ![f] = "initiated"]
        /\ transfer' = [transfer EXCEPT ![f] = "no"]
     \/ /\ transfer' = [transfer EXCEPT ![f] = "no"] /\ UNCHANGED filed
  /\ UNCHANGED <<over, packvars, listed, takenOff, timelinevars>>

(* Completing asks for nothing but a row that is not frozen, after the     *)
(* submission too; lost, the file is stored and not listed.                *)
Completed(f) ==
  /\ transfer[f] = "complete" /\ transfer' = [transfer EXCEPT ![f] = "no"]
  /\ \/ /\ filed[f] # "frozen" /\ filed' = [filed EXCEPT ![f] = "available"]
        /\ listed' = listed \cup {f} \/ UNCHANGED listed
     \/ UNCHANGED <<filed, listed>>
  /\ UNCHANGED <<over, packvars, takenOff, timelinevars>>

(* Wrong on purpose: the file leaves the list when the button is pressed. *)
RemoveArtifactAtOnce(f) ==
  /\ f \in listed /\ transfer[f] = "no"
  /\ transfer' = [transfer EXCEPT ![f] = "remove"]
  /\ listed' = listed \ {f} /\ takenOff' = takenOff \cup {f}
  /\ UNCHANGED <<over, packvars, filed, timelinevars>>

RemoveArtifact(f) ==
  /\ f \in listed /\ transfer[f] = "no"
  /\ transfer' = [transfer EXCEPT ![f] = "remove"]
  /\ UNCHANGED <<over, packvars, filed, listed, takenOff, timelinevars>>

(* A removal refused or not answered leaves the file on the list, whether  *)
(* or not it was removed.                                                  *)
Removed(f) ==
  /\ transfer[f] = "remove" /\ transfer' = [transfer EXCEPT ![f] = "no"]
  /\ \/ /\ filed[f] # "frozen" /\ filed' = [filed EXCEPT ![f] = "removed"]
        /\ \/ listed' = listed \ {f} /\ takenOff' = takenOff \cup {f}
           \/ UNCHANGED <<listed, takenOff>>
     \/ UNCHANGED <<filed, listed, takenOff>>
  /\ UNCHANGED <<over, packvars, timelinevars>>

(* The submission freezes what is available (CandidatePortal has its       *)
(* manifest, read in a statement before).                                  *)
FreezeFiles ==
  /\ ~over /\ over' = TRUE
  /\ filed' = [f \in FileId |-> IF filed[f] = "available" THEN "frozen" ELSE filed[f]]
  /\ UNCHANGED <<packvars, listed, transfer, takenOff, timelinevars>>

-------------------------------------------------------------------------------
(* The timeline. *)

HearTimeline ==
  /\ heard' = TRUE
  /\ UNCHANGED <<over, packvars, filevars, noted, flagged, noteDraft, flagDraft>>

EditAnnotation(e) ==
  /\ heard
  /\ \/ \E n \in Remarks : noteDraft' = [noteDraft EXCEPT ![e] = n] /\ UNCHANGED flagDraft
     \/ \E g \in Flag : flagDraft' = [flagDraft EXCEPT ![e] = g] /\ UNCHANGED noteDraft
  /\ UNCHANGED <<over, packvars, filevars, noted, flagged, heard>>

(* Both fields are sent, the one that was not edited as if it were empty   *)
(* though the form shows what is stored; the route replaces both, in any   *)
(* status of the session.                                                  *)
SaveAnnotation(e) ==
  /\ heard
  /\ noted' = [noted EXCEPT ![e] = IF noteDraft[e] = Untouched THEN NoRemarks ELSE noteDraft[e]]
  /\ flagged' = [flagged EXCEPT ![e] = IF flagDraft[e] = Untouched THEN NoFlag ELSE flagDraft[e]]
  /\ UNCHANGED <<over, packvars, filevars, heard, noteDraft, flagDraft>>

(* Opened again, the page knows of no file and has nothing in its forms.   *)
ReopenActivity ==
  /\ selected' = {} /\ fetching' = {} /\ detail' = {}
  /\ listed' = {} /\ heard' = FALSE
  /\ transfer' = [f \in FileId |-> "no"]
  /\ noteDraft' = [e \in Happening |-> Untouched]
  /\ flagDraft' = [e \in Happening |-> Untouched]
  /\ UNCHANGED <<over, ready, turn, filed, takenOff, noted, flagged>>

ActivityPageNext ==
  \/ FreezeFiles \/ HearTimeline \/ ReopenActivity
  \/ \E i \in PackItem : SelectItem(i) \/ \E a \in BOOLEAN : Became(i, a)
  \/ \E r \in fetching : ItemAnswered(r)
  \/ \E f \in FileId : UploadArtifact(f) \/ Initiated(f) \/ Completed(f)
                       \/ RemoveArtifact(f) \/ Removed(f)
  \/ \E e \in Happening : EditAnnotation(e) \/ SaveAnnotation(e)

ActivityPageSpec == ActivityPageInit /\ [][ActivityPageNext]_activityvars

-------------------------------------------------------------------------------
(* Properties. *)

(* The text under a source item's title is that item's: answers late, out  *)
(* of order or refused are not shown (useAsyncData.ts:52-74).              *)
DetailIsSelected == detail \subseteq selected

(* A file the page took off its list is not part of the frozen work,       *)
(* whatever was submitted, lost or repeated meanwhile (:600-689).          *)
TakenOffStaysOut == \A f \in takenOff : filed[f] = "removed"

===============================================================================
