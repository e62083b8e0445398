------------------------------ MODULE BuilderPage ------------------------------
(***************************************************************************)
(* The pages of learning's authors (apps/web CourseBuilderPage,            *)
(* PathwaysPage) against the routes of org/learning.ts: three kinds of     *)
(* lists are made by posting one entry after another, each with the        *)
(* position a page takes from the length of the list it was last shown:    *)
(* the modules of a course, the lessons of a module, the courses of a      *)
(* pathway.                                                                *)
(***************************************************************************)
EXTENDS Integers, FiniteSets

CONSTANTS
  Builder,    \* authors' pages
  Listing,    \* the lists, some of "modules", "lessons", "pathway"
  MaxLength   \* bound on the entries of a list

ASSUME BuilderPageAssumption ==
  MaxLength \in Nat /\ Listing \subseteq {"modules", "lessons", "pathway"}

VARIABLES
  draft,       \* the course is one
  entries,     \* list -> its rows, as position and author
  shownLength, \* page -> the lengths it was last shown, none while it loads
  posted       \* page -> the entries on their way, as list and position

buildervars == <<draft, entries, shownLength, posted>>

ListRow == (0..MaxLength) \X Builder

BuilderPageTypeOK ==
  /\ draft \in BOOLEAN
  /\ entries \in [Listing -> SUBSET ListRow]
  /\ shownLength \in [Builder -> SUBSET [Listing -> Nat]]
  /\ posted \in [Builder -> SUBSET (Listing \X Nat)]

BuilderPageInit ==
  /\ draft = TRUE /\ entries = [l \in Listing |-> {}]
  /\ shownLength = [b \in Builder |-> {}] /\ posted = [b \in Builder |-> {}]

(* What is shown is as old as it is: an answer that comes late is one that *)
(* came at once and was looked at for longer.                              *)
LoadLists(b) ==
  /\ shownLength[b] = {}
  /\ shownLength' = [shownLength EXCEPT ![b] = {[l \in Listing |-> Cardinality(entries[l])]}]
  /\ UNCHANGED <<draft, entries, posted>>

(* A list's form, one entry at a time; the lessons' once there is a module.*)
(* The draft shown may have been published meanwhile.                      *)
PostEntry(b, l) ==
  /\ \E n \in shownLength[b] :
       /\ l = "lessons" /\ "modules" \in Listing => n["modules"] > 0
       /\ \A e \in posted[b] : e[1] # l
       /\ n[l] < MaxLength   \* Bound
       /\ posted' = [posted EXCEPT ![b] = @ \cup {<<l, n[l]>>}]
  /\ UNCHANGED <<draft, entries, shownLength>>

(* Wrong on purpose: a position that is taken is not refused. *)
InsertedTwice(b, e) ==
  /\ e[1] = "pathway" \/ draft
  /\ entries' = [entries EXCEPT ![e[1]] = @ \cup {<<e[2], b>>}]

(* The course must be a draft still, and the position free (UNIQUE).       *)
Inserted(b, e) ==
  /\ e[1] = "pathway" \/ draft
  /\ \A row \in entries[e[1]] : row[1] # e[2]
  /\ entries' = [entries EXCEPT ![e[1]] = @ \cup {<<e[2], b>>}]

(* Answered, the page asks for the lists again; refused (a course is once  *)
(* in a pathway) or not answered, it goes on showing the old ones, and     *)
(* posts the same position next time.                                      *)
PostAnswered(b, e) ==
  /\ posted' = [posted EXCEPT ![b] = @ \ {e}]
  /\ \/ /\ Inserted(b, e)
        /\ \/ shownLength' = [shownLength EXCEPT ![b] = {}]
           \/ UNCHANGED shownLength
     \/ UNCHANGED <<entries, shownLength>>
  /\ UNCHANGED draft

(* "Try again", or the page opened anew. *)
ReopenLists(b) ==
  /\ shownLength[b] # {} /\ shownLength' = [shownLength EXCEPT ![b] = {}]
  /\ UNCHANGED <<draft, entries, posted>>

PublishCourse(b) ==
  /\ shownLength[b] # {} /\ draft
  /\ \A l \in Listing \ {"pathway"} : entries[l] # {}
  /\ draft' = FALSE
  /\ shownLength' = [shownLength EXCEPT ![b] = {}] \/ UNCHANGED shownLength
  /\ UNCHANGED <<entries, posted>>

BuilderPageNext ==
  \E b \in Builder :
    \/ LoadLists(b) \/ ReopenLists(b) \/ PublishCourse(b)
    \/ \E l \in Listing : PostEntry(b, l)
    \/ \E e \in posted[b] : PostAnswered(b, e)

BuilderPageSpec == BuilderPageInit /\ [][BuilderPageNext]_buildervars

-------------------------------------------------------------------------------
(* Properties. *)

(* Each list is numbered from nought without a gap or a double, though     *)
(* every page numbers its entry by a list that may be old: another author, *)
(* an entry stored whose answer was lost, a course published meanwhile     *)
(* (CourseBuilderPage.tsx:88-93, :115, :157; PathwaysPage.tsx:142).        *)
PositionsContiguous ==
  \A l \in Listing :
    /\ {row[1] : row \in entries[l]} = 0..(Cardinality(entries[l]) - 1)
    /\ \A r, s \in entries[l] : r[1] = s[1] => r = s

===============================================================================
