----------------------------- MODULE WorkspacePage -----------------------------
(***************************************************************************)
(* The candidate's workspace page (features/candidate-v2/runtime/          *)
(* WorkspacePage.tsx) against the artifact routes of v2/runtime.ts: what   *)
(* the page holds of each deliverable, its one autosave timer, saves and   *)
(* their answers in flight, the poll, lost requests and answers, a reload, *)
(* and another tab that saves too.  The server answers a save before its   *)
(* transaction commits, and the page asks for each artifact's content by a *)
(* request of its own.  A text stands for what was typed; the text NoText  *)
(* is the empty one.                                                       *)
(***************************************************************************)
EXTENDS Integers, FiniteSets

CONSTANTS
  DeliverableSlot,  \* all of them required
  Text, NoText,     \* NoText \in Text
  Put,              \* saves that may be in flight at a time
  MaxVersion,       \* bound on an artifact's versions
  MaxOutage         \* bound on requests, answers, COMMITs lost and on reloads

ASSUME PageAssumption ==
  /\ NoText \in Text /\ MaxVersion \in Nat /\ MaxOutage \in Nat

VARIABLES
  stored,    \* slot -> the head on the server: its version and text
  served,    \* the session on the server: "active" or "submitted"
  editor,    \* slot -> what the page shows: {} before anything, or one draft
  loaded,    \* the listing of the artifacts: "none", "asked", "done"
  listed,    \* slot -> the version the listing has brought, and its content once read
  unfetched, \* slots listed whose content is still to be asked for
  unread,    \* slots whose content could not be had: the page goes on without
  autosave,  \* the pending timer, with the closure's base version: one or none
  put,       \* save -> the request and how far it is
  shown,     \* save.state
  duePut,    \* the version a save's transaction has written and not committed
  lostPuts,  \* slots with a save that was answered and never committed
  outages

opening == <<loaded, listed, unfetched, unread>>
puttx == <<duePut, lostPuts>>
pagevars == <<stored, served, editor, opening, autosave, put, shown, puttx, outages>>

Version == 0..MaxVersion
ArtifactHead == [version : Version, text : Text]
NoHead == [version |-> 0, text |-> NoText]
Save == [slot : DeliverableSlot, text : Text, base : Version]
PutStage == {"sent", "stored", "conflict", "refused", "lost"}
DueVersion == [slot : DeliverableSlot, version : Version, text : Text]
Flight == {[save |-> s, at |-> p, version |-> v] : s \in Save, p \in PutStage, v \in Version}

PageTypeOK ==
  /\ stored \in [DeliverableSlot -> ArtifactHead]
  /\ served \in {"active", "submitted"}
  /\ \A d \in DeliverableSlot : editor[d] \subseteq ArtifactHead /\ Cardinality(editor[d]) <= 1
  /\ loaded \in {"none", "asked", "done"}
  /\ listed \in [DeliverableSlot -> ArtifactHead]
  /\ unfetched \subseteq DeliverableSlot /\ unread \subseteq DeliverableSlot
  /\ duePut \subseteq DueVersion /\ Cardinality(duePut) <= 1
  /\ lostPuts \subseteq DeliverableSlot
  /\ autosave \subseteq Save /\ Cardinality(autosave) <= 1
  /\ \A p \in Put : put[p] \subseteq Flight /\ Cardinality(put[p]) <= 1
  /\ shown \in {"saved", "saving", "offline", "error"}
  /\ outages \in 0..MaxOutage

Blank == [d \in DeliverableSlot |-> {}]

PageInit ==
  /\ stored = [d \in DeliverableSlot |-> NoHead] /\ served = "active"
  /\ editor = Blank /\ loaded = "none"
  /\ listed = [d \in DeliverableSlot |-> NoHead] /\ unfetched = {} /\ unread = {}
  /\ duePut = {} /\ lostPuts = {}
  /\ autosave = {} /\ put = [p \in Put |-> {}]
  /\ shown = "saved" /\ outages = 0

(* drafts[slot]?.content ?? "" and drafts[slot]?.version ?? 0 *)
Shown(d) == IF editor[d] = {} THEN NoHead ELSE CHOOSE e \in editor[d] : TRUE

-------------------------------------------------------------------------------
(* Loading. *)

(* The listing is answered with the versions there are; it may be lost,    *)
(* and is not asked for again.                                             *)
ListArtifacts ==
  /\ loaded = "none"
  /\ \/ /\ loaded' = "asked" /\ UNCHANGED outages
        /\ listed' = [d \in DeliverableSlot |-> [stored[d] EXCEPT !.text = NoText]]
        /\ unfetched' = {d \in DeliverableSlot : stored[d].version > 0}
     \/ /\ outages < MaxOutage /\ outages' = outages + 1
        /\ loaded' = "done" /\ UNCHANGED <<listed, unfetched>>
  /\ UNCHANGED <<stored, served, editor, unread, autosave, put, shown, puttx>>

(* The content there is by then, under the version the listing gave; if it *)
(* cannot be had, the empty text under that version.                       *)
FetchContent(d) ==
  /\ d \in unfetched /\ unfetched' = unfetched \ {d}
  /\ \/ /\ listed' = [listed EXCEPT ![d].text = stored[d].text]
        /\ UNCHANGED <<unread, outages>>
     \/ /\ outages < MaxOutage /\ outages' = outages + 1
        /\ unread' = unread \cup {d} /\ UNCHANGED listed
  /\ UNCHANGED <<stored, served, editor, loaded, autosave, put, shown, puttx>>

(* { ...next, ...d }: what was typed meanwhile wins, its version with it.  *)
ArtifactsLoaded ==
  /\ loaded = "asked" /\ unfetched = {} /\ loaded' = "done"
  /\ editor' = [d \in DeliverableSlot |->
       IF editor[d] = {} /\ listed[d].version > 0 THEN {listed[d]} ELSE editor[d]]
  /\ UNCHANGED <<stored, served, listed, unfetched, unread, autosave, put, shown, puttx, outages>>

(* Nothing of the page outlives it; a request it had sent may still arrive *)
(* and is then as a save of the other tab.                                 *)
Reload ==
  /\ outages < MaxOutage /\ outages' = outages + 1
  /\ editor' = Blank /\ loaded' = "none"
  /\ listed' = [d \in DeliverableSlot |-> NoHead] /\ unfetched' = {} /\ unread' = {}
  /\ autosave' = {} /\ shown' = "saved"
  /\ put' = [p \in Put |-> {}] /\ lostPuts' = {}
  /\ UNCHANGED <<stored, served, duePut>>

-------------------------------------------------------------------------------
(* Typing and saving. *)

(* Wrong on purpose: the version is counted up without waiting for the     *)
(* server.                                                                 *)
OnEditOptimistic(d, text) ==
  /\ served = "active" /\ text # Shown(d).text /\ Shown(d).version < MaxVersion
  /\ editor' = [editor EXCEPT ![d] = {[version |-> Shown(d).version + 1, text |-> text]}]
  /\ autosave' = {[slot |-> d, text |-> text, base |-> Shown(d).version]}
  /\ UNCHANGED <<stored, served, opening, put, shown, puttx, outages>>

(* One timer for all slots: an edit of another slot replaces it.  The save *)
(* it will run has the drafts of this rendering.                           *)
OnEdit(d, text) ==
  /\ served = "active" /\ text # Shown(d).text
  /\ editor' = [editor EXCEPT ![d] = {[version |-> Shown(d).version, text |-> text]}]
  /\ autosave' = {[slot |-> d, text |-> text, base |-> Shown(d).version]}
  /\ UNCHANGED <<stored, served, opening, put, shown, puttx, outages>>

SaveDraft(p) ==
  /\ put[p] = {} /\ autosave # {}
  /\ put' = [put EXCEPT ![p] = {[save |-> s, at |-> "sent", version |-> 0] : s \in autosave}]
  /\ autosave' = {} /\ shown' = "saving"
  /\ UNCHANGED <<stored, served, editor, opening, puttx, outages>>

Answered(p, f, at, version) ==
  put' = [put EXCEPT ![p] = {[f EXCEPT !.at = at, !.version = version]}]

(* PUT artifacts, under the manifest's lock: refused unless the session is *)
(* active, then by the base version.  The answer goes out first: the new   *)
(* version is there for others with the COMMIT.                            *)
PutArtifact(p) ==
  \E f \in put[p] :
    LET head == stored[f.save.slot]
    IN /\ f.at = "sent" /\ duePut = {}
       /\ \/ /\ served # "active" /\ Answered(p, f, "refused", 0) /\ UNCHANGED puttx
          \/ /\ served = "active" /\ f.save.base # head.version
             /\ Answered(p, f, "conflict", 0) /\ UNCHANGED puttx
          \/ /\ served = "active" /\ f.save.base = head.version /\ head.version < MaxVersion
             /\ duePut' = {[slot |-> f.save.slot, version |-> head.version + 1,
                            text |-> f.save.text]}
             /\ lostPuts' = lostPuts \ {f.save.slot}
             /\ Answered(p, f, "stored", head.version + 1)
       /\ UNCHANGED <<stored, served, editor, opening, autosave, shown, outages>>

CommitPut ==
  \E w \in duePut :
    /\ stored' = [stored EXCEPT ![w.slot] = [version |-> w.version, text |-> w.text]]
    /\ duePut' = {}
    /\ UNCHANGED <<served, editor, opening, autosave, put, shown, lostPuts, outages>>

(* The connection or the server is lost, and the transaction with it.      *)
RollBackPut ==
  \E w \in duePut :
    /\ outages < MaxOutage /\ outages' = outages + 1
    /\ duePut' = {} /\ lostPuts' = lostPuts \cup {w.slot}
    /\ UNCHANGED <<stored, served, editor, opening, autosave, put, shown>>

(* The request, or the answer to it. *)
Lose(p) ==
  /\ outages < MaxOutage /\ outages' = outages + 1
  /\ \E f \in put[p] : f.at # "lost" /\ Answered(p, f, "lost", 0)
  /\ UNCHANGED <<stored, served, editor, opening, autosave, shown, puttx>>

Land(p, f, version) ==
  /\ editor' = [editor EXCEPT ![f.save.slot] = {[version |-> version, text |-> f.save.text]}]
  /\ put' = [put EXCEPT ![p] = {}]

(* The text that was sent comes back over what has been typed since. *)
SaveSucceeds(p) ==
  \E f \in put[p] :
    /\ f.at = "stored" /\ Land(p, f, f.version)
    /\ shown' = "saved"
    /\ UNCHANGED <<stored, served, opening, autosave, puttx, outages>>

(* The head is asked for, and the local text kept; if there is none or the *)
(* listing fails too, the version the save was sent with.  Nothing saves   *)
(* again.                                                                  *)
SaveConflicts(p) ==
  \E f \in put[p] :
    /\ f.at = "conflict"
    /\ \/ /\ stored[f.save.slot].version > 0 /\ UNCHANGED outages
          /\ Land(p, f, stored[f.save.slot].version)
       \/ /\ stored[f.save.slot].version = 0 /\ UNCHANGED outages
          /\ Land(p, f, f.save.base)
       \/ /\ outages < MaxOutage /\ outages' = outages + 1
          /\ Land(p, f, f.save.base)
    /\ shown' = "error"
    /\ UNCHANGED <<stored, served, opening, autosave, puttx>>

(* A fetch that fails has no status 0, so the page says "error". *)
SaveFails(p) ==
  \E f \in put[p] :
    /\ f.at \in {"refused", "lost"}
    /\ put' = [put EXCEPT ![p] = {}]
    /\ shown' = "error"
    /\ UNCHANGED <<stored, served, editor, opening, autosave, puttx, outages>>

-------------------------------------------------------------------------------
(* The poll, the other tab, the submission. *)

(* Every 30 seconds, or by "Retry now": the answer calls the page saved.   *)
Sync ==
  /\ \/ /\ outages < MaxOutage /\ outages' = outages + 1
        /\ shown' = "offline"
     \/ /\ shown = "offline" /\ shown' = "saved" /\ UNCHANGED outages
  /\ UNCHANGED <<stored, served, editor, opening, autosave, put, puttx>>

OtherTabSaves(d, text) ==
  /\ served = "active" /\ stored[d].version < MaxVersion /\ duePut = {}
  /\ stored' = [stored EXCEPT ![d] = [version |-> @.version + 1, text |-> text]]
  /\ UNCHANGED <<served, editor, opening, autosave, put, shown, puttx, outages>>

MissingSlots == {d \in DeliverableSlot : Shown(d).version = 0}

(* The button is there once every slot shows a version; the pending timer  *)
(* is neither waited for nor run.  The server looks for the artifacts      *)
(* itself, and a refusal changes nothing.                                  *)
DoFinalise ==
  /\ MissingSlots = {} /\ served = "active" /\ duePut = {}
  /\ \A d \in DeliverableSlot : stored[d].version > 0
  /\ served' = "submitted"
  /\ UNCHANGED <<stored, editor, opening, autosave, put, shown, puttx, outages>>

PageNext ==
  \/ ListArtifacts \/ ArtifactsLoaded \/ Reload \/ Sync \/ DoFinalise
  \/ CommitPut \/ RollBackPut
  \/ \E d \in DeliverableSlot : FetchContent(d)
  \/ \E d \in DeliverableSlot, text \in Text : OnEdit(d, text) \/ OtherTabSaves(d, text)
  \/ \E p \in Put : \/ SaveDraft(p) \/ PutArtifact(p) \/ Lose(p)
                    \/ SaveSucceeds(p) \/ SaveConflicts(p) \/ SaveFails(p)

PageSpec == PageInit /\ [][PageNext]_pagevars

-------------------------------------------------------------------------------
(* A version shown beyond the one stored is the very next one, that of a   *)
(* save answered whose transaction is not over, or was lost: a tick is     *)
(* given for nothing else the server does not hold, whatever was lost,     *)
(* reloaded or saved from another tab, and only those can make the server  *)
(* find incomplete the submission the page offers on its ticks             *)
(* (WorkspacePage.tsx:180, v2/runtime.ts:606,683).                         *)
TicksAreStored ==
  \A d \in DeliverableSlot :
    Shown(d).version > stored[d].version =>
      /\ Shown(d).version = stored[d].version + 1
      /\ d \in lostPuts \/ \E w \in duePut : w.slot = d

(* What the server has been given of a deliverable last: the version about *)
(* to be committed, or the one stored.                                     *)
Latest(d) ==
  IF \E w \in duePut : w.slot = d
  THEN LET w == CHOOSE w \in duePut : TRUE IN [version |-> w.version, text |-> w.text]
  ELSE stored[d]

(* "autosaves a second after you stop typing" (WorkspacePage.tsx:365):     *)
(* with no timer pending and no save in flight, a page that says "saved"   *)
(* shows no text that the server has not been given.                       *)
SavedMeansSaved ==
  shown = "saved" /\ autosave = {} /\ (\A p \in Put : put[p] = {}) /\ served = "active" =>
    \A d \in DeliverableSlot :
      editor[d] # {} => Shown(d).version < Latest(d).version \/ Shown(d).text = Latest(d).text
===============================================================================
