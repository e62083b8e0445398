------------------------------- MODULE RoundPage -------------------------------
(***************************************************************************)
(* The page of a V2 review round (ReviewerV2WorkspacePage.tsx): a bundle   *)
(* read once, a draft and a save button for each dimension, one button to  *)
(* finalise the round.  Of the server it keeps this reviewer's round;      *)
(* ReviewV2 has the handlers.  Both writes are answered from inside the    *)
(* transaction, so the page has the answer of a transaction whose COMMIT   *)
(* is still to come, and may fail; every handler of the session takes the  *)
(* manifest FOR UPDATE, so the next one waits for it.                      *)
(***************************************************************************)
EXTENDS FiniteSets

CONSTANTS
  Aspect,      \* the dimensions of the pack
  Rationale,   \* texts long enough to be a rationale
  NoRationale  \* a text that is not

ASSUME RoundPageAssumption == NoRationale \notin Rationale

VARIABLES
  recorded,    \* review_dimensions_v2 of the round: aspect -> what is stored
  roundDone,   \* the round's completed_at
  uncommittedRow,  \* aspect -> the text answered for and not committed yet
  uncommittedEnd,  \* the round is finalised in a transaction not committed yet
  lostRows,    \* aspects whose last save was answered for and not committed
  bundle,      \* "none", "mine", or "readonly" when there is no round to write
  rationale,   \* aspect -> the text in its form
  chip,        \* aspect -> the chip next to it
  posted,      \* aspect -> the text on its way
  outcome      \* the page says the round is finalised

roundstored == <<recorded, roundDone>>
roundTx == <<uncommittedRow, uncommittedEnd, lostRows>>
roundvars == <<roundstored, roundTx, bundle, rationale, chip, posted, outcome>>

RoundPageTypeOK ==
  /\ recorded \in [Aspect -> Rationale \cup {NoRationale}]
  /\ roundDone \in BOOLEAN /\ outcome \in BOOLEAN
  /\ uncommittedRow \in [Aspect -> Rationale \cup {NoRationale}]
  /\ uncommittedEnd \in BOOLEAN /\ lostRows \subseteq Aspect
  /\ bundle \in {"none", "mine", "readonly"}
  /\ rationale \in [Aspect -> Rationale \cup {NoRationale}]
  /\ chip \in [Aspect -> {"none", "saving", "saved", "error"}]
  /\ posted \in [Aspect -> Rationale \cup {NoRationale}]

Empty == [a \in Aspect |-> NoRationale]

(* Nobody holds the manifest.                                              *)
ManifestFree == uncommittedRow = Empty /\ ~uncommittedEnd

RoundPageInit ==
  /\ recorded \in [Aspect -> Rationale \cup {NoRationale}]
  /\ roundDone = FALSE /\ outcome = FALSE
  /\ uncommittedRow = Empty /\ uncommittedEnd = FALSE /\ lostRows = {}
  /\ bundle = "none" /\ rationale = Empty
  /\ chip = [a \in Aspect |-> "none"]
  /\ posted = Empty

(* The forms are seeded with what the round has (the follow-up probe and   *)
(* the evidence cited are not: the next save of the aspect empties them).  *)
Open ==
  /\ bundle = "none" /\ ManifestFree
  /\ \/ bundle' = "mine" /\ rationale' = recorded
     \/ bundle' = "readonly" /\ UNCHANGED rationale
  /\ UNCHANGED <<roundstored, roundTx, chip, posted, outcome>>

(* Leaving the page, to come back: nothing of it is kept, and a save on    *)
(* its way may still arrive, after the transaction under way.              *)
Leave ==
  /\ bundle # "none" /\ bundle' = "none"
  /\ rationale' = Empty /\ posted' = Empty
  /\ chip' = [a \in Aspect |-> "none"] /\ outcome' = FALSE
  /\ \E S \in SUBSET {a \in Aspect : posted[a] # NoRationale /\ ~roundDone /\ ManifestFree} :
       recorded' = [a \in Aspect |-> IF a \in S THEN posted[a] ELSE recorded[a]]
  /\ lostRows' = {} /\ UNCHANGED <<roundDone, uncommittedRow, uncommittedEnd>>

(* An edit leaves the chip as it is: "saved" stays next to a changed text. *)
WriteRationale(a, text) ==
  /\ bundle = "mine"
  /\ rationale' = [rationale EXCEPT ![a] = text]
  /\ UNCHANGED <<roundstored, roundTx, bundle, chip, posted, outcome>>

(* Wrong on purpose: the chip says so as soon as the request is sent. *)
SaveAspectEagerly(a) ==
  /\ bundle = "mine" /\ rationale[a] # NoRationale
  /\ chip' = [chip EXCEPT ![a] = "saved"]
  /\ posted' = [posted EXCEPT ![a] = rationale[a]]
  /\ UNCHANGED <<roundstored, roundTx, bundle, rationale, outcome>>

(* The button is disabled without a rationale and while a save is sent. *)
SaveAspect(a) ==
  /\ bundle = "mine" /\ rationale[a] # NoRationale /\ chip[a] # "saving"
  /\ chip' = [chip EXCEPT ![a] = "saving"]
  /\ posted' = [posted EXCEPT ![a] = rationale[a]]
  /\ UNCHANGED <<roundstored, roundTx, bundle, rationale, outcome>>

(* The server writes the row and answers; the answer may be lost.          *)
AspectSaved(a) ==
  /\ posted[a] # NoRationale /\ ~roundDone /\ ManifestFree
  /\ uncommittedRow' = [uncommittedRow EXCEPT ![a] = posted[a]]
  /\ lostRows' = lostRows \ {a}
  /\ posted' = [posted EXCEPT ![a] = NoRationale]
  /\ \E s \in {"saved", "error"} : chip' = [chip EXCEPT ![a] = s]
  /\ UNCHANGED <<roundstored, uncommittedEnd, bundle, rationale, outcome>>

(* The round is final, the session has moved on, the wording is refused or *)
(* nothing arrived.                                                        *)
AspectRefused(a) ==
  /\ posted[a] # NoRationale
  /\ posted' = [posted EXCEPT ![a] = NoRationale]
  /\ chip' = [chip EXCEPT ![a] = "error"]
  /\ UNCHANGED <<roundstored, roundTx, bundle, rationale, outcome>>

(* Asked for whatever the chips say; the server looks at the stored rows.  *)
(* A refusal is shown and changes nothing; a lost answer looks like one.   *)
FinaliseRound ==
  /\ bundle = "mine" /\ ~roundDone /\ ManifestFree
  /\ \A a \in Aspect : recorded[a] # NoRationale
  /\ uncommittedEnd' = TRUE /\ outcome' \in BOOLEAN
  /\ UNCHANGED <<roundstored, uncommittedRow, lostRows, bundle, rationale, chip, posted>>

CommitRound ==
  /\ ~ManifestFree
  /\ recorded' = [a \in Aspect |-> IF uncommittedRow[a] # NoRationale
                                  THEN uncommittedRow[a] ELSE recorded[a]]
  /\ roundDone' = (roundDone \/ uncommittedEnd)
  /\ uncommittedRow' = Empty /\ uncommittedEnd' = FALSE
  /\ UNCHANGED <<lostRows, bundle, rationale, chip, posted, outcome>>

(* The connection or the server is lost, and the transaction with it.      *)
RollBackRound ==
  /\ ~ManifestFree
  /\ lostRows' = lostRows \cup {a \in Aspect : uncommittedRow[a] # NoRationale}
  /\ uncommittedRow' = Empty /\ uncommittedEnd' = FALSE
  /\ UNCHANGED <<roundstored, bundle, rationale, chip, posted, outcome>>

RoundPageNext ==
  \/ Open \/ Leave \/ FinaliseRound \/ CommitRound \/ RollBackRound
  \/ \E a \in Aspect : \/ \E text \in Rationale \cup {NoRationale} : WriteRationale(a, text)
                       \/ SaveAspect(a) \/ AspectSaved(a) \/ AspectRefused(a)

RoundPageSpec == RoundPageInit /\ [][RoundPageNext]_roundvars

-------------------------------------------------------------------------------
(* Properties. *)

Reviewed == {a \in Aspect : rationale[a] # NoRationale /\ chip[a] = "saved"}

(* The rubric's count is of aspects the round has, or will have with the   *)
(* COMMIT its answer was ahead of, whatever was edited or refused since;   *)
(* only an aspect whose COMMIT failed after the answer is counted falsely, *)
(* until it is saved again.                                                *)
CountedAreRecorded ==
  \A a \in Reviewed : \/ recorded[a] # NoRationale
                     \/ uncommittedRow[a] # NoRationale \/ a \in lostRows

===============================================================================
