---------------------------- MODULE ServicesPagesProofs ----------------------------
(***************************************************************************)
(* Theorems about the pages a candidate and a reviewer work on: what they  *)
(* show as saved is stored, what they begin was agreed to, and what they   *)
(* save blanks nothing.  They are stated of the specification that runs    *)
(* these pages and the services side by side, each page's part being a     *)
(* lemma about its own module.                                             *)
(***************************************************************************)
EXTENDS MCServices, TLAPS

-------------------------------------------------------------------------------
(* The V2 round. *)

RoundIInv ==
  /\ \A f \in {recorded, posted, rationale, uncommittedRow} :
       f \in [Aspect -> Rationale \cup {NoRationale}]
  /\ chip \in [Aspect -> {"none", "saving", "saved", "error"}]
  /\ \A a \in Aspect : chip[a] = "saved" =>
       recorded[a] # NoRationale \/ uncommittedRow[a] # NoRationale \/ a \in lostRows

LEMMA RoundInitial == ASSUME RoundPageInit PROVE RoundIInv
  BY DEF RoundPageInit, RoundIInv, Empty

LEMMA RoundStep == ASSUME RoundIInv, [RoundPageNext]_roundvars PROVE RoundIInv'
<1>. USE DEF RoundIInv, roundstored, roundTx
<1>1. CASE Open \/ FinaliseRound
  BY <1>1 DEF Open, FinaliseRound
<1>2. CASE Leave
  BY <1>2 DEF Leave, Empty
<1>3. ASSUME NEW a \in Aspect, NEW text \in Rationale \cup {NoRationale}, WriteRationale(a, text)
      PROVE  RoundIInv'
  BY <1>3 DEF WriteRationale
<1>4. ASSUME NEW a \in Aspect, SaveAspect(a) PROVE RoundIInv'
  BY <1>4 DEF SaveAspect
<1>5. ASSUME NEW a \in Aspect, AspectSaved(a) PROVE RoundIInv'
  BY <1>5 DEF AspectSaved, ManifestFree, Empty
<1>6. ASSUME NEW a \in Aspect, AspectRefused(a) PROVE RoundIInv'
  BY <1>6 DEF AspectRefused
<1>7. CASE CommitRound \/ RollBackRound
  BY <1>7 DEF CommitRound, RollBackRound, Empty
<1>8. CASE UNCHANGED roundvars
  BY <1>8 DEF roundvars
<1>. QED BY <1>1, <1>2, <1>3, <1>4, <1>5, <1>6, <1>7, <1>8 DEF RoundPageNext

-------------------------------------------------------------------------------
(* The first candidate portal. *)

(* What counts as saved since the workspace was mounted was stored, by the *)
(* very answer that said so.                                               *)
EvidenceIInv == savedWork \subseteq posts /\ StartedInformed

LEMMA EvidenceInitial == ASSUME EvidencePageInit PROVE EvidenceIInv
  BY DEF EvidencePageInit, EvidenceIInv, StartedInformed

LEMMA EvidenceStep == ASSUME EvidenceIInv, [EvidencePageNext]_evidencevars PROVE EvidenceIInv'
<1>. USE DEF EvidenceIInv, StartedInformed, evserver, workspace
<1>1. CASE ShowStatus \/ Revisit
  BY <1>1 DEF ShowStatus, Revisit, Remount
<1>2. CASE Accept \/ Start \/ Pause \/ Resume \/ Submit
  BY <1>2 DEF Accept, Start, Pause, Resume, Submit, Press, Remount
<1>3. CASE Acknowledge
  BY <1>3 DEF Acknowledge, Press, Remount
<1>4. CASE Elsewhere
  BY <1>4 DEF Elsewhere
<1>5. CASE \/ SaveWork \/ SaveWorkTimer
          \/ (\E n \in Notice : OpenNotice(n)) \/ \E w \in Typed : TypeWork(w)
  BY <1>5 DEF SaveWork, SaveWorkTimer, OpenNotice, TypeWork
<1>6. ASSUME NEW w \in outgoing, Stored(w) \/ NotStored(w) PROVE EvidenceIInv'
  BY <1>6 DEF Stored, NotStored, WorkSaved
<1>7. CASE UNCHANGED evidencevars
  BY <1>7 DEF evidencevars
<1>. QED BY <1>1, <1>2, <1>3, <1>4, <1>5, <1>6, <1>7 DEF EvidencePageNext

-------------------------------------------------------------------------------
(* The V2 candidate's way in. *)

(* A request that is on its way was sent with every box ticked, or every   *)
(* check passed; and a submission, which is for good, is known only once   *)
(* it is one.                                                              *)
EntryIInv ==
  /\ v2state \in EntryState /\ dueState \in {"none", "disclosed", "submitted"}
  /\ dueState = "disclosed" => v2state = "invited"
  /\ dueState = "submitted" => v2state \in {"active", "submitting"}
  /\ v2state # "invited" \/ dueState = "disclosed" \/ busy = "disclose" => consent = Confirmation
  /\ v2state \notin {"invited", "disclosed"} \/ busy = "preflight/complete" => compatible = Check
  /\ landing = "submitted" \/ polled = "submitted" => v2state = "submitted"
  /\ live = "submitted" \/ receipt =>
       v2state = "submitted" \/ (receipt /\ (dueState = "submitted" \/ lostReceipt))

LEMMA EntryInitial == ASSUME EntryPageInit PROVE EntryIInv
  BY DEF EntryPageInit, EntryIInv, EntryState

LEMMA EntryStep == ASSUME EntryIInv, [EntryPageNext]_entryvars PROVE EntryIInv'
<1>. USE DEF EntryIInv, EntryState, entrytx, steps, workspaceview
<1>1. CASE Refresh
  BY <1>1 DEF Refresh, Shows
<1>2. CASE OpenLink
  BY <1>2 DEF OpenLink, CarriedOut, AnsweredFor, From, To
<1>3. CASE MakeChecks \/ \E c \in Confirmation : Tick(c)
  BY <1>3 DEF MakeChecks, Tick
<1>4. CASE OnAcknowledge \/ OnComplete \/ OnCheckIn
  BY <1>4 DEF OnAcknowledge, OnComplete, OnCheckIn, Sends
<1>5. ASSUME NEW r \in Request, Replied(r) PROVE EntryIInv'
  <2>1. /\ busy = r /\ r # "refresh" /\ UNCHANGED <<lostReceipt, consent, compatible>>
        /\ busy' \in {"no", "start", "refresh"}
    BY <1>5 DEF Replied
  <2>2. UNCHANGED <<v2state, dueState>> \/ CarriedOut(r)
    BY <1>5 DEF Replied
  <2>3. UNCHANGED <<landing, live, receipt, polled>> \/ Shows("error") \/ Shows(landing)
    BY <1>5 DEF Replied
  <2>4. /\ landing' = "submitted" => landing = "submitted"
        /\ polled' = "submitted" => polled = "submitted"
    BY <2>3 DEF Shows
  <2>5. live' = "submitted" => landing = "submitted" \/ (live = "submitted" /\ receipt' = receipt)
    BY <2>3, Zenon DEF Shows
  <2>6. /\ v2state = "submitted" => v2state' = "submitted"
        /\ dueState = "submitted" => dueState' = "submitted"
    BY <2>2 DEF CarriedOut, AnsweredFor, From
  <2>7. receipt' => receipt
    BY <2>3, Zenon DEF Shows
  <2>. QED BY <2>1, <2>2, <2>4, <2>5, <2>6, <2>7 DEF CarriedOut, AnsweredFor, From, To, Request
<1>6. CASE Poll \/ Polled
  BY <1>6 DEF Poll, Polled
<1>7. CASE PauseOrResume
  BY <1>7 DEF PauseOrResume, SetState, Submitted
<1>8. CASE ReviewAndSubmit \/ SendFinalise \/ FinaliseFails
  BY <1>8 DEF ReviewAndSubmit, SendFinalise, FinaliseFails, AnsweredFor
<1>9. CASE FinaliseSucceeds
  BY <1>9 DEF FinaliseSucceeds, SetState, AnsweredFor
<1>10. CASE OtherTab
  BY <1>10 DEF OtherTab
<1>11. CASE CommitEntry \/ RollBackEntry
  <2>1. CASE CommitEntry
    BY <2>1 DEF CommitEntry
  <2>2. CASE RollBackEntry
    <3>1. /\ dueState' = "none"
          /\ UNCHANGED <<v2state, landing, busy, consent, compatible, live, polled>>
          /\ receipt' = receipt
      BY <2>2 DEF RollBackEntry
    <3>2. receipt /\ (dueState = "submitted" \/ lostReceipt) => lostReceipt'
      BY <2>2, Zenon DEF RollBackEntry
    <3>. QED BY <3>1, <3>2
  <2>. QED BY <1>11, <2>1, <2>2
<1>12. CASE UNCHANGED entryvars
  BY <1>12 DEF entryvars
<1>. QED
  BY <1>1, <1>2, <1>3, <1>4, <1>5, <1>6, <1>7, <1>8, <1>9, <1>10, <1>11, <1>12 DEF EntryPageNext

-------------------------------------------------------------------------------
(* The V2 workspace. *)

(* Every version the page, a request or an answer carries is one the       *)
(* artifact has had, or that of a save answered and not, or never, stored; *)
(* the artifact's only grows.                                              *)
Had(d, v) ==
  \/ v <= stored[d].version
  \/ v = stored[d].version + 1 /\ (d \in lostPuts \/ \E w \in duePut : w.slot = d)

HeadIInv ==
  /\ stored \in [DeliverableSlot -> ArtifactHead]
  /\ duePut \subseteq DueVersion /\ \A w, x \in duePut : w = x
  /\ \A w \in duePut : w.version = stored[w.slot].version + 1

WorkIInv ==
  /\ HeadIInv
  /\ listed \in [DeliverableSlot -> ArtifactHead]
  /\ editor \in [DeliverableSlot -> SUBSET ArtifactHead]
  /\ autosave \subseteq Save /\ put \in [Put -> SUBSET Flight]
  /\ \A d \in DeliverableSlot :
       listed[d].version <= stored[d].version /\ \A e \in editor[d] : Had(d, e.version)
  /\ \A s \in autosave : Had(s.slot, s.base)
  /\ \A p \in Put : \A f \in put[p] :
       Had(f.save.slot, f.save.base) /\ (f.at = "stored" => Had(f.save.slot, f.version))

LEMMA WorkInitial == ASSUME PageInit PROVE WorkIInv
  BY PageAssumption
  DEF PageInit, WorkIInv, HeadIInv, Blank, NoHead, ArtifactHead, Version, Had

LEMMA ShownHad ==
  ASSUME WorkIInv, NEW d \in DeliverableSlot
  PROVE  Shown(d) \in ArtifactHead /\ Had(d, Shown(d).version)
<1>1. NoHead \in ArtifactHead
  BY PageAssumption DEF NoHead, ArtifactHead, Version
<1>2. stored[d].version \in Nat
  BY DEF WorkIInv, HeadIInv, ArtifactHead, Version
<1>3. CASE editor[d] = {}
  BY <1>1, <1>2, <1>3 DEF Shown, Had, NoHead
<1>4. CASE editor[d] # {}
  <2>1. Shown(d) \in editor[d]
    BY <1>4 DEF Shown
  <2>. QED BY <2>1 DEF WorkIInv
<1>. QED BY <1>3, <1>4

LEMMA FlightRecords == Flight = [save : Save, at : PutStage, version : Version]
<1>1. ASSUME NEW f \in Flight PROVE f \in [save : Save, at : PutStage, version : Version]
  BY DEF Flight
<1>2. ASSUME NEW f \in [save : Save, at : PutStage, version : Version] PROVE f \in Flight
  <2>1. f = [save |-> f.save, at |-> f.at, version |-> f.version]
    OBVIOUS
  <2>. QED BY <2>1 DEF Flight
<1>. QED BY <1>1, <1>2

(* A save is written: what is due, and the mark of a loss gone.            *)
Written(s) ==
  /\ duePut = {} /\ UNCHANGED stored /\ stored[s.slot].version < MaxVersion
  /\ duePut' = {[slot |-> s.slot, version |-> stored[s.slot].version + 1, text |-> s.text]}
  /\ lostPuts' = lostPuts \ {s.slot}

(* The steps that touch what the server has been given.                    *)
LEMMA HeadMoves ==
  ASSUME [PageNext]_pagevars, put \in [Put -> SUBSET Flight]
  PROVE  \/ UNCHANGED <<stored, duePut, lostPuts>>
         \/ Reload \/ CommitPut \/ RollBackPut
         \/ \E s \in Save : Written(s)
         \/ \E d \in DeliverableSlot, text \in Text : OtherTabSaves(d, text)
<1>. USE DEF puttx
<1>1. CASE ListArtifacts \/ ArtifactsLoaded \/ Sync \/ DoFinalise
  BY <1>1 DEF ListArtifacts, ArtifactsLoaded, Sync, DoFinalise
<1>2. CASE \E d \in DeliverableSlot : FetchContent(d) \/ \E text \in Text : OnEdit(d, text)
  BY <1>2 DEF FetchContent, OnEdit
<1>3. ASSUME NEW p \in Put,
             SaveDraft(p) \/ Lose(p) \/ SaveSucceeds(p) \/ SaveConflicts(p) \/ SaveFails(p)
      PROVE  UNCHANGED <<stored, duePut, lostPuts>>
  BY <1>3 DEF SaveDraft, Lose, SaveSucceeds, SaveConflicts, SaveFails
<1>4. ASSUME NEW p \in Put, PutArtifact(p)
      PROVE  UNCHANGED <<stored, duePut, lostPuts>> \/ \E s \in Save : Written(s)
  <2>1. PICK f \in put[p] :
          \/ UNCHANGED <<stored, duePut, lostPuts>>
          \/ /\ duePut = {} /\ UNCHANGED stored /\ stored[f.save.slot].version < MaxVersion
             /\ duePut' = {[slot |-> f.save.slot, version |-> stored[f.save.slot].version + 1,
                            text |-> f.save.text]}
             /\ lostPuts' = lostPuts \ {f.save.slot}
    BY <1>4 DEF PutArtifact
  <2>2. f.save \in Save
    BY FlightRecords
  <2>. QED BY <2>1, <2>2 DEF Written
<1>5. CASE UNCHANGED pagevars
  BY <1>5 DEF pagevars
<1>. QED BY <1>1, <1>2, <1>3, <1>4, <1>5 DEF PageNext

LEMMA HeadStep ==
  ASSUME HeadIInv, put \in [Put -> SUBSET Flight], [PageNext]_pagevars
  PROVE  /\ HeadIInv'
         /\ \A d \in DeliverableSlot : stored[d].version <= stored'[d].version
         /\ ~Reload => \A d \in DeliverableSlot, v \in Version : Had(d, v) => Had(d, v)'
<1>. USE PageAssumption DEF HeadIInv, ArtifactHead, Version, DueVersion
<1>0. \A d \in DeliverableSlot : stored[d] \in ArtifactHead /\ stored[d].version \in Nat
  OBVIOUS
<1>1. CASE UNCHANGED <<stored, duePut, lostPuts>>
  BY <1>0, <1>1 DEF Had
<1>2. CASE Reload
  BY <1>0, <1>2 DEF Reload
<1>3. CASE CommitPut
  <2>1. PICK w \in duePut :
          /\ stored' = [stored EXCEPT ![w.slot] = [version |-> w.version, text |-> w.text]]
          /\ duePut' = {} /\ lostPuts' = lostPuts
    BY <1>3 DEF CommitPut
  <2>2. /\ w.slot \in DeliverableSlot /\ [version |-> w.version, text |-> w.text] \in ArtifactHead
        /\ w.version = stored[w.slot].version + 1
    OBVIOUS
  <2>3. \A d \in DeliverableSlot :
          stored'[d] = IF d = w.slot THEN [version |-> w.version, text |-> w.text] ELSE stored[d]
    BY <2>1
  <2>4. \A d \in DeliverableSlot :
          stored'[d].version = IF d = w.slot THEN stored[d].version + 1 ELSE stored[d].version
    BY <2>2, <2>3
  <2>5. stored' \in [DeliverableSlot -> ArtifactHead]
    BY <2>1, <2>2
  <2>6. \A x \in duePut : x.slot = w.slot
    OBVIOUS
  <2>7. ASSUME NEW d \in DeliverableSlot, NEW v \in Version, Had(d, v) PROVE Had(d, v)'
    BY <1>0, <2>1, <2>4, <2>6, <2>7 DEF Had
  <2>. QED BY <1>0, <2>1, <2>4, <2>5, <2>7
<1>4. CASE RollBackPut
  <2>1. PICK w \in duePut :
          UNCHANGED stored /\ duePut' = {} /\ lostPuts' = lostPuts \cup {w.slot}
    BY <1>4 DEF RollBackPut
  <2>2. \A x \in duePut : x.slot = w.slot
    OBVIOUS
  <2>. QED BY <1>0, <2>1, <2>2 DEF Had
<1>5. ASSUME NEW s \in Save, Written(s)
      PROVE  /\ HeadIInv'
             /\ \A d \in DeliverableSlot : stored[d].version <= stored'[d].version
             /\ \A d \in DeliverableSlot, v \in Version : Had(d, v) => Had(d, v)'
  <2>. DEFINE w == [slot |-> s.slot, version |-> stored[s.slot].version + 1, text |-> s.text]
  <2>1. w \in DueVersion /\ w.slot = s.slot /\ w.version = stored[s.slot].version + 1
    BY <1>0, <1>5 DEF Written, Save
  <2>2. UNCHANGED stored /\ duePut = {} /\ duePut' = {w} /\ lostPuts' = lostPuts \ {s.slot}
    BY <1>5 DEF Written
  <2>. HIDE DEF w
  <2>. QED BY <1>0, <2>1, <2>2 DEF Had
<1>6. ASSUME NEW c \in DeliverableSlot, NEW text \in Text, OtherTabSaves(c, text)
      PROVE  /\ HeadIInv'
             /\ \A d \in DeliverableSlot : stored[d].version <= stored'[d].version
             /\ \A d \in DeliverableSlot, v \in Version : Had(d, v) => Had(d, v)'
  <2>. DEFINE head == [version |-> stored[c].version + 1, text |-> text]
  <2>1. /\ stored' = [stored EXCEPT ![c] = head] /\ stored[c].version < MaxVersion
        /\ duePut = {} /\ UNCHANGED <<duePut, lostPuts>>
    BY <1>6 DEF OtherTabSaves, puttx
  <2>2. head \in ArtifactHead /\ head.version = stored[c].version + 1
    BY <1>0, <2>1
  <2>. HIDE DEF head
  <2>3. stored' \in [DeliverableSlot -> ArtifactHead]
    BY <2>1, <2>2
  <2>4. \A d \in DeliverableSlot :
          stored'[d].version = IF d = c THEN stored[d].version + 1 ELSE stored[d].version
    BY <2>1, <2>2
  <2>. QED BY <1>0, <2>1, <2>3, <2>4 DEF Had
<1>. QED BY <1>1, <1>2, <1>3, <1>4, <1>5, <1>6, HeadMoves

(* Where the heads do what they may, the page has to answer only for what  *)
(* it takes anew.                                                          *)
LEMMA WorkStep == ASSUME WorkIInv, [PageNext]_pagevars PROVE WorkIInv'
<1>. USE DEF opening
<1>. DEFINE Keeps == ~Reload => \A d \in DeliverableSlot, v \in Version : Had(d, v) => Had(d, v)'
<1>0. /\ HeadIInv' /\ Keeps
      /\ \A d \in DeliverableSlot : stored[d].version <= stored'[d].version
  BY HeadStep DEF WorkIInv
<1>. HIDE DEF Keeps
<1>t. /\ \A d \in DeliverableSlot : /\ stored[d].version \in Nat /\ stored'[d].version \in Nat
                                    /\ listed[d].version \in Nat /\ listed[d] \in ArtifactHead
                                    /\ \A e \in editor[d] : e.version \in Version
      /\ \A s \in autosave : s.slot \in DeliverableSlot /\ s.base \in Version
      /\ \A p \in Put : \A f \in put[p] :
           /\ f \in [save : Save, at : PutStage, version : Version]
           /\ f.save.slot \in DeliverableSlot /\ f.save.base \in Version /\ f.version \in Version
           /\ f.save.text \in Text
  BY <1>0, FlightRecords, PageAssumption DEF WorkIInv, HeadIInv, ArtifactHead, Version, Save
<1>a. UNCHANGED listed =>
        listed' \in [DeliverableSlot -> ArtifactHead] /\
        \A d \in DeliverableSlot : listed'[d].version <= stored'[d].version
  <2>1. \A d \in DeliverableSlot : listed[d].version <= stored[d].version
    BY DEF WorkIInv
  <2>. QED BY <1>0, <1>t, <2>1 DEF WorkIInv
<1>b. ASSUME ~Reload, UNCHANGED editor
      PROVE  /\ editor' \in [DeliverableSlot -> SUBSET ArtifactHead]
             /\ \A d \in DeliverableSlot : \A e \in editor'[d] : Had(d, e.version)'
  BY <1>0, <1>t, <1>b DEF Keeps, WorkIInv
<1>c. ASSUME ~Reload, UNCHANGED autosave \/ autosave' = {}
      PROVE  autosave' \subseteq Save /\ \A s \in autosave' : Had(s.slot, s.base)'
  BY <1>0, <1>t, <1>c DEF Keeps, WorkIInv
<1>d. ASSUME ~Reload, put' \in [Put -> SUBSET Flight],
             \A q \in Put : \A g \in put'[q] :
               \/ g \in put[q]
               \/ /\ Had(g.save.slot, g.save.base)'
                  /\ g.at = "stored" => Had(g.save.slot, g.version)'
      PROVE  \A q \in Put : \A g \in put'[q] :
               /\ Had(g.save.slot, g.save.base)'
               /\ g.at = "stored" => Had(g.save.slot, g.version)'
  <2>1. ASSUME NEW q \in Put, NEW g \in put[q]
        PROVE  /\ Had(g.save.slot, g.save.base)'
               /\ g.at = "stored" => Had(g.save.slot, g.version)'
    BY <1>0, <1>t, <1>d DEF Keeps, WorkIInv
  <2>. QED BY <1>d, <2>1
<1>e. ASSUME ~Reload, UNCHANGED put
      PROVE  /\ put' \in [Put -> SUBSET Flight]
             /\ \A q \in Put : \A g \in put'[q] :
                  /\ Had(g.save.slot, g.save.base)'
                  /\ g.at = "stored" => Had(g.save.slot, g.version)'
  BY <1>d, <1>e DEF WorkIInv
<1>1. CASE Reload
  <2>1. \A d \in DeliverableSlot : listed'[d] \in ArtifactHead /\ listed'[d].version = 0
    BY <1>1, PageAssumption DEF Reload, NoHead, ArtifactHead, Version
  <2>2. /\ listed' \in [DeliverableSlot -> ArtifactHead]
        /\ \A d \in DeliverableSlot : listed'[d].version <= stored'[d].version
    BY <1>1, <1>t, <2>1 DEF Reload
  <2>. QED BY <1>0, <1>1, <2>2 DEF Reload, Blank, WorkIInv
<1>2. CASE ~Reload /\ UNCHANGED <<listed, editor, autosave, put>>
  BY <1>0, <1>2, <1>a, <1>b, <1>c, <1>e DEF WorkIInv
<1>3. CASE ~Reload /\ ListArtifacts
  <2>1. UNCHANGED <<editor, autosave, put>> /\ stored' = stored
    BY <1>3 DEF ListArtifacts
  <2>2. /\ listed' \in [DeliverableSlot -> ArtifactHead]
        /\ \A d \in DeliverableSlot : listed'[d].version <= stored'[d].version
    <3>1. CASE UNCHANGED listed
      BY <1>a, <3>1
    <3>2. CASE listed' = [d \in DeliverableSlot |-> [stored[d] EXCEPT !.text = NoText]]
      <4>1. ASSUME NEW d \in DeliverableSlot
            PROVE  /\ [stored[d] EXCEPT !.text = NoText] \in ArtifactHead
                   /\ [stored[d] EXCEPT !.text = NoText].version = stored[d].version
        BY PageAssumption DEF WorkIInv, HeadIInv, ArtifactHead
      <4>2. \A d \in DeliverableSlot :
              listed'[d] \in ArtifactHead /\ listed'[d].version = stored[d].version
        BY <3>2, <4>1
      <4>3. \A d \in DeliverableSlot : listed'[d].version <= stored'[d].version
        BY <1>t, <2>1, <4>2
      <4>. QED BY <3>2, <4>2, <4>3
    <3>. QED BY <1>3, <3>1, <3>2 DEF ListArtifacts
  <2>. QED BY <1>0, <1>3, <2>1, <2>2, <1>b, <1>c, <1>e DEF WorkIInv
<1>4. ASSUME ~Reload, NEW d \in DeliverableSlot, FetchContent(d) PROVE WorkIInv'
  <2>1. UNCHANGED <<editor, autosave, put>> /\ stored' = stored
    BY <1>4 DEF FetchContent
  <2>2. /\ listed' \in [DeliverableSlot -> ArtifactHead]
        /\ \A c \in DeliverableSlot : listed'[c].version <= stored'[c].version
    <3>1. CASE UNCHANGED listed
      BY <1>a, <3>1
    <3>2. CASE listed' = [listed EXCEPT ![d].text = stored[d].text]
      <4>. DEFINE head == [listed[d] EXCEPT !.text = stored[d].text]
      <4>1. head \in ArtifactHead /\ head.version = listed[d].version
        BY DEF WorkIInv, HeadIInv, ArtifactHead
      <4>2. listed' = [listed EXCEPT ![d] = head]
        BY <3>2
      <4>. HIDE DEF head
      <4>. QED BY <2>1, <4>1, <4>2 DEF WorkIInv
    <3>. QED BY <1>4, <3>1, <3>2 DEF FetchContent
  <2>. QED BY <1>0, <1>4, <2>1, <2>2, <1>b, <1>c, <1>e DEF WorkIInv
<1>5. CASE ~Reload /\ ArtifactsLoaded
  <2>1. UNCHANGED <<listed, autosave, put>> /\ stored' = stored
    BY <1>5 DEF ArtifactsLoaded
  <2>2. \A d \in DeliverableSlot : editor'[d] = {listed[d]} \/ editor'[d] = editor[d]
    BY <1>5 DEF ArtifactsLoaded
  <2>3. editor' \in [DeliverableSlot -> SUBSET ArtifactHead]
    BY <1>5, <1>t DEF ArtifactsLoaded, WorkIInv
  <2>4. ASSUME NEW d \in DeliverableSlot, NEW e \in editor'[d] PROVE Had(d, e.version)'
    <3>1. CASE e = listed[d]
      BY <1>a, <2>1, <3>1 DEF Had
    <3>2. CASE e \in editor[d]
      BY <1>0, <1>5, <1>t, <3>2 DEF Keeps, WorkIInv
    <3>. QED BY <2>2, <3>1, <3>2
  <2>. QED BY <1>0, <1>5, <2>1, <2>3, <2>4, <1>a, <1>c, <1>e DEF WorkIInv
<1>6. ASSUME ~Reload, NEW d \in DeliverableSlot, NEW text \in Text, OnEdit(d, text) PROVE WorkIInv'
  <2>1. PICK v \in Version : v = Shown(d).version /\ Had(d, v)
    BY ShownHad DEF ArtifactHead
  <2>. DEFINE head == [version |-> v, text |-> text]
              sent == [slot |-> d, text |-> text, base |-> v]
  <2>2. /\ head \in ArtifactHead /\ sent \in Save
        /\ head.version = v /\ sent.slot = d /\ sent.base = v
    BY DEF Save, ArtifactHead
  <2>3. /\ editor' = [editor EXCEPT ![d] = {head}] /\ autosave' = {sent}
        /\ UNCHANGED <<listed, put>>
    BY <1>6, <2>1 DEF OnEdit
  <2>4. Had(d, v)'
    BY <1>0, <1>6, <2>1 DEF Keeps
  <2>. HIDE DEF head, sent
  <2>5. editor' \in [DeliverableSlot -> SUBSET ArtifactHead]
    BY <2>2, <2>3 DEF WorkIInv
  <2>6. \A c \in DeliverableSlot : \A e \in editor'[c] : e \in editor[c] \/ (c = d /\ e = head)
    BY <2>3 DEF WorkIInv
  <2>7. \A c \in DeliverableSlot : \A e \in editor'[c] : Had(c, e.version)'
    BY <1>0, <1>6, <1>t, <2>2, <2>4, <2>6 DEF Keeps, WorkIInv
  <2>8. autosave' \subseteq Save /\ \A s \in autosave' : Had(s.slot, s.base)'
    BY <2>2, <2>3, <2>4
  <2>. QED BY <1>0, <1>6, <2>3, <2>5, <2>7, <2>8, <1>a, <1>e DEF WorkIInv
<1>7. ASSUME ~Reload, NEW p \in Put, SaveDraft(p) PROVE WorkIInv'
  <2>1. /\ UNCHANGED <<listed, editor>> /\ autosave' = {}
        /\ put' = [put EXCEPT ![p] = {[save |-> s, at |-> "sent", version |-> 0] : s \in autosave}]
    BY <1>7 DEF SaveDraft
  <2>2. \A s \in autosave : [save |-> s, at |-> "sent", version |-> 0] \in Flight
    BY PageAssumption, FlightRecords DEF WorkIInv, PutStage, Version
  <2>3. put' \in [Put -> SUBSET Flight]
    BY <2>1, <2>2 DEF WorkIInv
  <2>4. \A q \in Put : \A g \in put'[q] :
          g \in put[q] \/ (g.save \in autosave /\ g.at # "stored")
    BY <2>1 DEF WorkIInv
  <2>5. \A s \in autosave : Had(s.slot, s.base)'
    BY <1>0, <1>7, <1>t DEF Keeps, WorkIInv
  <2>. QED BY <1>0, <1>7, <2>1, <2>3, <2>4, <2>5, <1>a, <1>b, <1>c, <1>d DEF WorkIInv
<1>8. ASSUME ~Reload, NEW p \in Put, NEW f \in put[p], NEW reply \in PutStage, NEW v \in Version,
             put' = [put EXCEPT ![p] = {[f EXCEPT !.at = reply, !.version = v]}],
             reply = "stored" => Had(f.save.slot, v)',
             UNCHANGED <<listed, editor, autosave>>
      PROVE  WorkIInv'
  <2>. DEFINE g == [f EXCEPT !.at = reply, !.version = v]
  <2>1. g \in Flight /\ g.save = f.save /\ g.at = reply /\ g.version = v
    BY <1>t, FlightRecords
  <2>2. put' = [put EXCEPT ![p] = {g}]
    BY <1>8
  <2>. HIDE DEF g
  <2>3. /\ put' \in [Put -> SUBSET Flight]
        /\ \A q \in Put : \A h \in put'[q] : h \in put[q] \/ h = g
    BY <2>1, <2>2 DEF WorkIInv
  <2>4. Had(f.save.slot, f.save.base)'
    BY <1>0, <1>8, <1>t DEF Keeps, WorkIInv
  <2>5. Had(g.save.slot, g.save.base)' /\ (g.at = "stored" => Had(g.save.slot, g.version)')
    BY <1>8, <2>1, <2>4
  <2>. QED BY <1>0, <1>8, <2>3, <2>5, <1>a, <1>b, <1>c, <1>d DEF WorkIInv
<1>9. ASSUME ~Reload, NEW p \in Put, PutArtifact(p) \/ Lose(p) PROVE WorkIInv'
  <2>1. UNCHANGED <<listed, editor, autosave>>
    BY <1>9 DEF PutArtifact, Lose
  <2>2. PICK f \in put[p] :
          \/ \E reply \in {"refused", "conflict", "lost"} : Answered(p, f, reply, 0)
          \/ Answered(p, f, "stored", stored[f.save.slot].version + 1) /\ Written(f.save)
    BY <1>9 DEF PutArtifact, Lose, Written
  <2>3. CASE \E reply \in {"refused", "conflict", "lost"} : Answered(p, f, reply, 0)
    <3>1. PICK reply \in {"refused", "conflict", "lost"} : Answered(p, f, reply, 0)
      BY <2>3
    <3>2. 0 \in Version /\ reply \in PutStage /\ reply # "stored"
      BY PageAssumption DEF Version, PutStage
    <3>3. put' = [put EXCEPT ![p] = {[f EXCEPT !.at = reply, !.version = 0]}]
      BY <3>1 DEF Answered
    <3>. QED BY <1>8, <1>9, <2>1, <3>2, <3>3
  <2>4. CASE Answered(p, f, "stored", stored[f.save.slot].version + 1) /\ Written(f.save)
    <3>1. PICK v \in Version : v = stored[f.save.slot].version + 1
      BY <1>t, <2>4, PageAssumption DEF Version, Written
    <3>2. "stored" \in PutStage
      BY DEF PutStage
    <3>3. Had(f.save.slot, v)'
      BY <2>4, <3>1 DEF Written, Had
    <3>4. put' = [put EXCEPT ![p] = {[f EXCEPT !.at = "stored", !.version = v]}]
      BY <2>4, <3>1 DEF Answered
    <3>. QED BY <1>8, <1>9, <2>1, <3>2, <3>3, <3>4
  <2>. QED BY <2>2, <2>3, <2>4
<1>10. ASSUME ~Reload, NEW p \in Put, SaveSucceeds(p) \/ SaveConflicts(p) \/ SaveFails(p)
       PROVE  WorkIInv'
  <2>1. UNCHANGED <<listed, autosave>> /\ stored' = stored
    BY <1>10 DEF SaveSucceeds, SaveConflicts, SaveFails
  <2>2. /\ put' \in [Put -> SUBSET Flight]
        /\ \A q \in Put : put'[q] \subseteq put[q]
    BY <1>10 DEF SaveSucceeds, SaveConflicts, SaveFails, Land, WorkIInv
  <2>3. editor' = editor \/ \E f \in put[p], v \in Version :
          /\ editor' = [editor EXCEPT ![f.save.slot] = {[version |-> v, text |-> f.save.text]}]
          /\ Had(f.save.slot, v)
    <3>1. CASE SaveFails(p)
      BY <3>1 DEF SaveFails
    <3>2. CASE SaveSucceeds(p)
      <4>1. PICK f \in put[p] : f.at = "stored" /\ Land(p, f, f.version)
        BY <3>2 DEF SaveSucceeds
      <4>2. f.version \in Version /\ Had(f.save.slot, f.version)
        BY <1>t, <4>1 DEF WorkIInv
      <4>. QED BY <4>1, <4>2 DEF Land
    <3>3. CASE SaveConflicts(p)
      <4>1. PICK f \in put[p] : Land(p, f, stored[f.save.slot].version) \/ Land(p, f, f.save.base)
        BY <3>3 DEF SaveConflicts
      <4>2. f.save.base \in Version /\ Had(f.save.slot, f.save.base)
        BY <1>t DEF WorkIInv
      <4>3. stored[f.save.slot].version \in Version /\ Had(f.save.slot, stored[f.save.slot].version)
        BY <1>t DEF WorkIInv, HeadIInv, ArtifactHead, Had
      <4>. QED BY <4>1, <4>2, <4>3 DEF Land
    <3>. QED BY <1>10, <3>1, <3>2, <3>3
  <2>4. CASE editor' = editor
    BY <1>0, <1>10, <2>1, <2>2, <2>4, <1>a, <1>b, <1>c, <1>d DEF WorkIInv
  <2>5. ASSUME NEW f \in put[p], NEW v \in Version, Had(f.save.slot, v),
               editor' = [editor EXCEPT ![f.save.slot] = {[version |-> v, text |-> f.save.text]}]
        PROVE  WorkIInv'
    <3>. DEFINE head == [version |-> v, text |-> f.save.text]
    <3>1. head \in ArtifactHead /\ head.version = v
      BY <1>t DEF ArtifactHead
    <3>2. editor' = [editor EXCEPT ![f.save.slot] = {head}]
      BY <2>5
    <3>. HIDE DEF head
    <3>3. /\ editor' \in [DeliverableSlot -> SUBSET ArtifactHead]
          /\ \A d \in DeliverableSlot : \A e \in editor'[d] :
               e \in editor[d] \/ (d = f.save.slot /\ e = head)
      BY <3>1, <3>2 DEF WorkIInv
    <3>4. \A d \in DeliverableSlot : \A e \in editor'[d] : Had(d, e.version)'
      BY <1>0, <1>10, <1>t, <2>5, <3>1, <3>3 DEF Keeps, WorkIInv
    <3>. QED BY <1>0, <1>10, <2>1, <2>2, <3>3, <3>4, <1>a, <1>c, <1>d DEF WorkIInv
  <2>. QED BY <2>3, <2>4, <2>5
<1>11. ASSUME \/ Sync \/ DoFinalise \/ CommitPut \/ RollBackPut \/ UNCHANGED pagevars
              \/ \E d \in DeliverableSlot, text \in Text : OtherTabSaves(d, text)
       PROVE  UNCHANGED <<listed, editor, autosave, put>>
  BY <1>11 DEF Sync, DoFinalise, CommitPut, RollBackPut, OtherTabSaves, pagevars
<1>. QED
  BY <1>1, <1>2, <1>3, <1>4, <1>5, <1>6, <1>7, <1>9, <1>10, <1>11 DEF PageNext

(* A version with its text that is the last the server has been given, or  *)
(* an earlier one.                                                         *)
Held(d, version, text) ==
  \/ version < Latest(d).version
  \/ version = Latest(d).version /\ text = Latest(d).text

(* What the listing brought and what an answer says was stored are held;   *)
(* so is everything a page shows that says "saved" and is to save nothing. *)
ListedHeld ==
  \A d \in DeliverableSlot \ unfetched :
    listed[d].version > 0 => Held(d, listed[d].version, listed[d].text)
AnswersHeld ==
  \A p \in Put : \A f \in put[p] :
    f.at = "stored" => Held(f.save.slot, f.version, f.save.text)
ShownHeld ==
  shown = "saved" /\ autosave = {} =>
    \A d \in DeliverableSlot : \A e \in editor[d] : Held(d, e.version, e.text)
SavedIInv == ListedHeld /\ AnswersHeld /\ ShownHeld

LEMMA LatestIs ==
  ASSUME HeadIInv, NEW d \in DeliverableSlot
  PROVE  /\ (\A w \in duePut : w.slot # d) => Latest(d) = stored[d]
         /\ \A w \in duePut : w.slot = d =>
              Latest(d) = [version |-> stored[d].version + 1, text |-> w.text]
         /\ Latest(d).version \in Nat /\ stored[d].version <= Latest(d).version
<1>1. stored[d].version \in Nat
  BY PageAssumption DEF HeadIInv, ArtifactHead, Version
<1>2. CASE \A w \in duePut : w.slot # d
  BY <1>1, <1>2 DEF Latest
<1>3. ASSUME NEW w \in duePut, w.slot = d
      PROVE  Latest(d) = [version |-> stored[d].version + 1, text |-> w.text]
  <2>1. (CHOOSE x \in duePut : TRUE) = w
    BY DEF HeadIInv
  <2>2. w.version = stored[d].version + 1
    BY <1>3 DEF HeadIInv
  <2>. QED BY <1>3, <2>1, <2>2 DEF Latest
<1>. QED BY <1>1, <1>2, <1>3

(* What the server has been given last stays, or a version is added to it, *)
(* where no COMMIT is lost.                                                *)
LEMMA LatestGrows ==
  ASSUME WorkIInv, lostPuts' = {}, [PageNext]_pagevars, NEW d \in DeliverableSlot
  PROVE  Latest(d)' = Latest(d) \/ Latest(d)'.version = Latest(d).version + 1
<1>0. /\ HeadIInv /\ HeadIInv' /\ put \in [Put -> SUBSET Flight]
  BY HeadStep DEF WorkIInv
<1>1. CASE UNCHANGED <<stored, duePut>>
  BY <1>1 DEF Latest
<1>2. CASE CommitPut
  <2>1. PICK w \in duePut :
          /\ stored' = [stored EXCEPT ![w.slot] = [version |-> w.version, text |-> w.text]]
          /\ duePut' = {}
    BY <1>2 DEF CommitPut
  <2>2. Latest(d)' = stored'[d]
    BY <2>1 DEF Latest
  <2>3. /\ w.version = stored[w.slot].version + 1 /\ \A x \in duePut : x = w
        /\ stored'[d] = IF d = w.slot THEN [version |-> w.version, text |-> w.text] ELSE stored[d]
    BY <1>0, <2>1 DEF HeadIInv
  <2>4. CASE d = w.slot
    <3>1. Latest(d) = [version |-> stored[d].version + 1, text |-> w.text]
      BY <1>0, <2>4, LatestIs
    <3>. QED BY <2>2, <2>3, <2>4, <3>1
  <2>5. CASE d # w.slot
    <3>1. Latest(d) = stored[d]
      BY <1>0, <2>3, <2>5, LatestIs
    <3>. QED BY <2>2, <2>3, <2>5, <3>1
  <2>. QED BY <2>4, <2>5
<1>3. CASE RollBackPut
  BY <1>3 DEF RollBackPut
<1>4. ASSUME NEW s \in Save, Written(s)
      PROVE  Latest(d)' = Latest(d) \/ Latest(d)'.version = Latest(d).version + 1
  <2>. DEFINE w == [slot |-> s.slot, version |-> stored[s.slot].version + 1, text |-> s.text]
  <2>1. w.slot = s.slot /\ w.version = stored[s.slot].version + 1
    OBVIOUS
  <2>2. stored' = stored /\ duePut = {} /\ duePut' = {w}
    BY <1>4 DEF Written
  <2>. HIDE DEF w
  <2>3. Latest(d) = stored[d]
    BY <2>2 DEF Latest
  <2>4. CASE s.slot = d
    <3>1. (CHOOSE x \in duePut' : TRUE) = w /\ \E x \in duePut' : x.slot = d
      BY <2>1, <2>2, <2>4
    <3>2. Latest(d)' = [version |-> w.version, text |-> w.text]
      BY <3>1 DEF Latest
    <3>. QED BY <2>1, <2>3, <2>4, <3>2
  <2>5. CASE s.slot # d
    BY <2>1, <2>2, <2>3, <2>5 DEF Latest
  <2>. QED BY <2>4, <2>5
<1>5. ASSUME NEW c \in DeliverableSlot, NEW text \in Text, OtherTabSaves(c, text)
      PROVE  Latest(d)' = Latest(d) \/ Latest(d)'.version = Latest(d).version + 1
  <2>1. /\ stored' = [stored EXCEPT ![c] = [version |-> stored[c].version + 1, text |-> text]]
        /\ duePut = {} /\ duePut' = {}
    BY <1>5 DEF OtherTabSaves, puttx
  <2>2. Latest(d) = stored[d] /\ Latest(d)' = stored'[d]
    BY <2>1 DEF Latest
  <2>3. stored'[d] = IF d = c THEN [version |-> stored[c].version + 1, text |-> text] ELSE stored[d]
    BY <1>0, <2>1 DEF HeadIInv
  <2>. QED BY <2>2, <2>3
<1>6. CASE Reload
  BY <1>1, <1>6 DEF Reload
<1>. QED BY <1>0, <1>1, <1>2, <1>3, <1>4, <1>5, <1>6, HeadMoves

(* What the server has been given it goes on holding.                      *)
LEMMA HeldStays ==
  ASSUME WorkIInv, lostPuts' = {}, [PageNext]_pagevars,
         NEW d \in DeliverableSlot, NEW v \in Version, NEW text, Held(d, v, text)
  PROVE  Held(d, v, text)'
<1>1. Latest(d).version \in Nat /\ v \in Nat
  BY LatestIs, PageAssumption DEF WorkIInv, Version
<1>2. Latest(d)' = Latest(d) \/ Latest(d)'.version = Latest(d).version + 1
  BY LatestGrows
<1>. QED BY <1>1, <1>2 DEF Held

LEMMA SavedInitial == ASSUME PageInit PROVE SavedIInv
  BY DEF PageInit, SavedIInv, ListedHeld, AnswersHeld, ShownHeld, Blank, NoHead

(* The conditions under which "saved" is the truth: the poll has not yet   *)
(* called the page offline, no COMMIT of an answered save was lost, and no *)
(* content could not be read.                                              *)
Undisturbed == shown # "offline" /\ lostPuts = {} /\ unread = {}

(* With one deliverable the pending timer is that deliverable's, and a     *)
(* save that comes back brings all there is to show.                       *)
LEMMA SavedStep ==
  ASSUME \A c, d \in DeliverableSlot : c = d,
         WorkIInv, SavedIInv, Undisturbed, Undisturbed', [PageNext]_pagevars
  PROVE  SavedIInv'
<1>. USE DEF opening
<1>0. /\ WorkIInv' /\ HeadIInv /\ HeadIInv'
      /\ \A d \in DeliverableSlot : listed[d] \in ArtifactHead
  BY WorkStep DEF WorkIInv
<1>h. ASSUME NEW d \in DeliverableSlot, NEW v \in Version, NEW text, Held(d, v, text)
      PROVE  Held(d, v, text)'
  BY <1>h, HeldStays DEF Undisturbed
<1>t. /\ \A d \in DeliverableSlot : listed[d].version \in Version
      /\ \A d \in DeliverableSlot : \A e \in editor[d] : e.version \in Version
      /\ \A p \in Put : \A f \in put[p] :
           /\ f \in [save : Save, at : PutStage, version : Version]
           /\ f.save.slot \in DeliverableSlot /\ f.version \in Version
  BY FlightRecords DEF WorkIInv, ArtifactHead, Save
<1>a. ASSUME UNCHANGED <<listed, unfetched>> PROVE ListedHeld'
  <2>1. ASSUME NEW d \in DeliverableSlot \ unfetched, listed[d].version > 0
        PROVE  \/ listed[d].version < Latest(d)'.version
               \/ listed[d].version = Latest(d)'.version /\ listed[d].text = Latest(d)'.text
    <3>1. PICK v, text : v \in Version /\ v = listed[d].version /\ text = listed[d].text
      BY <1>t
    <3>2. Held(d, v, text)'
      BY <1>h, <2>1, <3>1 DEF SavedIInv, ListedHeld
    <3>. QED BY <3>1, <3>2 DEF Held
  <2>. QED BY <1>a, <2>1 DEF ListedHeld, Held
<1>b. ASSUME \A q \in Put : \A g \in put'[q] : g \in put[q] \/ g.at # "stored"
      PROVE  AnswersHeld'
  BY <1>b, <1>h, <1>t DEF SavedIInv, AnswersHeld
<1>c. ASSUME UNCHANGED <<editor, shown, autosave>> PROVE ShownHeld'
  BY <1>c, <1>h, <1>t DEF SavedIInv, ShownHeld
<1>d. ASSUME shown' # "saved" \/ autosave' # {} PROVE ShownHeld'
  BY <1>d DEF ShownHeld
<1>1. CASE ListArtifacts
  <2>1. UNCHANGED <<editor, shown, autosave, put>>
    BY <1>1 DEF ListArtifacts
  <2>2. CASE UNCHANGED <<listed, unfetched>>
    BY <2>1, <2>2, <1>a, <1>b, <1>c DEF SavedIInv
  <2>3. CASE /\ listed' = [d \in DeliverableSlot |-> [stored[d] EXCEPT !.text = NoText]]
             /\ unfetched' = {d \in DeliverableSlot : stored[d].version > 0}
    <3>1. \A d \in DeliverableSlot : [stored[d] EXCEPT !.text = NoText].version = stored[d].version
      BY <1>0 DEF HeadIInv, ArtifactHead
    <3>2. \A d \in DeliverableSlot : listed'[d].version = stored[d].version
      BY <2>3, <3>1
    <3>3. ListedHeld'
      BY <2>3, <3>2 DEF ListedHeld
    <3>. QED BY <2>1, <3>3, <1>b, <1>c DEF SavedIInv
  <2>. QED BY <1>1, <2>2, <2>3 DEF ListArtifacts
<1>2. ASSUME NEW d \in DeliverableSlot, FetchContent(d) PROVE SavedIInv'
  <2>1. /\ UNCHANGED <<stored, editor, shown, autosave, put, duePut>>
        /\ d \in unfetched /\ unfetched' = unfetched \ {d}
    BY <1>2 DEF FetchContent, puttx
  <2>2. listed' = [listed EXCEPT ![d].text = stored[d].text]
    BY <1>2 DEF FetchContent, Undisturbed
  <2>3. listed'[d].version = listed[d].version /\ listed'[d].text = stored[d].text
    BY <1>0, <2>2 DEF WorkIInv, ArtifactHead
  <2>4. Held(d, listed[d].version, stored[d].text)
    <3>1. /\ listed[d].version <= stored[d].version /\ listed[d].version \in Nat
          /\ stored[d].version \in Nat
      BY PageAssumption DEF WorkIInv, HeadIInv, ArtifactHead, Version
    <3>2. CASE \A w \in duePut : w.slot # d
      BY <1>0, <3>1, <3>2, LatestIs DEF Held
    <3>3. ASSUME NEW w \in duePut, w.slot = d PROVE Held(d, listed[d].version, stored[d].text)
      <4>1. Latest(d).version = stored[d].version + 1
        BY <1>0, <3>3, LatestIs
      <4>. QED BY <3>1, <4>1 DEF Held
    <3>. QED BY <3>2, <3>3
  <2>5. \A c \in DeliverableSlot : c = d
    OBVIOUS
  <2>6. Latest(d)' = Latest(d)
    BY <2>1 DEF Latest
  <2>7. ListedHeld'
    BY <2>3, <2>4, <2>5, <2>6 DEF ListedHeld, Held
  <2>. QED BY <2>1, <2>7, <1>b, <1>c DEF SavedIInv
<1>3. CASE ArtifactsLoaded
  <2>1. UNCHANGED <<listed, unfetched, shown, autosave, put>> /\ unfetched = {}
    BY <1>3 DEF ArtifactsLoaded
  <2>2. \A d \in DeliverableSlot :
          \/ editor'[d] = {listed[d]} /\ listed[d].version > 0
          \/ editor'[d] = editor[d]
    BY <1>3 DEF ArtifactsLoaded
  <2>3. ASSUME shown' = "saved", autosave' = {}, NEW d \in DeliverableSlot, NEW e \in editor'[d]
        PROVE  Held(d, e.version, e.text)'
    <3>1. CASE e \in editor[d]
      BY <1>h, <1>t, <2>1, <2>3, <3>1 DEF SavedIInv, ShownHeld
    <3>2. CASE e = listed[d] /\ listed[d].version > 0
      BY <1>h, <1>t, <2>1, <3>2 DEF SavedIInv, ListedHeld
    <3>. QED BY <2>2, <3>1, <3>2
  <2>4. ShownHeld'
    BY <2>3 DEF ShownHeld
  <2>. QED BY <2>1, <2>4, <1>a, <1>b DEF SavedIInv
<1>4. CASE Reload
  <2>1. \A d \in DeliverableSlot : listed'[d].version = 0
    BY <1>4 DEF Reload, NoHead
  <2>2. ListedHeld'
    BY <2>1 DEF ListedHeld
  <2>3. AnswersHeld' /\ ShownHeld'
    BY <1>4 DEF Reload, Blank, AnswersHeld, ShownHeld
  <2>. QED BY <2>2, <2>3 DEF SavedIInv
<1>5. CASE Sync
  BY <1>5 DEF Sync, Undisturbed
<1>6. ASSUME NEW d \in DeliverableSlot, NEW text \in Text, OnEdit(d, text) PROVE SavedIInv'
  <2>1. UNCHANGED <<listed, unfetched, put>> /\ autosave' # {}
    BY <1>6 DEF OnEdit
  <2>. QED BY <2>1, <1>a, <1>b, <1>d DEF SavedIInv
<1>7. ASSUME NEW p \in Put, SaveDraft(p) PROVE SavedIInv'
  <2>1. \A q \in Put : \A f \in put'[q] : f \in put[q] \/ f.at = "sent"
    BY <1>7 DEF SaveDraft, WorkIInv
  <2>2. UNCHANGED <<listed, unfetched>> /\ shown' = "saving"
    BY <1>7 DEF SaveDraft
  <2>. QED BY <2>1, <2>2, <1>a, <1>b, <1>d DEF SavedIInv
<1>8. ASSUME NEW p \in Put, PutArtifact(p) \/ Lose(p) PROVE SavedIInv'
  <2>1. PICK f \in put[p] :
          \/ \E reply \in {"refused", "conflict", "lost"} : Answered(p, f, reply, 0)
          \/ Answered(p, f, "stored", stored[f.save.slot].version + 1) /\ Written(f.save)
    BY <1>8 DEF PutArtifact, Lose, Written
  <2>2. UNCHANGED <<listed, unfetched, editor, shown, autosave>>
    BY <1>8 DEF PutArtifact, Lose
  <2>3. /\ f \in [save : Save, at : PutStage, version : Version]
        /\ f.save.slot \in DeliverableSlot
    BY <1>t
  <2>4. ASSUME NEW reply \in {"refused", "conflict", "lost"}, Answered(p, f, reply, 0)
        PROVE  SavedIInv'
    <3>1. \A q \in Put : \A g \in put'[q] : g \in put[q] \/ g.at # "stored"
      BY <2>3, <2>4 DEF Answered, WorkIInv
    <3>. QED BY <2>2, <3>1, <1>a, <1>b, <1>c DEF SavedIInv
  <2>5. CASE Answered(p, f, "stored", stored[f.save.slot].version + 1) /\ Written(f.save)
    <3>1. PICK v : v = stored[f.save.slot].version + 1
      OBVIOUS
    <3>. DEFINE g == [f EXCEPT !.at = "stored", !.version = v]
                w == [slot |-> f.save.slot, version |-> v, text |-> f.save.text]
    <3>2. g.save = f.save /\ g.version = v
      BY <2>3
    <3>3. w.slot = f.save.slot /\ w.version = v /\ w.text = f.save.text
      OBVIOUS
    <3>4. duePut' = {w} /\ stored' = stored
      BY <2>5, <3>1 DEF Written
    <3>5. \A q \in Put : \A h \in put'[q] : h \in put[q] \/ h = g
      BY <2>5, <3>1 DEF Answered, WorkIInv
    <3>. HIDE DEF g, w
    <3>6. (CHOOSE x \in duePut' : TRUE) = w /\ \E x \in duePut' : x.slot = f.save.slot
      BY <3>3, <3>4
    <3>7. Latest(f.save.slot)' = [version |-> v, text |-> f.save.text]
      BY <3>3, <3>6 DEF Latest
    <3>8. Held(g.save.slot, g.version, g.save.text)'
      BY <3>2, <3>7 DEF Held
    <3>9. AnswersHeld'
      BY <3>5, <3>8, <1>h, <1>t DEF SavedIInv, AnswersHeld
    <3>. QED BY <2>2, <3>9, <1>a, <1>c DEF SavedIInv
  <2>. QED BY <2>1, <2>4, <2>5
<1>9. ASSUME NEW p \in Put, SaveSucceeds(p) PROVE SavedIInv'
  <2>1. PICK f \in put[p] : f.at = "stored" /\ Land(p, f, f.version)
    BY <1>9 DEF SaveSucceeds
  <2>2. f.save.slot \in DeliverableSlot /\ f.version \in Version
    BY <1>t
  <2>3. Held(f.save.slot, f.version, f.save.text)'
    BY <1>h, <2>1, <2>2 DEF SavedIInv, AnswersHeld
  <2>4. UNCHANGED <<listed, unfetched>> /\ \A q \in Put : put'[q] \subseteq put[q]
    BY <1>9, <2>1 DEF SaveSucceeds, Land, WorkIInv
  <2>5. \A d \in DeliverableSlot : d = f.save.slot
    BY <2>2
  <2>6. \A d \in DeliverableSlot : editor'[d] = {[version |-> f.version, text |-> f.save.text]}
    BY <2>1, <2>2, <2>5 DEF Land, WorkIInv
  <2>7. \A d \in DeliverableSlot : \A e \in editor'[d] : Held(d, e.version, e.text)'
    BY <2>3, <2>5, <2>6
  <2>8. ShownHeld'
    BY <2>7 DEF ShownHeld
  <2>. QED BY <2>4, <2>8, <1>a, <1>b DEF SavedIInv
<1>10. ASSUME NEW p \in Put, SaveConflicts(p) \/ SaveFails(p) PROVE SavedIInv'
  <2>1. /\ UNCHANGED <<listed, unfetched>> /\ shown' = "error"
        /\ \A q \in Put : put'[q] \subseteq put[q]
    BY <1>10 DEF SaveConflicts, SaveFails, Land, WorkIInv
  <2>. QED BY <2>1, <1>a, <1>b, <1>d DEF SavedIInv
<1>11. ASSUME \/ DoFinalise \/ CommitPut \/ RollBackPut \/ UNCHANGED pagevars
              \/ \E d \in DeliverableSlot, text \in Text : OtherTabSaves(d, text)
       PROVE  SavedIInv'
  <2>1. UNCHANGED <<listed, unfetched, editor, shown, autosave, put>>
    BY <1>11 DEF DoFinalise, CommitPut, RollBackPut, OtherTabSaves, pagevars
  <2>. QED BY <2>1, <1>a, <1>b, <1>c DEF SavedIInv
<1>. QED
  BY <1>1, <1>2, <1>3, <1>4, <1>5, <1>6, <1>7, <1>8, <1>9, <1>10, <1>11 DEF PageNext

(* "Saved" is the truth of a pack with one deliverable while every answer  *)
(* is kept and every content read, until the poll has once called the page *)
(* offline: requests and answers may be lost, the transaction be open,     *)
(* another tab save, saves overtake one another.  What makes it untrue is  *)
(* the one timer that all slots share (WorkspacePage.tsx:139), the poll    *)
(* that writes "saved" over an error it knows nothing of (:67), the save   *)
(* answered and rolled back (v2/runtime.ts:606) and the content that could *)
(* not be had, shown as empty (WorkspacePage.tsx:90).                      *)
THEOREM SavedOfOneDeliverable ==
  ASSUME \A c, d \in DeliverableSlot : c = d
  PROVE  PageSpec /\ []Undisturbed => []SavedMeansSaved
<1>1. PageInit => WorkIInv /\ SavedIInv
  BY WorkInitial, SavedInitial
<1>2. WorkIInv /\ [PageNext]_pagevars => WorkIInv'
  BY WorkStep
<1>3. WorkIInv /\ SavedIInv /\ Undisturbed /\ Undisturbed' /\ [PageNext]_pagevars => SavedIInv'
  BY SavedStep
<1>4. SavedIInv => SavedMeansSaved
  <2>1. ASSUME SavedIInv, shown = "saved", autosave = {}, NEW d \in DeliverableSlot, editor[d] # {}
        PROVE  Shown(d).version < Latest(d).version \/ Shown(d).text = Latest(d).text
    <3>1. Shown(d) \in editor[d]
      BY <2>1 DEF Shown
    <3>. QED BY <2>1, <3>1 DEF SavedIInv, ShownHeld, Held
  <2>. QED BY <2>1 DEF SavedMeansSaved
<1>. QED BY <1>1, <1>2, <1>3, <1>4, PTL DEF PageSpec

-------------------------------------------------------------------------------
(* The V1 review. *)

(* What was on screen when the last save that went well was sent is in the *)
(* user's column, which nobody else writes, until he sends another.        *)
InColumn(d, i) ==
  /\ role = "first" => d[i].first = rows[i].first
  /\ role = "second" => d[i].second = rows[i].second

ScoringIInv ==
  /\ role \in {"first", "second"}
  /\ rows \in [Item -> Row] /\ drafts \in [Item -> Row] /\ snapshot \subseteq [Item -> Row]
  /\ inFlight \in [at : {"none", "sent", "stored"}, drafts : [Item -> Row]]
  /\ inFlight.at = "none" => inFlight = NoSave
  /\ inFlight.at = "stored" => \A i \in Item : InColumn(inFlight.drafts, i)
  /\ inFlight.at = "none" /\ ~saveError =>
       \A d \in snapshot : \A i \in Item : InColumn(d, i)

LEMMA ScoringInitial == ASSUME ReviewPageInit PROVE ScoringIInv
  BY ReviewPageAssumption
  DEF ReviewPageInit, ScoringIInv, BlankDrafts, NoRow, NoSave, Row, Ungraded

LEMMA ScoringStep == ASSUME ScoringIInv, [ReviewPageNext]_reviewpagevars PROVE ScoringIInv'
<1>. USE ReviewPageAssumption DEF ScoringIInv, review, scoring, Row, InColumn
<1>1. CASE Hydrate
  BY <1>1 DEF Hydrate
<1>2. ASSUME NEW i \in Item, NEW g \in Grade \cup {Ungraded}, Grading(i, g) PROVE ScoringIInv'
  <2>1. drafts' \in [Item -> Row]
    <3>1. drafts[i] \in Row
      OBVIOUS
    <3>2. CASE role = "first"
      <4>1. drafts' = [drafts EXCEPT ![i] = [drafts[i] EXCEPT !.first = g]]
        BY <1>2, <3>2 DEF Grading
      <4>2. [drafts[i] EXCEPT !.first = g] \in Row
        BY <3>1
      <4>. QED BY <4>1, <4>2
    <3>3. CASE role = "second"
      <4>1. drafts' = [drafts EXCEPT ![i] = [drafts[i] EXCEPT !.second = g]]
        BY <1>2, <3>3 DEF Grading
      <4>2. [drafts[i] EXCEPT !.second = g] \in Row
        BY <3>1
      <4>. QED BY <4>1, <4>2
    <3>. QED BY <3>2, <3>3
  <2>2. UNCHANGED <<rows, role, snapshot, inFlight, saveError>>
    BY <1>2 DEF Grading
  <2>. QED BY <2>1, <2>2
<1>3. ASSUME NEW i \in Item, NEW text \in Remark, Noting(i, text) PROVE ScoringIInv'
  BY <1>3 DEF Noting
<1>4. CASE SaveScores
  BY <1>4 DEF SaveScores
<1>5. CASE Saving
  <2>1. /\ rows' = [i \in Item |-> [rows[i] EXCEPT ![role] = inFlight.drafts[i][role],
                                              !.note = inFlight.drafts[i].note]]
        /\ inFlight' = [inFlight EXCEPT !.at = "stored"]
        /\ UNCHANGED <<role, drafts, snapshot, saveError>>
    BY <1>5 DEF Saving
  <2>2. CASE role = "first"
    <3>1. rows' = [i \in Item |-> [rows[i] EXCEPT !.first = inFlight.drafts[i].first,
                                               !.note = inFlight.drafts[i].note]]
      BY <2>1, <2>2
    <3>2. \A i \in Item : inFlight.drafts[i] \in Row /\ rows[i] \in Row
      OBVIOUS
    <3>3. \A i \in Item : rows'[i] \in Row /\ rows'[i].first = inFlight.drafts[i].first
      <4>1. ASSUME NEW i \in Item
            PROVE  rows'[i] \in Row /\ rows'[i].first = inFlight.drafts[i].first
        <5>1. rows'[i] = [rows[i] EXCEPT !.first = inFlight.drafts[i].first,
                                         !.note = inFlight.drafts[i].note]
          BY <3>1
        <5>2. inFlight.drafts[i] \in Row /\ rows[i] \in Row
          BY <3>2
        <5>. HIDE DEF ScoringIInv
        <5>. QED BY <5>1, <5>2
      <4>. QED BY <4>1
    <3>4. rows' \in [Item -> Row]
      BY <3>1, <3>3
    <3>. QED BY <2>1, <2>2, <3>3, <3>4
  <2>3. CASE role = "second"
    <3>1. rows' = [i \in Item |-> [rows[i] EXCEPT !.second = inFlight.drafts[i].second,
                                               !.note = inFlight.drafts[i].note]]
      BY <2>1, <2>3
    <3>2. \A i \in Item : inFlight.drafts[i] \in Row /\ rows[i] \in Row
      OBVIOUS
    <3>3. \A i \in Item : rows'[i] \in Row /\ rows'[i].second = inFlight.drafts[i].second
      <4>1. ASSUME NEW i \in Item
            PROVE  rows'[i] \in Row /\ rows'[i].second = inFlight.drafts[i].second
        <5>1. rows'[i] = [rows[i] EXCEPT !.second = inFlight.drafts[i].second,
                                         !.note = inFlight.drafts[i].note]
          BY <3>1
        <5>2. inFlight.drafts[i] \in Row /\ rows[i] \in Row
          BY <3>2
        <5>. HIDE DEF ScoringIInv
        <5>. QED BY <5>1, <5>2
      <4>. QED BY <4>1
    <3>4. rows' \in [Item -> Row]
      BY <3>1, <3>3
    <3>. QED BY <2>1, <2>3, <3>3, <3>4
  <2>. QED BY <2>2, <2>3
<1>6. CASE SaveScoresSucceeds
  BY <1>6 DEF SaveScoresSucceeds, SavedThen, NoSave, BlankDrafts, NoRow, Ungraded
<1>7. CASE SaveScoresFails
  BY <1>7 DEF SaveScoresFails, NoSave, BlankDrafts, NoRow, Ungraded
<1>8. CASE OpenFinalise \/ Finalise \/ CloseModal \/ OthersFinalise
  BY <1>8 DEF OpenFinalise, Finalise, CloseModal, OthersFinalise
<1>9. ASSUME NEW k, OpenClaim(k) \/ SaveClaim(k) \/ RemoveClaim(k) PROVE ScoringIInv'
  <2>1. UNCHANGED <<rows, role, scoring>>
    BY <1>9 DEF OpenClaim, SaveClaim, RemoveClaim
  <2>. QED BY <2>1
<1>10. ASSUME NEW i \in Item, NEW g \in Grade \cup {Ungraded}, NEW text \in Remark,
              OthersSave(i, g, text)
       PROVE  ScoringIInv'
  <2>1. PICK c \in ScoreColumn \ {role} :
          rows' = [rows EXCEPT ![i][c] = g, ![i].note = IF c = "adjudicated" THEN @ ELSE text]
    BY <1>10 DEF OthersSave
  <2>2. UNCHANGED <<role, scoring>>
    BY <1>10 DEF OthersSave
  <2>3. /\ rows' \in [Item -> Row]
        /\ \A j \in Item : /\ role = "first" => rows'[j].first = rows[j].first
                           /\ role = "second" => rows'[j].second = rows[j].second
    <3>1. CASE c = "first"
      <4>1. role = "second"
        BY <3>1
      <4>. DEFINE r == [rows[i] EXCEPT !.first = g, !.note = text]
      <4>2. rows' = [rows EXCEPT ![i] = r]
        BY <2>1, <3>1
      <4>3. r \in Row /\ r.second = rows[i].second
        <5>1. rows[i] \in Row
          OBVIOUS
        <5>. HIDE DEF ScoringIInv
        <5>. QED BY <5>1
      <4>. HIDE DEF r
      <4>. QED BY <4>1, <4>2, <4>3
    <3>2. CASE c = "second"
      <4>1. role = "first"
        BY <3>2
      <4>. DEFINE r == [rows[i] EXCEPT !.second = g, !.note = text]
      <4>2. rows' = [rows EXCEPT ![i] = r]
        BY <2>1, <3>2
      <4>3. r \in Row /\ r.first = rows[i].first
        <5>1. rows[i] \in Row
          OBVIOUS
        <5>. HIDE DEF ScoringIInv
        <5>. QED BY <5>1
      <4>. HIDE DEF r
      <4>. QED BY <4>1, <4>2, <4>3
    <3>3. CASE c = "adjudicated"
      <4>. DEFINE r == [rows[i] EXCEPT !.adjudicated = g, !.note = rows[i].note]
      <4>1. rows' = [rows EXCEPT ![i] = r]
        BY <2>1, <3>3
      <4>2. r \in Row /\ r.first = rows[i].first /\ r.second = rows[i].second
        <5>1. rows[i] \in Row
          OBVIOUS
        <5>. HIDE DEF ScoringIInv
        <5>. QED BY <5>1
      <4>. HIDE DEF r
      <4>. QED BY <4>1, <4>2
    <3>. QED BY <3>1, <3>2, <3>3 DEF ScoreColumn
  <2>4. ASSUME NEW d, NEW j \in Item, InColumn(d, j) PROVE InColumn(d, j)'
    <3>1. role' = role
      BY <2>2
    <3>2. /\ role = "first" => rows'[j].first = rows[j].first
          /\ role = "second" => rows'[j].second = rows[j].second
      BY <2>3
    <3>. HIDE DEF ScoringIInv
    <3>. QED BY <2>4, <3>1, <3>2
  <2>. HIDE DEF InColumn, Row
  <2>. QED BY <2>2, <2>3, <2>4
<1>11. CASE UNCHANGED reviewpagevars
  BY <1>11 DEF reviewpagevars
<1>. QED
  BY <1>1, <1>2, <1>3, <1>4, <1>5, <1>6, <1>7, <1>8, <1>9, <1>10, <1>11 DEF ReviewPageNext

(* A clean page shows the column's scores, for a snapshot that equals what *)
(* is shown is one.                                                        *)
LEMMA CleanStored == ScoringIInv => CleanScoresStored
<1>1. SUFFICES ASSUME ScoringIInv, ~Dirty, ~saveError, inFlight = NoSave, NEW i \in Item
               PROVE  drafts[i][role] = rows[i][role]
  BY DEF CleanScoresStored
<1>2. inFlight.at = "none"
  BY <1>1 DEF NoSave
<1>3. InColumn(drafts, i)
  BY <1>1, <1>2 DEF ScoringIInv, Dirty
<1>4. drafts[i] \in Row /\ rows[i] \in Row /\ role \in {"first", "second"}
  BY <1>1 DEF ScoringIInv
<1>. QED BY <1>3, <1>4 DEF InColumn, Row

-------------------------------------------------------------------------------
(* The V1 workspace. *)

(* What is written against a revision has an entry wherever the draft of   *)
(* that revision has one.                                                  *)
Covers(c) == \A r \in Response : row.content[r] # Absent => c[r] # Absent
Fits(n, c) == n <= row.revision /\ (n = row.revision => Covers(c))

(* A page that has heard of no revision names the first, whose draft has   *)
(* no entries; it may name it before there is a draft.                     *)
KeepIInv ==
  /\ row \in [revision : Nat, content : Content] /\ evidence \in Content
  /\ row.revision <= 1 => \A r \in Response : row.content[r] = Absent
  /\ revision \subseteq Nat /\ \A n \in revision : Fits(n, evidence)
  /\ load.draft \in [revision : Nat, content : Content]
  /\ load.draft.revision > 0 => Fits(load.draft.revision, load.draft.content)
  /\ saving \in [SaveCall -> SUBSET [why : Why, expected : Nat, content : Content,
                    at : {"sent", "saved", "conflict", "failed"}, revision : Nat]]
  /\ \A c \in SaveCall : \A s \in saving[c] :
       /\ s.expected # 1 => Fits(s.expected, s.content)
       /\ s.at = "saved" => Fits(s.revision, s.content)

LEMMA KeepInitial == ASSUME PortalPageInit PROVE KeepIInv
  BY PortalPageAssumption
  DEF PortalPageInit, KeepIInv, EmptyDraft, NothingYet, NotLoaded, Content, Fits, Covers

(* The draft moves on to a revision none is written against yet.           *)
Advances ==
  /\ row' \in [revision : Nat, content : Content] /\ row'.revision >= row.revision
  /\ row'.revision = row.revision => row' = row
  /\ row'.revision <= 1 => \A r \in Response : row'.content[r] = Absent

LEMMA FitsOn ==
  ASSUME KeepIInv, Advances, NEW n \in Nat, NEW c, Fits(n, c) PROVE Fits(n, c)'
  BY DEF KeepIInv, Advances, Fits, Covers

LEMMA RowStands ==
  ASSUME KeepIInv, UNCHANGED row PROVE Advances
  BY DEF KeepIInv, Advances

(* A step of the page that neither loads, types nor hears of a save.       *)
LEMMA OnlyKept ==
  ASSUME KeepIInv, Advances, UNCHANGED <<evidence, revision>>,
         load'.draft = load.draft \/ load'.draft = EmptyDraft,
         saving' \in [SaveCall -> SUBSET [why : Why, expected : Nat, content : Content,
                    at : {"sent", "saved", "conflict", "failed"}, revision : Nat]],
         \A c \in SaveCall : \A s \in saving'[c] :
           \/ s \in saving[c]
           \/ /\ s.expected # 1 => Fits(s.expected, s.content)'
              /\ s.at = "saved" => Fits(s.revision, s.content)'
  PROVE  KeepIInv'
<1>1. \A n \in revision : Fits(n, evidence)'
  BY FitsOn DEF KeepIInv, Fits, Covers
<1>2. load'.draft \in [revision : Nat, content : Content]
  BY PortalPageAssumption DEF KeepIInv, EmptyDraft, NothingYet, Content
<1>3. load'.draft.revision > 0 => Fits(load.draft.revision, load.draft.content)'
  <2>1. CASE load'.draft = EmptyDraft
    BY <2>1 DEF EmptyDraft
  <2>2. CASE load'.draft = load.draft
    BY <2>2, FitsOn DEF KeepIInv, Fits, Covers
  <2>. QED BY <2>1, <2>2
<1>4. ASSUME NEW c \in SaveCall, NEW s \in saving'[c]
      PROVE  /\ s.expected # 1 => Fits(s.expected, s.content)'
             /\ s.at = "saved" => Fits(s.revision, s.content)'
  BY FitsOn DEF KeepIInv
<1>. QED BY <1>1, <1>2, <1>3, <1>4 DEF KeepIInv, Advances

LEMMA KeepStep ==
  ASSUME KeepIInv, [PortalPageNext]_ppvars
  PROVE  KeepIInv' /\ \A r \in Response : row.content[r] # Absent => row'.content[r] # Absent
<1>. USE PortalPageAssumption DEF server, page, NotLoaded
<1>0. KeepIInv /\ row \in [revision : Nat, content : Content]
  BY DEF KeepIInv
<1>1. ASSUME UNCHANGED <<row, evidence, revision, saving>>,
             load'.draft = load.draft \/ load'.draft = EmptyDraft
      PROVE  KeepIInv'
  BY <1>1, RowStands, OnlyKept DEF KeepIInv
<1>2. CASE EnterAssessment \/ LeaveLocked \/ HandleSubmit \/ UNCHANGED ppvars
  BY <1>1, <1>2 DEF EnterAssessment, LeaveLocked, HandleSubmit, ppvars
<1>3. CASE AnswerLoad
  <2>1. /\ UNCHANGED <<evidence, revision, saving>>
        /\ \/ /\ row' = IF row.revision = 0 THEN [row EXCEPT !.revision = 1] ELSE row
              /\ load' = [load EXCEPT !.draft = row']
           \/ row' = row /\ load' = NotLoaded("failed")
    BY <1>3 DEF AnswerLoad
  <2>2. Advances /\ row'.content = row.content
    BY <1>0, <2>1 DEF Advances, KeepIInv
  <2>3. CASE load' = NotLoaded("failed")
    BY <2>1, <2>2, <2>3, OnlyKept DEF KeepIInv
  <2>4. CASE load' = [load EXCEPT !.draft = row']
    <3>1. load'.draft = row' \/ load'.draft = load.draft
      BY <2>4
    <3>2. \A n \in Nat : \A c : Fits(n, c) => Fits(n, c)'
      BY <2>2, FitsOn
    <3>3. Fits(row.revision, row.content)'
      BY <2>2 DEF Advances, Fits, Covers
    <3>4. load'.draft = row' => Fits(load.draft.revision, load.draft.content)'
      BY <3>3 DEF Fits, Covers
    <3>5. load'.draft = load.draft /\ load.draft.revision > 0 =>
            Fits(load.draft.revision, load.draft.content)'
      <4>1. ASSUME load'.draft = load.draft, load.draft.revision > 0
            PROVE  /\ load.draft.revision \in Nat
                   /\ Fits(load.draft.revision, load.draft.content)
        BY <4>1 DEF KeepIInv
      <4>. QED BY <3>2, <4>1 DEF Fits, Covers
    <3>6. \A n \in revision : Fits(n, evidence)'
      BY <2>1, <3>2 DEF KeepIInv, Fits, Covers
    <3>7. \A c \in SaveCall : \A s \in saving[c] :
            /\ s.expected # 1 => Fits(s.expected, s.content)'
            /\ s.at = "saved" => Fits(s.revision, s.content)'
      BY <3>2 DEF KeepIInv
    <3>8. load'.draft \in [revision : Nat, content : Content]
      BY <2>2, <3>1 DEF KeepIInv, Advances
    <3>9. KeepIInv'
      BY <2>1, <2>2, <3>1, <3>4, <3>5, <3>6, <3>7, <3>8 DEF KeepIInv, Advances
    <3>. QED BY <2>2, <3>9
  <2>. QED BY <2>1, <2>3, <2>4
<1>4. CASE WorkspaceLoaded
  <2>1. /\ UNCHANGED <<row, saving>> /\ load' = NotLoaded("done")
        /\ revision' = {load.draft.revision} /\ load.draft.revision > 0
        /\ evidence' = Merged(load.draft.content)
    BY <1>4 DEF WorkspaceLoaded
  <2>2. /\ load.draft.revision \in Nat /\ load.draft.content \in Content
        /\ Fits(load.draft.revision, load.draft.content)
    BY <2>1 DEF KeepIInv
  <2>3. /\ evidence' \in Content
        /\ \A r \in Response : load.draft.content[r] # Absent => evidence'[r] # Absent
    BY <1>0, <2>1, <2>2 DEF KeepIInv, Merged, Content
  <2>4. \A n \in revision' : n \in Nat /\ Fits(n, evidence)'
    BY <2>1, <2>2, <2>3 DEF Fits, Covers
  <2>5. EmptyDraft \in [revision : Nat, content : Content] /\ EmptyDraft.revision = 0
    BY DEF NothingYet, EmptyDraft, Content
  <2>6. \A c \in SaveCall : \A s \in saving[c] :
          /\ s.expected # 1 => Fits(s.expected, s.content)'
          /\ s.at = "saved" => Fits(s.revision, s.content)'
    BY <2>1 DEF KeepIInv, Fits, Covers
  <2>. QED BY <1>0, <2>1, <2>3, <2>4, <2>5, <2>6 DEF KeepIInv
<1>5. CASE ReloadPortal
  <2>1. /\ row' = row /\ evidence' = NothingYet /\ revision' = {} /\ load' = NotLoaded("idle")
        /\ saving' = [c \in SaveCall |-> {}]
    BY <1>5 DEF ReloadPortal
  <2>2. NothingYet \in Content /\ EmptyDraft \in [revision : Nat, content : Content]
    BY DEF NothingYet, EmptyDraft, Content
  <2>. QED BY <1>0, <2>1, <2>2 DEF KeepIInv, EmptyDraft
<1>6. ASSUME NEW r \in Response, NEW text \in Words, Type(r, text) PROVE KeepIInv' /\ row' = row
  <2>1. /\ UNCHANGED <<row, revision, load, saving>> /\ text # Absent
        /\ evidence' = [evidence EXCEPT ![r] = text]
    BY <1>6 DEF Type
  <2>2. /\ evidence' \in Content
        /\ \A q \in Response : evidence[q] # Absent => evidence'[q] # Absent
    BY <2>1 DEF KeepIInv, Content
  <2>. QED BY <2>1, <2>2 DEF KeepIInv, Fits, Covers
<1>7. ASSUME NEW r \in Response, NEW text \in Words, OtherPageSaves(r, text)
      PROVE  KeepIInv' /\ \A q \in Response : row.content[q] # Absent => row'.content[q] # Absent
  <2>. DEFINE d == [revision |-> row.revision + 1, content |-> [row.content EXCEPT ![r] = text]]
  <2>1. /\ row' = d /\ row.revision >= 1 /\ text # Absent
        /\ UNCHANGED <<evidence, revision, load, saving>>
    BY <1>0, <1>7 DEF OtherPageSaves
  <2>2. /\ d \in [revision : Nat, content : Content] /\ d.revision = row.revision + 1
        /\ \A q \in Response : row.content[q] # Absent => d.content[q] # Absent
    BY <1>0, <2>1 DEF Content
  <2>. HIDE DEF d
  <2>3. Advances
    BY <1>0, <2>1, <2>2 DEF Advances
  <2>4. KeepIInv'
    BY <1>0, <2>1, <2>3, OnlyKept DEF KeepIInv
  <2>. QED BY <2>1, <2>2, <2>4
<1>8. ASSUME NEW c \in SaveCall,
             (\E r \in Response : HandleSave(c, r)) \/ SaveByHand(c) \/ Autosave(c) \/ LockStage(c)
      PROVE  KeepIInv' /\ row' = row
  <2>0. PICK why \in Why, sent \in Content :
          /\ SaveWorkspace(c, why, sent)
          /\ \A r \in Response : evidence[r] # Absent => sent[r] # Absent
    <3>1. CASE SaveByHand(c) \/ Autosave(c) \/ LockStage(c)
      BY <1>0, <3>1 DEF SaveByHand, Autosave, LockStage, Why, KeepIInv
    <3>2. ASSUME NEW r \in Response, HandleSave(c, r)
          PROVE  /\ SaveWorkspace(c, "edit", [evidence EXCEPT ![r] = InField(r)])
                 /\ [evidence EXCEPT ![r] = InField(r)] \in Content
                 /\ \A q \in Response : evidence[q] # Absent =>
                                        [evidence EXCEPT ![r] = InField(r)][q] # Absent
      BY <1>0, <3>2 DEF HandleSave, InField, KeepIInv, Content
    <3>. QED BY <1>8, <3>1, <3>2 DEF Why
  <2>1. SaveWorkspace(c, why, sent)
    BY <2>0
  <2>2. UNCHANGED <<row, evidence, revision, load>>
    BY <1>8 DEF HandleSave, SaveByHand, Autosave, LockStage
  <2>3. PICK s : /\ s = [why |-> why, expected |-> Expected, content |-> sent,
                          at |-> "sent", revision |-> 0]
                 /\ saving' = [saving EXCEPT ![c] = {s}]
    BY <2>1 DEF SaveWorkspace
  <2>4. Expected \in Nat /\ (Expected # 1 => Fits(Expected, evidence))
    <3>1. CASE revision = {}
      BY <3>1 DEF Expected
    <3>2. CASE revision # {}
      <4>1. Expected \in revision
        BY <3>2 DEF Expected
      <4>. QED BY <4>1 DEF KeepIInv
    <3>. QED BY <3>1, <3>2
  <2>5. /\ s \in [why : Why, expected : Nat, content : Content,
                  at : {"sent", "saved", "conflict", "failed"}, revision : Nat]
        /\ s.expected = Expected /\ s.content = sent /\ s.at = "sent"
    BY <1>0, <2>0, <2>3, <2>4 DEF KeepIInv
  <2>6. s.expected # 1 => Fits(s.expected, s.content)'
    BY <2>0, <2>2, <2>4, <2>5 DEF Fits, Covers
  <2>. QED BY <1>0, <2>2, <2>3, <2>5, <2>6, RowStands, OnlyKept DEF KeepIInv
<1>9. ASSUME NEW c \in SaveCall, PutWorkspace(c)
      PROVE  KeepIInv' /\ \A r \in Response : row.content[r] # Absent => row'.content[r] # Absent
  <2>. DEFINE there == IF row.revision = 0 THEN [row EXCEPT !.revision = 1] ELSE row
  <2>1. UNCHANGED <<evidence, revision, load>>
    BY <1>9 DEF PutWorkspace
  <2>2. PICK s \in saving[c] :
          \/ /\ s.expected = there.revision
             /\ row' = [revision |-> there.revision + 1, content |-> s.content]
             /\ saving' = [saving EXCEPT ![c] = {[s EXCEPT !.at = "saved", !.revision = row'.revision]}]
          \/ /\ row' = there
             /\ saving' = [saving EXCEPT ![c] = {[s EXCEPT !.at = "conflict"]}]
          \/ row' = row /\ saving' = [saving EXCEPT ![c] = {[s EXCEPT !.at = "failed"]}]
    BY <1>9 DEF PutWorkspace
  <2>3. /\ there \in [revision : Nat, content : Content] /\ there.revision >= 1
        /\ there.revision >= row.revision /\ there.content = row.content
        /\ there.revision <= 1 => \A r \in Response : row.content[r] = Absent
        /\ there.revision = row.revision => there = row
    BY <1>0 DEF KeepIInv
  <2>4. /\ s \in [why : Why, expected : Nat, content : Content,
                  at : {"sent", "saved", "conflict", "failed"}, revision : Nat]
        /\ s.expected # 1 => Fits(s.expected, s.content)
    BY DEF KeepIInv
  <2>. HIDE DEF there
  <2>5. ASSUME NEW t, t \in [why : Why, expected : Nat, content : Content,
                             at : {"sent", "saved", "conflict", "failed"}, revision : Nat],
               saving' = [saving EXCEPT ![c] = {t}], t.expected = s.expected, t.content = s.content,
               t.at = "saved" => Fits(t.revision, t.content)', Advances
        PROVE  KeepIInv'
    <3>1. t.expected # 1 => Fits(t.expected, t.content)'
      BY <2>4, <2>5, FitsOn
    <3>. QED BY <1>0, <2>1, <2>5, <3>1, OnlyKept DEF KeepIInv
  <2>6. CASE /\ s.expected = there.revision
             /\ row' = [revision |-> there.revision + 1, content |-> s.content]
             /\ saving' = [saving EXCEPT ![c] = {[s EXCEPT !.at = "saved", !.revision = row'.revision]}]
    <3>0. PICK t : /\ t = [s EXCEPT !.at = "saved", !.revision = row'.revision]
                   /\ saving' = [saving EXCEPT ![c] = {t}]
      BY <2>6
    <3>1. row' \in [revision : Nat, content : Content] /\ row'.revision = there.revision + 1
      BY <2>3, <2>4, <2>6
    <3>2. Advances
      BY <1>0, <2>3, <3>1 DEF Advances
    <3>3. \A r \in Response : row.content[r] # Absent => row'.content[r] # Absent
      <4>1. CASE s.expected = 1
        BY <2>3, <2>6, <4>1
      <4>2. CASE s.expected # 1
        <5>1. s.expected <= row.revision /\ s.expected >= row.revision
          BY <2>3, <2>4, <2>6, <4>2 DEF Fits
        <5>2. Covers(s.content)
          BY <1>0, <2>4, <4>2, <5>1 DEF Fits
        <5>. QED BY <2>6, <5>2 DEF Covers
      <4>. QED BY <4>1, <4>2
    <3>4. /\ t \in [why : Why, expected : Nat, content : Content,
                    at : {"sent", "saved", "conflict", "failed"}, revision : Nat]
          /\ t.expected = s.expected /\ t.content = s.content /\ t.revision = row'.revision
      BY <2>4, <3>0, <3>1
    <3>5. row'.content = s.content
      BY <2>6
    <3>6. Fits(t.revision, t.content)'
      BY <3>1, <3>4, <3>5 DEF Fits, Covers
    <3>7. KeepIInv'
      BY <2>5, <3>0, <3>2, <3>4, <3>6
    <3>. QED BY <3>3, <3>7
  <2>7. ASSUME NEW reply \in {"conflict", "failed"}, row' \in {there, row},
               saving' = [saving EXCEPT ![c] = {[s EXCEPT !.at = reply]}]
        PROVE  KeepIInv' /\ row'.content = row.content
    <3>. DEFINE t == [s EXCEPT !.at = reply]
    <3>1. Advances
      BY <1>0, <2>3, <2>7 DEF Advances, KeepIInv
    <3>2. /\ t \in [why : Why, expected : Nat, content : Content,
                    at : {"sent", "saved", "conflict", "failed"}, revision : Nat]
          /\ t.expected = s.expected /\ t.content = s.content /\ t.at # "saved"
      BY <2>4
    <3>3. saving' = [saving EXCEPT ![c] = {t}]
      BY <2>7
    <3>. HIDE DEF t
    <3>4. KeepIInv'
      BY <2>5, <3>1, <3>2, <3>3
    <3>. QED BY <2>3, <2>7, <3>4
  <2>8. CASE row' = there /\ saving' = [saving EXCEPT ![c] = {[s EXCEPT !.at = "conflict"]}]
    BY <2>7, <2>8
  <2>9. CASE row' = row /\ saving' = [saving EXCEPT ![c] = {[s EXCEPT !.at = "failed"]}]
    BY <2>7, <2>9
  <2>. QED BY <2>2, <2>6, <2>8, <2>9
<1>10. ASSUME NEW c \in SaveCall, LoseSave(c) \/ SaveErrs(c) PROVE KeepIInv' /\ row' = row
  <2>1. /\ UNCHANGED <<row, evidence, revision>>
        /\ load'.draft = load.draft \/ load'.draft = EmptyDraft
    BY <1>10 DEF LoseSave, SaveErrs, MoveOn
  <2>2. CASE saving' = [saving EXCEPT ![c] = {}]
    BY <1>0, <2>1, <2>2, RowStands, OnlyKept DEF KeepIInv
  <2>3. CASE LoseSave(c)
    <3>1. PICK s \in saving[c] : saving' = [saving EXCEPT ![c] = {[s EXCEPT !.at = "failed"]}]
      BY <2>3 DEF LoseSave
    <3>. DEFINE t == [s EXCEPT !.at = "failed"]
    <3>2. /\ t \in [why : Why, expected : Nat, content : Content,
                    at : {"sent", "saved", "conflict", "failed"}, revision : Nat]
          /\ t.expected = s.expected /\ t.content = s.content /\ t.at = "failed"
          /\ s.expected # 1 => Fits(s.expected, s.content)
      BY DEF KeepIInv
    <3>3. saving' = [saving EXCEPT ![c] = {t}]
      BY <3>1
    <3>. HIDE DEF t
    <3>4. t.expected # 1 => Fits(t.expected, t.content)'
      BY <2>1, <3>2 DEF Fits, Covers
    <3>. QED BY <1>0, <2>1, <3>2, <3>3, <3>4, RowStands, OnlyKept DEF KeepIInv
  <2>. QED BY <1>10, <2>2, <2>3 DEF SaveErrs
<1>11. ASSUME NEW c \in SaveCall, SaveLands(c) PROVE KeepIInv' /\ row' = row
  <2>1. PICK s \in saving[c] :
          /\ s.at = "saved" /\ revision' = {s.revision} /\ evidence' = s.content
          /\ saving' = [saving EXCEPT ![c] = {}]
    BY <1>11 DEF SaveLands
  <2>2. row' = row /\ (load'.draft = load.draft \/ load'.draft = EmptyDraft)
    BY <1>11 DEF SaveLands, MoveOn
  <2>3. s.revision \in Nat /\ s.content \in Content /\ Fits(s.revision, s.content)
    BY <2>1 DEF KeepIInv
  <2>4. EmptyDraft \in [revision : Nat, content : Content] /\ EmptyDraft.revision = 0
    BY DEF NothingYet, EmptyDraft, Content
  <2>. QED BY <1>0, <2>1, <2>2, <2>3, <2>4 DEF KeepIInv, Fits, Covers
<1>. QED
  BY <1>2, <1>3, <1>4, <1>5, <1>6, <1>7, <1>8, <1>9, <1>10, <1>11 DEF PortalPageNext

(* An empty entry anywhere is one that some page has made.                 *)
Owned(c) == \A r \in Response : c[r] = NoWords => r \in leftEmpty

BlankIInv ==
  /\ Owned(row.content) /\ Owned(evidence) /\ Owned(load.draft.content)
  /\ \A c \in SaveCall : \A s \in saving[c] : Owned(s.content)

LEMMA BlankInitial == ASSUME PortalPageInit PROVE BlankIInv
  BY PortalPageAssumption
  DEF PortalPageInit, BlankIInv, Owned, EmptyDraft, NothingYet, NotLoaded

(* leftEmpty only grows, and every content comes from another or from an   *)
(* entry.                                                                  *)
LEMMA BlankFrom ==
  ASSUME BlankIInv, leftEmpty \subseteq leftEmpty',
         Owned(row.content)' \/ row'.content = row.content,
         Owned(evidence)' \/ evidence' = evidence,
         load'.draft.content \in {load.draft.content, NothingYet, row.content},
         saving \in [SaveCall -> SUBSET [why : Why, expected : Nat, content : Content,
                    at : {"sent", "saved", "conflict", "failed"}, revision : Nat]],
         \/ saving' = saving \/ saving' = [c \in SaveCall |-> {}]
         \/ \E c \in SaveCall : \E S : /\ saving' = [saving EXCEPT ![c] = S]
                                        /\ \A s \in S : Owned(s.content)'
  PROVE  BlankIInv'
<1>1. ASSUME NEW c, Owned(c) PROVE \A r \in Response : c[r] = NoWords => r \in leftEmpty'
  BY <1>1 DEF Owned
<1>2. Owned(row.content)' /\ Owned(evidence)'
  BY <1>1 DEF BlankIInv, Owned
<1>3. Owned(load.draft.content)'
  BY <1>1, PortalPageAssumption DEF BlankIInv, Owned, NothingYet
<1>4. ASSUME NEW c \in SaveCall, NEW s \in saving'[c] PROVE Owned(s.content)'
  BY <1>1 DEF BlankIInv, Owned
<1>. QED BY <1>2, <1>3, <1>4 DEF BlankIInv

LEMMA BlankStep == ASSUME BlankIInv, KeepIInv, [PortalPageNext]_ppvars PROVE BlankIInv'
<1>. USE DEF server, page
<1>0. /\ saving \in [SaveCall -> SUBSET [why : Why, expected : Nat, content : Content,
                    at : {"sent", "saved", "conflict", "failed"}, revision : Nat]]
      /\ row \in [revision : Nat, content : Content] /\ evidence \in Content
      /\ \A w : NotLoaded(w).draft.content = NothingYet
  BY DEF KeepIInv, NotLoaded, EmptyDraft
<1>1. CASE EnterAssessment \/ LeaveLocked \/ HandleSubmit \/ UNCHANGED ppvars
  BY <1>0, <1>1, BlankFrom DEF EnterAssessment, LeaveLocked, HandleSubmit, ppvars
<1>2. CASE AnswerLoad
  <2>1. /\ UNCHANGED <<evidence, leftEmpty, saving>> /\ row'.content = row.content
        /\ load' = NotLoaded("failed") \/ load' = [load EXCEPT !.draft = row']
    BY <1>0, <1>2 DEF AnswerLoad
  <2>2. load' = [load EXCEPT !.draft = row'] => load'.draft = row' \/ load'.draft = load.draft
    OBVIOUS
  <2>3. load'.draft.content \in {load.draft.content, NothingYet, row.content}
    <3>1. CASE load' = NotLoaded("failed")
      BY <1>0, <3>1
    <3>2. CASE load' = [load EXCEPT !.draft = row']
      BY <2>1, <2>2, <3>2
    <3>. QED BY <2>1, <3>1, <3>2
  <2>. QED BY <1>0, <2>1, <2>3, BlankFrom
<1>3. CASE WorkspaceLoaded
  <2>1. /\ UNCHANGED <<row, leftEmpty, saving>> /\ load' = NotLoaded("done")
        /\ evidence' = Merged(load.draft.content)
    BY <1>3 DEF WorkspaceLoaded
  <2>2. Owned(evidence)'
    BY <2>1 DEF BlankIInv, Owned, Merged
  <2>. QED BY <1>0, <2>1, <2>2, BlankFrom
<1>4. CASE ReloadPortal
  <2>1. /\ UNCHANGED <<row, leftEmpty>> /\ load' = NotLoaded("idle") /\ evidence' = NothingYet
        /\ saving' = [c \in SaveCall |-> {}]
    BY <1>4 DEF ReloadPortal
  <2>2. Owned(evidence)'
    BY <2>1, PortalPageAssumption DEF Owned, NothingYet
  <2>. QED BY <1>0, <2>1, <2>2, BlankFrom
<1>5. ASSUME NEW r \in Response, NEW text, NEW c \in Content, Owned(c), Enters(r, text)
      PROVE  /\ leftEmpty \subseteq leftEmpty'
             /\ \A q \in Response : [c EXCEPT ![r] = text][q] = NoWords => q \in leftEmpty'
  BY <1>5 DEF Enters, Owned, Content
<1>6. ASSUME NEW r \in Response, NEW text \in Words, Type(r, text) PROVE BlankIInv'
  <2>1. /\ UNCHANGED <<row, load, saving>> /\ Enters(r, text)
        /\ evidence' = [evidence EXCEPT ![r] = text]
    BY <1>6 DEF Type
  <2>2. leftEmpty \subseteq leftEmpty' /\ Owned(evidence)'
    BY <1>0, <1>5, <2>1 DEF BlankIInv, Owned
  <2>. QED BY <1>0, <2>1, <2>2, BlankFrom
<1>7. ASSUME NEW r \in Response, NEW text \in Words, OtherPageSaves(r, text) PROVE BlankIInv'
  <2>1. /\ UNCHANGED <<evidence, load, saving>> /\ Enters(r, text)
        /\ row'.content = [row.content EXCEPT ![r] = text]
    BY <1>7 DEF OtherPageSaves
  <2>2. leftEmpty \subseteq leftEmpty' /\ Owned(row.content)'
    BY <1>0, <1>5, <2>1 DEF BlankIInv, Owned
  <2>. QED BY <1>0, <2>1, <2>2, BlankFrom
<1>8. ASSUME NEW c \in SaveCall, NEW why, NEW sent, SaveWorkspace(c, why, sent),
             UNCHANGED <<row, evidence, load>>, leftEmpty \subseteq leftEmpty',
             \A q \in Response : sent[q] = NoWords => q \in leftEmpty'
      PROVE  BlankIInv'
  <2>1. PICK s : s.content = sent /\ saving' = [saving EXCEPT ![c] = {s}]
    BY <1>8 DEF SaveWorkspace
  <2>2. \A t \in {s} : Owned(t.content)'
    BY <1>8, <2>1 DEF Owned
  <2>. QED BY <1>0, <1>8, <2>1, <2>2, BlankFrom
<1>9. ASSUME NEW c \in SaveCall, NEW r \in Response, HandleSave(c, r) PROVE BlankIInv'
  <2>1. /\ SaveWorkspace(c, "edit", [evidence EXCEPT ![r] = InField(r)]) /\ Enters(r, InField(r))
        /\ UNCHANGED <<row, evidence, load>>
    BY <1>9 DEF HandleSave
  <2>. QED BY <1>0, <1>5, <1>8, <2>1 DEF BlankIInv
<1>10. ASSUME NEW c \in SaveCall, SaveByHand(c) \/ Autosave(c) \/ LockStage(c) PROVE BlankIInv'
  <2>1. PICK why : SaveWorkspace(c, why, evidence)
    BY <1>10 DEF SaveByHand, Autosave, LockStage
  <2>2. UNCHANGED <<row, evidence, load, leftEmpty>>
    BY <1>10 DEF SaveByHand, Autosave, LockStage
  <2>. QED BY <1>8, <2>1, <2>2 DEF BlankIInv, Owned
<1>11. ASSUME NEW c \in SaveCall, PutWorkspace(c) \/ LoseSave(c) PROVE BlankIInv'
  <2>1. PICK s \in saving[c] :
          /\ row'.content \in {row.content, s.content}
          /\ \E t : saving' = [saving EXCEPT ![c] = {t}] /\ t.content = s.content
    <3>1. CASE PutWorkspace(c)
      <4>. DEFINE there == IF row.revision = 0 THEN [row EXCEPT !.revision = 1] ELSE row
      <4>1. there.content = row.content
        BY <1>0
      <4>2. PICK s \in saving[c] :
              \/ /\ row' = [revision |-> there.revision + 1, content |-> s.content]
                 /\ saving' = [saving EXCEPT ![c] = {[s EXCEPT !.at = "saved", !.revision = row'.revision]}]
              \/ /\ row' = there
                 /\ saving' = [saving EXCEPT ![c] = {[s EXCEPT !.at = "conflict"]}]
              \/ row' = row /\ saving' = [saving EXCEPT ![c] = {[s EXCEPT !.at = "failed"]}]
        BY <3>1 DEF PutWorkspace
      <4>. HIDE DEF there
      <4>3. s \in [why : Why, expected : Nat, content : Content,
                   at : {"sent", "saved", "conflict", "failed"}, revision : Nat]
        BY <1>0
      <4>4. /\ [s EXCEPT !.at = "saved", !.revision = row'.revision].content = s.content
            /\ [s EXCEPT !.at = "conflict"].content = s.content
            /\ [s EXCEPT !.at = "failed"].content = s.content
        BY <4>3
      <4>5. row'.content \in {row.content, s.content}
        BY <4>1, <4>2
      <4>6. \E t : saving' = [saving EXCEPT ![c] = {t}] /\ t.content = s.content
        <5>1. PICK t : /\ saving' = [saving EXCEPT ![c] = {t}]
                       /\ \/ t = [s EXCEPT !.at = "saved", !.revision = row'.revision]
                          \/ t = [s EXCEPT !.at = "conflict"]
                          \/ t = [s EXCEPT !.at = "failed"]
          BY <4>2
        <5>2. t.content = s.content
          BY <4>4, <5>1
        <5>. QED BY <5>1, <5>2
      <4>. QED BY <4>5, <4>6
    <3>2. CASE LoseSave(c)
      <4>1. PICK s \in saving[c] :
              row' = row /\ saving' = [saving EXCEPT ![c] = {[s EXCEPT !.at = "failed"]}]
        BY <3>2 DEF LoseSave
      <4>2. [s EXCEPT !.at = "failed"].content = s.content
        BY <1>0
      <4>. QED BY <4>1, <4>2
    <3>. QED BY <1>11, <3>1, <3>2
  <2>2. UNCHANGED <<evidence, load, leftEmpty>>
    <3>1. CASE PutWorkspace(c)
      BY <3>1 DEF PutWorkspace
    <3>2. CASE LoseSave(c)
      BY <3>2 DEF LoseSave
    <3>. QED BY <1>11, <3>1, <3>2
  <2>3. Owned(s.content) /\ Owned(row.content)
    BY DEF BlankIInv
  <2>4. Owned(row.content)'
    BY <2>1, <2>2, <2>3 DEF Owned
  <2>5. PICK t : saving' = [saving EXCEPT ![c] = {t}] /\ t.content = s.content
    BY <2>1
  <2>6. \A u \in {t} : Owned(u.content)'
    BY <2>2, <2>3, <2>5 DEF Owned
  <2>. QED BY <1>0, <2>2, <2>4, <2>5, <2>6, BlankFrom
<1>12. ASSUME NEW c \in SaveCall, SaveLands(c) \/ SaveErrs(c) PROVE BlankIInv'
  <2>1. /\ UNCHANGED <<row, leftEmpty>> /\ saving' = [saving EXCEPT ![c] = {}]
        /\ load' = load \/ load' = NotLoaded("idle") \/ load' = NotLoaded("sent")
        /\ evidence' = evidence \/ \E s \in saving[c] : evidence' = s.content
    BY <1>12 DEF SaveLands, SaveErrs, MoveOn
  <2>2. load'.draft.content \in {load.draft.content, NothingYet, row.content}
    BY <1>0, <2>1
  <2>3. Owned(evidence)'
    BY <2>1 DEF BlankIInv, Owned
  <2>4. \A s \in {} : Owned(s.content)'
    OBVIOUS
  <2>. QED BY <1>0, <2>1, <2>2, <2>3, <2>4, BlankFrom
<1>. QED
  BY <1>1, <1>2, <1>3, <1>4, <1>6, <1>7, <1>9, <1>10, <1>11, <1>12 DEF PortalPageNext

-------------------------------------------------------------------------------
(* The theorems. *)

(* What the pages show as saved is stored: the scores of a V1 review in    *)
(* its user's column, the dimensions counted of a V2 round, the fields of  *)
(* the first candidate portal, the ticked deliverables of the V2 workspace *)
(* (ReviewWorkspacePage.tsx, ReviewerV2WorkspacePage.tsx,                  *)
(* web pages/CandidatePortalPage.tsx, WorkspacePage.tsx).                  *)
THEOREM PagesShowSaved == ServicesSpec => []ShownSavedIsStored
<1>. DEFINE IInv == ScoringIInv /\ RoundIInv /\ EvidenceIInv /\ WorkIInv
<1>1. ServicesInit => IInv
  BY ScoringInitial, RoundInitial, EvidenceInitial, WorkInitial DEF ServicesInit
<1>2. IInv /\ [ServicesNext]_services => IInv'
  <2>1. [ServicesNext]_services =>
          /\ [ReviewPageNext]_reviewpagevars /\ [RoundPageNext]_roundvars
          /\ [EvidencePageNext]_evidencevars /\ [PageNext]_pagevars
    BY DEF ServicesNext, services
  <2>. QED BY <2>1, ScoringStep, RoundStep, EvidenceStep, WorkStep
<1>3. IInv => ShownSavedIsStored
  <2>1. RoundIInv => CountedAreRecorded
    BY DEF RoundIInv, CountedAreRecorded, Reviewed
  <2>2. EvidenceIInv => CleanWorkStored
    BY DEF EvidenceIInv, CleanWorkStored, DirtyWork
  <2>3. WorkIInv => TicksAreStored
    <3>1. WorkIInv => \A d \in DeliverableSlot :
            Shown(d).version \in Nat /\ stored[d].version \in Nat
      BY ShownHad, PageAssumption DEF WorkIInv, HeadIInv, ArtifactHead, Version
    <3>. QED BY <3>1, ShownHad DEF TicksAreStored, Had
  <2>. QED BY <2>1, <2>2, <2>3, CleanStored DEF ShownSavedIsStored
<1>. QED BY <1>1, <1>2, <1>3, PTL DEF ServicesSpec

(* The V2 candidate begins what he has been told of and agreed to, and is  *)
(* shown as submitted what is (CandidateV2EntryPage.tsx, WorkspacePage.tsx,*)
(* web pages/CandidatePortalPage.tsx).                                     *)
THEOREM CandidatesTold == ServicesSpec => []CandidateToldTruly
<1>. DEFINE IInv == EvidenceIInv /\ EntryIInv
<1>1. ServicesInit => IInv
  BY EvidenceInitial, EntryInitial DEF ServicesInit
<1>2. IInv /\ [ServicesNext]_services => IInv'
  <2>1. [ServicesNext]_services =>
          [EvidencePageNext]_evidencevars /\ [EntryPageNext]_entryvars
    BY DEF ServicesNext, services
  <2>. QED BY <2>1, EvidenceStep, EntryStep
<1>3. IInv => CandidateToldTruly
  BY DEF EvidenceIInv, EntryIInv, CandidateToldTruly, StartedKnowingly, SubmittedShownTruly,
         Submitted
<1>. QED BY <1>1, <1>2, <1>3, PTL DEF ServicesSpec

(* No save of the V1 workspace drops an answer the server had, however     *)
(* loads, saves, conflicts, locks and reloads cross; and none empties one  *)
(* whose field no page was ever left or made empty                         *)
(* (admin-web pages/CandidatePortalPage.tsx, candidate/portal.ts).         *)
THEOREM ResponsesKept == ServicesSpec => ResponsesNeverDropped
<1>1. ServicesInit => KeepIInv /\ BlankIInv
  BY KeepInitial, BlankInitial DEF ServicesInit
<1>2. [ServicesNext]_services => [PortalPageNext]_ppvars
  BY DEF ServicesNext, services
<1>3. KeepIInv /\ BlankIInv /\ [ServicesNext]_services => KeepIInv' /\ BlankIInv'
  BY <1>2, KeepStep, BlankStep
<1>4. KeepIInv /\ BlankIInv /\ [ServicesNext]_services => [\A r \in Response : ~Dropped(r)]_ppvars
  <2>1. BlankIInv' => \A r \in Response : row'.content[r] = NoWords => r \in leftEmpty'
    BY DEF BlankIInv, Owned
  <2>. QED BY <1>2, <2>1, KeepStep, BlankStep DEF Dropped
<1>. QED BY <1>1, <1>3, <1>4, PTL DEF ServicesSpec, ResponsesNeverDropped

(* What the run explores is a behaviour of each component and each page,   *)
(* of mail without its fairness, which the run asks for only where mail is *)
(* what it follows: every safety theorem about a component's own           *)
(* specification holds of it as well.                                      *)
THEOREM ServicesAreTheirParts ==
  ServicesSpec =>
    /\ OutboxInit /\ [][OutboxNext]_outboxvars
    /\ AuditSpec /\ IdemSpec /\ ToolsSpec /\ EventsSpec /\ AiSpec /\ SignInSpec /\ TenancySpec
    /\ InsightsSpec
    /\ PageSpec /\ PortalPageSpec /\ ReviewPageSpec /\ RoundPageSpec /\ EvidencePageSpec
    /\ EntryPageSpec
<1>1. ServicesInit =>
        /\ OutboxInit /\ AuditInit /\ IdemInit /\ ToolsInit /\ EventsInit
        /\ AiInit /\ SignInInit /\ TenancyInit /\ InsightsInit
        /\ PageInit /\ PortalPageInit /\ ReviewPageInit /\ RoundPageInit /\ EvidencePageInit
        /\ EntryPageInit
  BY DEF ServicesInit
<1>2. [ServicesNext]_services =>
        /\ [OutboxNext]_outboxvars /\ [AuditNext]_auditvars /\ [IdemNext]_idemvars
        /\ [ToolsNext]_toolvars /\ [EventsNext]_eventvars /\ [AiNext]_aivars
        /\ [SignInNext]_signvars /\ [TenancyNext]_tenancyvars /\ [InsightsNext]_insightvars
        /\ [PageNext]_pagevars /\ [PortalPageNext]_ppvars /\ [ReviewPageNext]_reviewpagevars
        /\ [RoundPageNext]_roundvars /\ [EvidencePageNext]_evidencevars
        /\ [EntryPageNext]_entryvars
  BY DEF ServicesNext, services
<1>. QED
  BY <1>1, <1>2, PTL
  DEF ServicesSpec, AuditSpec, IdemSpec, ToolsSpec, EventsSpec, AiSpec, SignInSpec, TenancySpec,
      InsightsSpec, PageSpec, PortalPageSpec, ReviewPageSpec, RoundPageSpec, EvidencePageSpec,
      EntryPageSpec

===============================================================================
