--------------------------- MODULE RuntimeV2Proofs ---------------------------
(***************************************************************************)
(* Theorems about the V2 runtime, for any pack, any quotas and any clock.  *)
(***************************************************************************)
EXTENDS RuntimeV2, FiniteSetTheorems, TLAPS

-------------------------------------------------------------------------------
(* The inductive invariant. *)

(* The handlers modelled here stop at "submitted". *)
CandidateState ==
  {"invited", "disclosed", "preflight", "ready", "active", "paused_tech", "submitting", "submitted"}

(* The status column is the projection of the precise state. *)
Projected(rows) ==
  /\ rows.state \in CandidateState
  /\ rows.status = IF rows.state = "invited" THEN "none" ELSE V1Status(rows.state)

Sealed(rows) ==
  IF rows.receipt = NoReceipt
    THEN rows.state # "submitted" /\ \A p \in Path : rows.final[p] = 0
    ELSE /\ rows.state = "submitted" /\ rows.receipt.code # NoCode
         /\ rows.receipt.heads = rows.final /\ rows.final = rows.latest
         /\ \A p \in Required : rows.final[p] # 0

(* What an answered transaction is about to commit is one legal step of    *)
(* the rows it was computed from, which stay locked until then.            *)
Follows ==
  /\ db.receipt = NoReceipt
  /\ tx.scored >= db.scored
  /\ \A p \in Path : tx.latest[p] \in {db.latest[p], db.latest[p] + 1}
  /\ \/ tx.status = db.status /\ tx.receipt = NoReceipt
     \/ db.status = "none" /\ tx.status = "disclosure_pending" /\ tx.receipt = NoReceipt
     \/ db.status = "in_progress" /\ tx.status = "submitted" /\ tx.receipt # NoReceipt

ClockOK ==
  /\ db.activeSince # NoTime => db.activeSince <= now
  /\ activeTicks <= now
  /\ IsFiniteSet(told)

IInv ==
  /\ TypeOK /\ ClockOK
  /\ Projected(db) /\ Sealed(db)
  /\ tx # NoRows => Projected(tx) /\ Sealed(tx) /\ Follows
                    /\ (tx.activeSince # NoTime => tx.activeSince <= now)

-------------------------------------------------------------------------------
(* Whole seconds of a segment are a natural number. *)
LEMMA SecondsNat ==
  ASSUME now \in Nat,
         NEW since \in {NoTime} \cup Nat, since # NoTime => since <= now
  PROVE  Seconds(since) \in Nat
<1>1. CASE since = NoTime
  BY <1>1 DEF Seconds
<1>2. CASE since # NoTime
  <2>1. now - since \in Nat
    BY <1>2 DEF NoTime
  <2>2. TicksPerSecond \in Nat \ {0}
    BY RuntimeAssumption
  <2>3. (now - since) \div TicksPerSecond \in Nat
    BY <2>1, <2>2, SMT
  <2>. QED BY <1>2, <2>3 DEF Seconds
<1>. QED BY <1>1, <1>2

(* A transition of the session row keeps the row's type: the scored time only *)
(* grows, by whole seconds.                                                *)
LEMMA TransitionTyped ==
  ASSUME IInv, NEW event \in LifecycleEvent \cup {"begin_submit", "confirm_receipt"}, NEW t \in SessionStateV2 \ {"invited"}
  PROVE  Transition(db, event, t) \in Rows
<1>1. db \in Rows
  BY DEF IInv, TypeOK
<1>2. Seconds(db.activeSince) \in Nat
  BY SecondsNat, RuntimeAssumption DEF IInv, TypeOK, Rows, ClockOK
<1>3. ScoredBy(db, event) \in Nat
  BY <1>1, <1>2 DEF ScoredBy, Rows
<1>4. SinceAfter(db, event) \in {NoTime} \cup 0..MaxTime
  BY <1>1 DEF SinceAfter, Rows, IInv, TypeOK
<1>5. V1Status(t) \in SessionState
  BY DEF V1Status, SessionStateV2, SessionState
<1>. QED BY <1>1, <1>3, <1>4, <1>5 DEF Transition, Rows

-------------------------------------------------------------------------------
(* A fresh invitation: no session row, no artifact, nobody told anything. *)
LEMMA InitIInv == ASSUME Init PROVE IInv
<1>1. TypeOK
  BY RuntimeAssumption DEF Init, TypeOK, Rows, NoReceipt, NoCode, NoTime, SessionStateV2
<1>2. ClockOK
  BY FS_EmptySet DEF Init, ClockOK
<1>3. Projected(db) /\ Sealed(db) /\ tx = NoRows
  BY DEF Init, Projected, Sealed, CandidateState
<1>. QED BY <1>1, <1>2, <1>3 DEF IInv

(* A handler that commits at once: the new rows satisfy what the old did. *)
LEMMA LifecycleKeeps ==
  ASSUME IInv, NEW event \in LifecycleEvent, Lifecycle(event)
  PROVE  IInv'
<1>1. PICK t \in SessionStateV2 :
        <<db.state, event, t>> \in SessionTransitionV2 /\ db' = Transition(db, event, t)
  BY DEF Lifecycle
<1>2. t \in {"preflight", "ready", "active", "paused_tech"} /\ db.state \notin {"invited", "submitting", "submitted"}
  BY <1>1 DEF SessionTransitionV2, LifecycleEvent, IInv, Projected, CandidateState
<1>3. db' \in Rows
  BY <1>1, <1>2, TransitionTyped
<1>4. tx = NoRows /\ tx' = tx /\ now' = now /\ told' = told /\ activeTicks' = activeTicks
  BY DEF Lifecycle, Handles, Still
<1>5. TypeOK'
  BY <1>3, <1>4, RuntimeAssumption DEF Lifecycle, IInv, TypeOK, Still, Reply
<1>6. ClockOK'
  BY <1>1, <1>4 DEF Transition, SinceAfter, IInv, ClockOK, TypeOK, Rows, NoTime
<1>7. Projected(db)'
  BY <1>1, <1>2 DEF Transition, Projected, CandidateState, IInv, TypeOK, Rows
<1>8. Sealed(db)'
  BY <1>1, <1>2 DEF Transition, Sealed, IInv, TypeOK, Rows
<1>. QED BY <1>4, <1>5, <1>6, <1>7, <1>8 DEF IInv

(* GET /state changes nothing but, once the time is up, the state. *)
LEMMA PollKeeps ==
  ASSUME IInv, Poll
  PROVE  IInv'
<1>1. tx = NoRows /\ tx' = tx /\ now' = now /\ told' = told /\ activeTicks' = activeTicks
  BY DEF Poll, Handles, Still
<1>2. CASE db' = db
  BY <1>1, <1>2 DEF Poll, Still, Reply, IInv, TypeOK, ClockOK, Projected, Sealed
<1>3. CASE db.state = "active" /\ db' = Transition(db, "begin_submit", "submitting")
  <2>1. db' \in Rows
    BY <1>3, TransitionTyped DEF SessionStateV2
  <2>2. TypeOK'
    BY <1>1, <2>1 DEF Poll, IInv, TypeOK, Still, Reply
  <2>3. ClockOK' /\ Projected(db)' /\ Sealed(db)'
    BY <1>1, <1>3 DEF Transition, SinceAfter, IInv, ClockOK, Projected, Sealed, CandidateState,
                      TypeOK, Rows, NoTime
  <2>. QED BY <1>1, <2>2, <2>3 DEF IInv
<1>. QED BY <1>2, <1>3 DEF Poll

(* Disclosing inserts the session row and walks two transitions at once. *)
LEMMA DiscloseKeeps ==
  ASSUME IInv, Disclose
  PROVE  IInv'
<1>1. /\ db' = db /\ now' = now /\ told' = told /\ activeTicks' = activeTicks /\ db.state = "invited"
      /\ tx' = [db EXCEPT !.state = "disclosed", !.status = "disclosure_pending"]
  BY DEF Disclose, Still
<1>2. tx' \in Rows
  BY <1>1 DEF IInv, TypeOK, Rows, SessionStateV2, SessionState
<1>3. TypeOK'
  BY <1>1, <1>2 DEF Disclose, Still, Reply, IInv, TypeOK
<1>4. Projected(tx)' /\ Sealed(tx)' /\ Follows'
  BY <1>1 DEF IInv, TypeOK, Rows, Projected, Sealed, Follows, CandidateState, V1Status
<1>. QED BY <1>1, <1>3, <1>4 DEF IInv, ClockOK, Projected, Sealed, TypeOK, Rows

(* An artifact PUT adds one version and tells the client so before COMMIT. *)
LEMMA PutKeeps ==
  ASSUME IInv, NEW p \in Path, NEW base \in 0..MaxVersions, Put(p, base)
  PROVE  IInv'
<1>1. /\ db' = db /\ now' = now /\ told' = told /\ activeTicks' = activeTicks /\ db.state \in Writable
      /\ tx' = [db EXCEPT !.latest[p] = base + 1]
      /\ base = db.latest[p] /\ base + 1 \in 0..MaxVersions
  BY RuntimeAssumption DEF Put, Still
<1>2. tx' \in Rows
  BY <1>1 DEF IInv, TypeOK, Rows
<1>3. TypeOK'
  BY <1>1, <1>2 DEF Put, Still, Reply, IInv, TypeOK
<1>4. db.receipt = NoReceipt
  BY <1>1 DEF IInv, Sealed, Writable
<1>5. Projected(tx)' /\ Sealed(tx)' /\ Follows'
  BY <1>1, <1>4 DEF IInv, TypeOK, Rows, Projected, Sealed, Follows, Writable
<1>. QED BY <1>1, <1>3, <1>5 DEF IInv, ClockOK, Projected, Sealed, TypeOK, Rows

(* Finalise freezes, writes the receipt and answers, or throws, or replays. *)
LEMMA FinaliseKeeps ==
  ASSUME IInv, Finalise
  PROVE  IInv'
<1> DEFINE begun == IF db.state = "submitting" THEN db
                    ELSE Transition(db, "begin_submit", "submitting")
           finals == [p \in Path |-> IF db.final[p] # 0 THEN db.final[p] ELSE db.latest[p]]
           receipt == [code |-> Cardinality(told) + 1, heads |-> finals]
<1>1. /\ db' = db /\ now' = now /\ activeTicks' = activeTicks
      /\ tx' = [Transition(begun, "confirm_receipt", "submitted")
                  EXCEPT !.final = finals, !.receipt = receipt]
      /\ told' = told \cup {receipt}
      /\ db.receipt = NoReceipt /\ Missing = {}
      /\ db.state \in {"active", "submitting"}
  BY DEF Finalise, Still, Finalisable, Can, SessionTransitionV2
<1>2. finals = db.latest /\ finals \in [Path -> 0..MaxVersions]
  BY <1>1 DEF IInv, Sealed, TypeOK, Rows
<1>3. receipt \in [code : 1..MaxReceipts, heads : [Path -> 0..MaxVersions]]
  <2>1. Cardinality(told) \in Nat
    BY FS_CardinalityType DEF IInv, ClockOK
  <2>2. Cardinality(told) < MaxReceipts /\ MaxReceipts \in Nat
    BY RuntimeAssumption DEF Finalise
  <2>. QED BY <1>2, <2>1, <2>2
<1>4. receipt # NoReceipt /\ receipt.heads = finals /\ receipt.code # NoCode
  BY <1>3 DEF NoReceipt, NoCode
<1>5. begun \in Rows /\ begun.scored >= db.scored /\ begun.latest = db.latest
      /\ (begun.activeSince # NoTime => begun.activeSince <= now)
  <2>1. CASE db.state = "submitting"
    BY <2>1 DEF IInv, TypeOK, Rows, ClockOK
  <2>2. CASE db.state = "active"
    <3>1. begun = Transition(db, "begin_submit", "submitting")
      BY <2>2
    <3>2. begun \in Rows
      BY <3>1, TransitionTyped DEF SessionStateV2
    <3>3. Seconds(db.activeSince) \in Nat
      BY SecondsNat, RuntimeAssumption DEF IInv, TypeOK, Rows, ClockOK
    <3>4. /\ ScoredBy(db, "begin_submit") >= db.scored
          /\ SinceAfter(db, "begin_submit") = NoTime
      BY <3>3 DEF ScoredBy, SinceAfter, IInv, TypeOK, Rows
    <3>5. /\ begun.scored = ScoredBy(db, "begin_submit") /\ begun.latest = db.latest
          /\ begun.activeSince = SinceAfter(db, "begin_submit")
      BY <3>1 DEF Transition, IInv, TypeOK, Rows
    <3>. QED BY <3>2, <3>4, <3>5
  <2>. QED BY <1>1, <2>1, <2>2
<1> HIDE DEF begun, finals, receipt
<1>6. /\ V1Status("submitted") = "submitted"
      /\ SinceAfter(begun, "confirm_receipt") = begun.activeSince
      /\ ScoredBy(begun, "confirm_receipt") = begun.scored
  BY <1>5 DEF V1Status, SinceAfter, ScoredBy, Rows
<1>7. tx' = [begun EXCEPT !.state = "submitted", !.status = "submitted",
                          !.activeSince = begun.activeSince, !.scored = begun.scored,
                          !.final = finals, !.receipt = receipt]
  BY <1>1, <1>6 DEF Transition
<1>8. /\ tx' \in Rows
      /\ tx'.state = "submitted" /\ tx'.status = "submitted"
      /\ tx'.latest = db.latest /\ tx'.final = finals /\ tx'.receipt = receipt
      /\ tx'.scored = begun.scored /\ tx'.activeSince = begun.activeSince
  <2>1. receipt \in [code : 0..MaxReceipts, heads : [Path -> 0..MaxVersions]]
    BY <1>3
  <2>2. tx' = [state |-> "submitted", status |-> "submitted",
               activeSince |-> begun.activeSince, scored |-> begun.scored,
               latest |-> begun.latest, final |-> finals, receipt |-> receipt]
    BY <1>5, <1>7 DEF Rows
  <2>3. begun.activeSince \in {NoTime} \cup 0..MaxTime /\ begun.scored \in Nat
        /\ begun.latest \in [Path -> 0..MaxVersions]
    BY <1>5 DEF Rows
  <2>. QED BY <1>2, <1>5, <2>1, <2>2, <2>3 DEF Rows, SessionStateV2, SessionState
<1>9. TypeOK'
  BY <1>1, <1>3, <1>8 DEF Finalise, Still, Reply, IInv, TypeOK
<1>10. ClockOK'
  BY <1>1, FS_AddElement DEF IInv, ClockOK
<1>11. Projected(tx)' /\ Sealed(tx)'
  BY <1>1, <1>2, <1>3, <1>4, <1>8, RuntimeAssumption
     DEF Projected, Sealed, CandidateState, V1Status, Missing, NoCode
<1>12. Follows'
  BY <1>1, <1>4, <1>5, <1>8 DEF Follows, IInv, TypeOK, Rows, Projected, V1Status
<1>. QED BY <1>1, <1>5, <1>8, <1>9, <1>10, <1>11, <1>12 DEF IInv, Projected, Sealed

(* COMMIT installs the rows the answered transaction wrote, one legal step on. *)
LEMMA CommitKeeps ==
  ASSUME IInv, Commit
  PROVE  IInv'
BY DEF Commit, Still, IInv, TypeOK, ClockOK, Projected, Sealed

(* Replies that change no row, the clock, the token, a rollback. *)
LEMMA QuietKeeps ==
  ASSUME IInv, \/ FinaliseReplay \/ FinaliseRefuse \/ FinaliseThrow
               \/ Crash \/ Tick \/ TokenExpires \/ UNCHANGED vars
  PROVE  IInv'
<1>1. CASE FinaliseReplay
  <2>1. /\ UNCHANGED <<tokenLive, now, db, tx, activeTicks, segments>>
        /\ told' = told \cup {db.receipt} /\ answer' = "receipt"
        /\ db.receipt # NoReceipt /\ tx = NoRows
    BY <1>1 DEF FinaliseReplay, Handles, Still, Reply
  <2>2. db.receipt \in [code : 1..MaxReceipts, heads : [Path -> 0..MaxVersions]]
    BY <2>1 DEF IInv, TypeOK, Rows, Sealed, NoCode
  <2>3. TypeOK'
    BY <2>1, <2>2 DEF IInv, TypeOK
  <2>4. ClockOK'
    BY <2>1, FS_AddElement DEF IInv, ClockOK
  <2>. QED BY <2>1, <2>3, <2>4 DEF IInv, Projected, Sealed
<1>2. CASE FinaliseRefuse \/ FinaliseThrow
  BY <1>2 DEF FinaliseRefuse, FinaliseThrow, Handles, Still, Reply, IInv, TypeOK, ClockOK, Projected, Sealed
<1>3. CASE Crash
  BY <1>3 DEF Crash, Still, IInv, TypeOK, ClockOK, Projected, Sealed
<1>4. CASE Tick
  <2>1. /\ UNCHANGED <<tokenLive, db, tx, told, answer, segments>> /\ tx = NoRows
        /\ now < MaxTime /\ now' = now + 1 /\ activeTicks' \in {activeTicks, activeTicks + 1}
    BY <1>4 DEF Tick
  <2>2. MaxTime \in Nat /\ now' \in 0..MaxTime
    BY <2>1, RuntimeAssumption DEF IInv, TypeOK
  <2>3. activeTicks' \in 0..MaxTime /\ activeTicks' <= now'
    BY <2>1, <2>2 DEF IInv, TypeOK, ClockOK
  <2>4. TypeOK'
    BY <2>1, <2>2, <2>3 DEF IInv, TypeOK
  <2>5. ClockOK'
    BY <2>1, <2>2, <2>3 DEF IInv, TypeOK, ClockOK, Rows, NoTime
  <2>. QED BY <2>1, <2>4, <2>5 DEF IInv, Projected, Sealed
<1>5. CASE TokenExpires \/ UNCHANGED vars
  BY <1>5 DEF TokenExpires, vars, IInv, TypeOK, ClockOK, Projected, Sealed, Follows
<1>. QED BY <1>1, <1>2, <1>3, <1>4, <1>5

(* IInv is inductive: no handler, COMMIT, crash or tick of the clock breaks it. *)
THEOREM StepIInv == IInv /\ [Next]_vars => IInv'
BY LifecycleKeeps, PollKeeps, DiscloseKeeps, PutKeeps, FinaliseKeeps, CommitKeeps, QuietKeeps
   DEF Next

(* The invariant holds in every state the runtime reaches. *)
THEOREM Invariance == Spec => []IInv
<1>1. Init => IInv
  BY InitIInv
<1>. QED BY <1>1, StepIInv, PTL DEF Spec

-------------------------------------------------------------------------------
(* Every variable stays in its type, whatever the pack and the quotas. *)
THEOREM TypeCorrect == Spec => []TypeOK
<1>1. IInv => TypeOK
  BY DEF IInv
<1>. QED BY <1>1, Invariance, PTL

(* A receipt exists exactly in a submitted session and names the versions  *)
(* last saved on every path, the required ones included.                   *)
THEOREM ReceiptSeals == Spec => []ReceiptSealsFinals
<1>1. IInv => ReceiptSealsFinals
  BY DEF IInv, Sealed, ReceiptSealsFinals
<1>. QED BY <1>1, Invariance, PTL

(* A step of any handler, commit, crash or clock tick takes nothing back:  *)
(* see NothingTakenBack.                                                   *)
THEOREM TakesNothingBack == Spec => NothingTakenBack
<1>1. IInv /\ [Next]_vars
        => [ /\ db.receipt # NoReceipt => db' = db
             /\ \A p \in Path : db'.latest[p] \in {db.latest[p], db.latest[p] + 1}
             /\ db'.scored >= db.scored ]_vars
  <2> SUFFICES ASSUME IInv, Next
               PROVE  /\ db.receipt # NoReceipt => db' = db
                      /\ \A p \in Path : db'.latest[p] \in {db.latest[p], db.latest[p] + 1}
                      /\ db'.scored >= db.scored
    OBVIOUS
  <2>1. CASE db' = db
    BY <2>1 DEF IInv, TypeOK, Rows
  <2>2. CASE Commit
    BY <2>2 DEF Commit, IInv, Follows
  <2>3. ASSUME NEW event \in LifecycleEvent \cup {"begin_submit"}, NEW t \in SessionStateV2,
               db.state # "submitted", db' = Transition(db, event, t)
        PROVE  /\ db.receipt # NoReceipt => db' = db
               /\ db'.latest = db.latest /\ db'.scored >= db.scored
    <3>1. Seconds(db.activeSince) \in Nat
      BY SecondsNat, RuntimeAssumption DEF IInv, TypeOK, Rows, ClockOK
    <3>2. ScoredBy(db, event) >= db.scored
      BY <3>1 DEF ScoredBy, IInv, TypeOK, Rows
    <3>. QED BY <2>3, <3>2 DEF Transition, IInv, TypeOK, Rows, Sealed
  <2>4. CASE \E event \in LifecycleEvent : Lifecycle(event)
    BY <2>3, <2>4 DEF Lifecycle, SessionTransitionV2, LifecycleEvent
  <2>5. CASE Poll
    BY <2>1, <2>3, <2>5 DEF Poll, SessionStateV2
  <2>6. \/ db' = db \/ Commit \/ Poll
        \/ \E event \in LifecycleEvent : Lifecycle(event)
    BY DEF Next, Disclose, Put, FinaliseReplay, FinaliseRefuse, FinaliseThrow, Finalise,
           Crash, Tick, TokenExpires
  <2>. QED BY <2>1, <2>2, <2>4, <2>5, <2>6
<1>. QED BY <1>1, Invariance, PTL DEF Spec, NothingTakenBack

-------------------------------------------------------------------------------
(* One event of the V2 machine is one event of the V1 machine, or none. *)
LEMMA EventProjects ==
  ASSUME NEW s \in CandidateState \ {"invited"}, NEW event \in LifecycleEvent \cup {"begin_submit"},
         NEW t \in SessionStateV2, <<s, event, t>> \in SessionTransitionV2
  PROVE  \/ V1Status(t) = V1Status(s)
         \/ \E e \in {"acknowledge_disclosure", "start", "pause", "resume"} :
              <<V1Status(s), e, V1Status(t)>> \in SessionTransition
<1>1. \/ event = "complete_preflight" /\ s = "disclosed" /\ t = "preflight"
      \/ event = "check_in" /\ s = "preflight" /\ t = "ready"
      \/ event = "start" /\ s = "ready" /\ t = "active"
      \/ event = "pause_tech" /\ s = "active" /\ t = "paused_tech"
      \/ event = "resume" /\ s = "paused_tech" /\ t = "active"
      \/ event = "begin_submit" /\ s = "active" /\ t = "submitting"
  BY DEF SessionTransitionV2, LifecycleEvent, CandidateState
<1>2. /\ V1Status("disclosed") = "disclosure_pending" /\ V1Status("preflight") = "disclosure_pending"
      /\ V1Status("ready") = "ready" /\ V1Status("active") = "in_progress"
      /\ V1Status("paused_tech") = "paused" /\ V1Status("submitting") = "in_progress"
  BY DEF V1Status
<1>3. /\ <<"disclosure_pending", "acknowledge_disclosure", "ready">> \in SessionTransition
      /\ <<"ready", "start", "in_progress">> \in SessionTransition
      /\ <<"in_progress", "pause", "paused">> \in SessionTransition
      /\ <<"paused", "resume", "in_progress">> \in SessionTransition
  BY DEF SessionTransition
<1>. QED BY <1>1, <1>2, <1>3

(* A transition() whose rows carry no receipt is a Move of the V1 machine, *)
(* or leaves its view alone.                                                *)
LEMMA TransitionMoves ==
  ASSUME IInv, NEW event \in LifecycleEvent \cup {"begin_submit"}, NEW t \in SessionStateV2,
         <<db.state, event, t>> \in SessionTransitionV2, db.state # "invited",
         db' = Transition(db, event, t)
  PROVE  [V1View!Next]_V1View!vars
<1>1. /\ db.status = V1Status(db.state) /\ db.state \in CandidateState \ {"invited"}
      /\ db'.status = V1Status(t) /\ db'.receipt = db.receipt
  BY DEF IInv, Projected, TypeOK, Rows, Transition
<1>2. CASE db'.status = db.status
  BY <1>1, <1>2 DEF V1View!vars
<1>3. ASSUME NEW e \in {"acknowledge_disclosure", "start", "pause", "resume"},
             <<db.status, e, db'.status>> \in SessionTransition
      PROVE  V1View!Move
  <2> DEFINE m == <<db.status, e, db'.status>>
  <2>1. m[1] = db.status /\ m[2] = e /\ m[3] = db'.status
    OBVIOUS
  <2>2. e # "submit"
    OBVIOUS
  <2>3. \E x \in SessionTransition : x[1] = db.status /\ x[2] # "submit" /\ x[3] = db'.status
    <3> HIDE DEF m
    <3>1. m \in SessionTransition
      BY <1>3 DEF m
    <3>. QED BY <2>1, <2>2, <3>1
  <2>4. (db.receipt # NoReceipt)' = (db.receipt # NoReceipt)
    BY <1>1
  <2>5. V1View!SessionTransition = SessionTransition
    BY DEF SessionTransition, V1View!SessionTransition, Unsubmitted, V1View!Unsubmitted
  <2>. QED BY <2>3, <2>4, <2>5 DEF V1View!Move
<1>. QED BY <1>1, <1>2, <1>3, EventProjects DEF V1View!Next

(* Every step of the runtime is a step of the lifecycle the V1 reader sees, or *)
(* none at all: rows become visible at COMMIT only.                        *)
LEMMA StepProjects ==
  IInv /\ [Next]_vars => [V1View!Next]_V1View!vars
<1> SUFFICES ASSUME IInv, [Next]_vars PROVE [V1View!Next]_V1View!vars
  OBVIOUS
<1>1. CASE db' = db
  BY <1>1 DEF V1View!vars
<1>2. CASE Commit
  <2>1. db' = tx /\ Follows
    BY <1>2 DEF Commit, IInv
  <2>2. CASE tx.status = db.status /\ tx.receipt = NoReceipt
    BY <2>1, <2>2 DEF Follows, V1View!vars
  <2>3. CASE db.status = "none" /\ tx.status = "disclosure_pending" /\ tx.receipt = NoReceipt
    BY <2>1, <2>3 DEF Follows, V1View!Next, V1View!Open
  <2>4. CASE db.status = "in_progress" /\ tx.status = "submitted" /\ tx.receipt # NoReceipt
    BY <2>1, <2>4 DEF Follows, V1View!Next, V1View!Submit
  <2>. QED BY <2>1, <2>2, <2>3, <2>4 DEF Follows
<1>3. CASE \E event \in LifecycleEvent : Lifecycle(event)
  <2>1. PICK event \in LifecycleEvent, t \in SessionStateV2 :
          <<db.state, event, t>> \in SessionTransitionV2 /\ db' = Transition(db, event, t)
    BY <1>3 DEF Lifecycle
  <2>2. db.state # "invited"
    BY <2>1 DEF SessionTransitionV2, LifecycleEvent
  <2>. QED BY <2>1, <2>2, TransitionMoves
<1>4. CASE Poll
  <2>1. CASE db.state = "active" /\ db' = Transition(db, "begin_submit", "submitting")
    <3>1. <<db.state, "begin_submit", "submitting">> \in SessionTransitionV2
      BY <2>1 DEF SessionTransitionV2
    <3>. QED BY <2>1, <3>1, TransitionMoves DEF SessionStateV2
  <2>. QED BY <1>1, <1>4, <2>1 DEF Poll
<1>5. \/ db' = db \/ Commit \/ Poll
      \/ \E event \in LifecycleEvent : Lifecycle(event)
  BY DEF Next, vars, Disclose, Put, FinaliseReplay, FinaliseRefuse, FinaliseThrow, Finalise,
         Crash, Tick, TokenExpires
<1>. QED BY <1>1, <1>2, <1>3, <1>4, <1>5

(* The V2 runtime implements the session lifecycle under the projection of *)
(* its precise states.                                                     *)
THEOREM RuntimeImplementsLifecycle == Spec => ProjectionIsLifecycle
<1>1. Init => V1View!Init
  BY DEF Init, V1View!Init
<1>. QED BY <1>1, StepProjects, Invariance, PTL DEF Spec, ProjectionIsLifecycle, V1View!Spec

-------------------------------------------------------------------------------
(* The scored clock.  What makes TimeAccounted inductive is the account    *)
(* before rounding: the seconds charged plus the open segment, tick by     *)
(* tick, against the ticks spent active, and what rounding forgave counted *)
(* over the closed segments only.                                          *)

(* Whole seconds round a segment down by less than a second. *)
LEMMA DivBounds ==
  ASSUME NEW a \in Nat, NEW b \in Nat \ {0}
  PROVE  /\ a \div b \in Nat
         /\ (a \div b) * b <= a
         /\ a - (a \div b) * b <= b - 1
  OBVIOUS

(* One more segment allows one more second of rounding. *)
LEMMA Distributes ==
  ASSUME NEW a \in Int, NEW b \in Int, NEW c \in Int
  PROVE  (a + b) * c = a * c + b * c
  OBVIOUS

Open(rows) == rows.activeSince # NoTime
Elapsed(rows) == IF Open(rows) THEN now - rows.activeSince ELSE 0
Exact(rows) == rows.scored * TicksPerSecond + Elapsed(rows)
Forgiven == TicksPerSecond - 1

Charged(rows) ==
  /\ Open(rows) <=> rows.state = "active"
  /\ Exact(rows) <= activeTicks
  /\ activeTicks - Exact(rows) <= (IF Open(rows) THEN segments - 1 ELSE segments) * Forgiven

TimeInv == IInv /\ Charged(db) /\ (tx # NoRows => Charged(tx))

(* The types the clock's arithmetic needs, of either copy of the row. *)
LEMMA TimeTypes ==
  ASSUME IInv, NEW rows \in Rows, Open(rows) => rows.activeSince <= now
  PROVE  /\ rows.scored \in Nat /\ TicksPerSecond \in Nat \ {0} /\ Forgiven \in Nat
         /\ Elapsed(rows) \in Nat /\ activeTicks \in Nat /\ segments \in Nat /\ now \in Nat
         /\ rows.scored * TicksPerSecond \in Nat
<1>1. /\ rows.scored \in Nat /\ TicksPerSecond \in Nat \ {0}
      /\ activeTicks \in Nat /\ segments \in Nat /\ now \in Nat
  BY RuntimeAssumption DEF IInv, TypeOK, Rows
<1>2. Elapsed(rows) \in Nat /\ Forgiven \in Nat
  BY <1>1 DEF Elapsed, Open, Rows, Forgiven, NoTime
<1>3. rows.scored * TicksPerSecond \in Nat
  BY <1>1
<1>. QED BY <1>1, <1>2, <1>3

(* Rounding an open segment down charges at most what elapsed and forgives *)
(* less than a second.                                                     *)
LEMMA RoundsDown ==
  ASSUME IInv, Open(db)
  PROVE  /\ (db.scored + Seconds(db.activeSince)) * TicksPerSecond <= Exact(db)
         /\ Exact(db) - (db.scored + Seconds(db.activeSince)) * TicksPerSecond <= Forgiven
<1> DEFINE q == Seconds(db.activeSince)
<1>1. /\ db.scored \in Nat /\ TicksPerSecond \in Nat \ {0} /\ Elapsed(db) \in Nat
      /\ db.scored * TicksPerSecond \in Nat
  BY TimeTypes DEF IInv, TypeOK, ClockOK, Open
<1>2. q = Elapsed(db) \div TicksPerSecond
  BY DEF Seconds, Elapsed, Open
<1>3. q \in Nat /\ q * TicksPerSecond <= Elapsed(db) /\ Elapsed(db) - q * TicksPerSecond <= Forgiven
  BY <1>1, <1>2, DivBounds DEF Forgiven
<1>4. (db.scored + q) * TicksPerSecond = db.scored * TicksPerSecond + q * TicksPerSecond
  BY <1>1, <1>3, Distributes
<1>5. q * TicksPerSecond \in Nat
  BY <1>1, <1>3
<1> HIDE DEF q
<1>6. /\ (db.scored + q) * TicksPerSecond <= Exact(db)
      /\ Exact(db) - (db.scored + q) * TicksPerSecond <= Forgiven
  BY <1>1, <1>3, <1>4, <1>5 DEF Exact, Forgiven
<1>. QED BY <1>6 DEF q

(* Closing the open segment: one more second forgiven, one more segment    *)
(* closed.                                                                 *)
LEMMA ClosesSegment ==
  ASSUME IInv, Charged(db), Open(db), NEW rows,
         rows.scored = db.scored + Seconds(db.activeSince),
         rows.activeSince = NoTime, rows.state # "active"
  PROVE  Charged(rows)
<1>1. /\ TicksPerSecond \in Nat \ {0} /\ Forgiven \in Nat /\ db.scored \in Nat
      /\ activeTicks \in Nat /\ segments \in Nat
      /\ Elapsed(db) \in Nat /\ db.scored * TicksPerSecond \in Nat
  BY TimeTypes DEF IInv, TypeOK, ClockOK, Open
<1>2. Seconds(db.activeSince) \in Nat
  BY SecondsNat DEF IInv, TypeOK, Rows, ClockOK
<1>3. ~Open(rows) /\ Elapsed(rows) = 0 /\ rows.scored * TicksPerSecond \in Nat
  BY <1>1, <1>2 DEF Open, Elapsed
<1>4. /\ Exact(rows) \in Nat /\ Exact(db) \in Nat
      /\ Exact(rows) <= Exact(db) /\ Exact(db) - Exact(rows) <= Forgiven
  BY <1>1, <1>3, RoundsDown DEF Exact
<1>5. segments * Forgiven = (segments - 1) * Forgiven + Forgiven /\ (segments - 1) * Forgiven \in Int
  <2>1. ((segments - 1) + 1) * Forgiven = (segments - 1) * Forgiven + 1 * Forgiven
    BY <1>1, Distributes
  <2>. QED BY <1>1, <2>1
<1>6. Exact(rows) <= activeTicks /\ activeTicks - Exact(rows) <= segments * Forgiven
  BY <1>1, <1>4, <1>5 DEF Charged
<1>. QED BY <1>3, <1>6 DEF Charged

(* Rows that agree on state and clock columns have the same account. *)
LEMMA SameAccount ==
  ASSUME Charged(db), NEW rows, rows.scored = db.scored, rows.activeSince = db.activeSince,
         rows.state = "active" <=> db.state = "active"
  PROVE  Charged(rows)
BY DEF Charged, Exact, Elapsed, Open

(* A start or a resume opens a segment with nothing elapsed in it. *)
LEMMA LifecycleAccounts ==
  ASSUME TimeInv, NEW event \in LifecycleEvent, Lifecycle(event)
  PROVE  Charged(db)'
<1>1. PICK t \in SessionStateV2 :
        <<db.state, event, t>> \in SessionTransitionV2 /\ db' = Transition(db, event, t)
  BY DEF Lifecycle
<1>2. /\ now' = now /\ activeTicks' = activeTicks
      /\ segments' = IF event \in {"start", "resume"} THEN segments + 1 ELSE segments
      /\ db'.state = t /\ db'.activeSince = SinceAfter(db, event) /\ db'.scored = ScoredBy(db, event)
  BY <1>1 DEF Lifecycle, Still, Transition, TimeInv, IInv, TypeOK, Rows
<1>3. db.scored \in Nat /\ segments \in Nat /\ now \in Nat
  BY RuntimeAssumption DEF TimeInv, IInv, TypeOK, Rows
<1>4. CASE event \in {"start", "resume"}
  <2>1. db.state # "active" /\ t = "active"
    BY <1>1, <1>4 DEF SessionTransitionV2
  <2>2. ~Open(db) /\ Open(db)' /\ db'.activeSince = now /\ db'.scored = db.scored /\ segments' = segments + 1
    BY <1>2, <1>3, <1>4, <2>1 DEF TimeInv, Charged, Open, SinceAfter, ScoredBy, NoTime
  <2>3. Exact(db)' = Exact(db)
    BY <1>2, <1>3, <2>2 DEF Exact, Elapsed
  <2>. QED BY <1>2, <1>3, <2>1, <2>2, <2>3 DEF TimeInv, Charged, Forgiven
<1>5. CASE event = "pause_tech"
  <2>1. db.state = "active" /\ t # "active"
    BY <1>1, <1>5 DEF SessionTransitionV2
  <2>2. db'.scored = db.scored + Seconds(db.activeSince) /\ db'.activeSince = NoTime
    BY <1>2, <1>5 DEF ScoredBy, SinceAfter
  <2>3. Charged(db')
    BY <1>2, <2>1, <2>2, ClosesSegment DEF TimeInv, Charged
  <2>. QED BY <1>2, <1>5, <2>3 DEF Charged, Exact, Elapsed, Open, Forgiven
<1>6. CASE event \in {"complete_preflight", "check_in"}
  <2>1. db.state # "active" /\ t # "active"
    BY <1>1, <1>6 DEF SessionTransitionV2
  <2>2. db'.scored = db.scored /\ db'.activeSince = db.activeSince
    BY <1>2, <1>3, <1>6 DEF ScoredBy, SinceAfter
  <2>3. Charged(db')
    BY <1>2, <2>1, <2>2, SameAccount DEF TimeInv
  <2>. QED BY <1>2, <1>6, <2>3 DEF Charged, Exact, Elapsed, Open, Forgiven
<1>. QED BY <1>4, <1>5, <1>6 DEF LifecycleEvent

(* Time that passes is active time exactly while a segment is open. *)
LEMMA TickAccounts ==
  ASSUME TimeInv, Tick
  PROVE  Charged(db)'
<1>1. /\ db' = db /\ segments' = segments /\ now' = now + 1
      /\ activeTicks' = IF db.state = "active" THEN activeTicks + 1 ELSE activeTicks
  BY DEF Tick
<1>2. /\ db.scored * TicksPerSecond \in Nat /\ Elapsed(db) \in Nat /\ now \in Nat
      /\ activeTicks \in Nat
  BY TimeTypes DEF TimeInv, IInv, TypeOK, ClockOK, Open
<1>3. CASE Open(db)
  <2>1. Exact(db)' = Exact(db) + 1 /\ activeTicks' = activeTicks + 1 /\ Exact(db) \in Nat
    <3>1. Elapsed(db)' = Elapsed(db) + 1
      BY <1>1, <1>2, <1>3 DEF Elapsed, Open, TimeInv, IInv, TypeOK, Rows, NoTime
    <3>. QED BY <1>1, <1>2, <1>3, <3>1 DEF Exact, TimeInv, Charged
  <2>. QED BY <1>1, <1>2, <1>3, <2>1 DEF TimeInv, Charged, Open, Forgiven
<1>4. CASE ~Open(db)
  BY <1>1, <1>2, <1>4 DEF TimeInv, Charged, Exact, Elapsed, Open, Forgiven
<1>. QED BY <1>3, <1>4

(* Finalise closes the segment that start or resume opened. *)
LEMMA FinaliseAccounts ==
  ASSUME TimeInv, Finalise
  PROVE  Charged(tx)'
<1>1. /\ now' = now /\ activeTicks' = activeTicks /\ segments' = segments
      /\ db.state \in {"active", "submitting"} /\ db \in Rows
  BY DEF Finalise, Still, Finalisable, Can, SessionTransitionV2, TimeInv, IInv, TypeOK
<1>2. db.scored \in Nat /\ Seconds(db.activeSince) \in Nat
  BY SecondsNat DEF TimeInv, IInv, TypeOK, Rows, ClockOK
<1>3. tx'.state = "submitted"
      /\ tx'.scored = (IF db.state = "active" THEN db.scored + Seconds(db.activeSince) ELSE db.scored)
      /\ tx'.activeSince = NoTime
  <2>1. CASE db.state = "active"
    BY <1>1, <1>2, <2>1
       DEF Finalise, Transition, ScoredBy, SinceAfter, Rows, TimeInv, Charged, Open
  <2>2. CASE db.state = "submitting"
    BY <1>1, <1>2, <2>2
       DEF Finalise, Transition, ScoredBy, SinceAfter, Rows, TimeInv, Charged, Open
  <2>. QED BY <1>1, <2>1, <2>2
<1>4. Charged(tx')
  <2>1. CASE db.state = "active"
    BY <1>3, <2>1, ClosesSegment DEF TimeInv, Charged
  <2>2. CASE db.state = "submitting"
    BY <1>3, <2>2, SameAccount DEF TimeInv, Charged, Open
  <2>. QED BY <1>1, <2>1, <2>2
<1>. QED BY <1>1, <1>4 DEF Charged, Exact, Elapsed, Open, Forgiven

(* So does the poll that finds the time limit reached. *)
LEMMA PollAccounts ==
  ASSUME TimeInv, Poll
  PROVE  Charged(db)'
<1>1. /\ now' = now /\ activeTicks' = activeTicks /\ segments' = segments /\ db \in Rows
  BY DEF Poll, Still, TimeInv, IInv, TypeOK
<1>2. CASE db' = db
  BY <1>1, <1>2 DEF TimeInv, Charged, Exact, Elapsed, Open, Forgiven
<1>3. CASE db.state = "active" /\ db' = Transition(db, "begin_submit", "submitting")
  <2>1. /\ db'.scored = db.scored + Seconds(db.activeSince)
        /\ db'.activeSince = NoTime /\ db'.state = "submitting"
    BY <1>1, <1>3 DEF Transition, ScoredBy, SinceAfter, Rows
  <2>2. Charged(db')
    BY <1>3, <2>1, ClosesSegment DEF TimeInv, Charged
  <2>. QED BY <1>1, <2>2 DEF Charged, Exact, Elapsed, Open, Forgiven
<1>. QED BY <1>2, <1>3 DEF Poll

(* The account of the scored time is inductive too. *)
THEOREM StepTimeInv == TimeInv /\ [Next]_vars => TimeInv'
<1> SUFFICES ASSUME TimeInv, [Next]_vars PROVE Charged(db)' /\ (tx' # NoRows => Charged(tx)')
  BY StepIInv DEF TimeInv
<1> USE DEF TimeInv
<1>1. CASE Disclose \/ \E p \in Path, base \in 0..MaxVersions : Put(p, base)
  <2>1. /\ UNCHANGED <<db, now, activeTicks, segments>>
        /\ tx'.scored = db.scored /\ tx'.activeSince = db.activeSince
        /\ tx'.state = "active" <=> db.state = "active"
    BY <1>1 DEF Disclose, Put, Still, IInv, TypeOK, Rows
  <2>2. Charged(tx')
    BY <2>1, SameAccount
  <2>. QED BY <2>1, <2>2 DEF Charged, Exact, Elapsed, Open, Forgiven
<1>2. CASE \E event \in LifecycleEvent : Lifecycle(event)
  BY <1>2, LifecycleAccounts DEF Lifecycle, Handles
<1>3. CASE Poll
  BY <1>3, PollAccounts DEF Poll, Handles
<1>4. CASE Finalise
  <2>1. UNCHANGED <<db, now, activeTicks, segments>>
    BY <1>4 DEF Finalise, Still
  <2>. QED BY <1>4, <2>1, FinaliseAccounts DEF Charged, Exact, Elapsed, Open, Forgiven
<1>5. CASE Commit
  BY <1>5 DEF Commit, Still, Charged, Exact, Elapsed, Open, Forgiven
<1>6. CASE Tick
  BY <1>6, TickAccounts DEF Tick
<1>7. CASE FinaliseReplay \/ FinaliseRefuse \/ FinaliseThrow \/ Crash \/ TokenExpires \/ UNCHANGED vars
  <2>1. UNCHANGED <<db, now, activeTicks, segments>> /\ tx' \in {tx, NoRows}
    BY <1>7 DEF FinaliseReplay, FinaliseRefuse, FinaliseThrow, Crash, TokenExpires, Still, vars
  <2>. QED BY <2>1 DEF Charged, Exact, Elapsed, Open, Forgiven
<1>. QED BY <1>1, <1>2, <1>3, <1>4, <1>5, <1>6, <1>7 DEF Next

(* The scored clock never charges more than the time spent active, and     *)
(* forgives less than one second for each start or resume.                 *)
THEOREM ClockAccounts == Spec => []TimeAccounted
<1>1. Init => TimeInv
  <2> SUFFICES ASSUME Init PROVE Charged(db) /\ tx = NoRows
    BY InitIInv DEF TimeInv
  <2>1. Exact(db) = 0 /\ ~Open(db) /\ activeTicks = 0 /\ segments = 0 /\ Forgiven \in Nat
    BY RuntimeAssumption DEF Init, Exact, Elapsed, Open, Forgiven
  <2>. QED BY <2>1 DEF Init, Charged
<1>2. TimeInv => TimeAccounted
  <2> SUFFICES ASSUME TimeInv PROVE TimeAccounted
    OBVIOUS
  <2>1. /\ Exact(db) \in Nat /\ activeTicks \in Nat /\ segments \in Nat /\ Forgiven \in Nat
        /\ db.scored \in Nat /\ TicksPerSecond \in Nat
    BY TimeTypes DEF TimeInv, IInv, TypeOK, ClockOK, Open, Exact
  <2>2. CASE Open(db)
    <3> DEFINE charged == (db.scored + Seconds(db.activeSince)) * TicksPerSecond
    <3>1. charged <= Exact(db) /\ Exact(db) - charged <= Forgiven
      BY <2>2, RoundsDown DEF TimeInv
    <3>2. ((segments - 1) + 1) * Forgiven = (segments - 1) * Forgiven + 1 * Forgiven
      BY <2>1, Distributes
    <3>3. charged \in Nat /\ (segments - 1) * Forgiven \in Int
      <4>1. Seconds(db.activeSince) \in Nat
        BY SecondsNat DEF TimeInv, IInv, TypeOK, Rows, ClockOK
      <4>. QED BY <2>1, <4>1
    <3> HIDE DEF charged
    <3>4. charged <= activeTicks /\ activeTicks - charged <= segments * Forgiven
      BY <2>1, <2>2, <3>1, <3>2, <3>3 DEF TimeInv, Charged
    <3>. QED BY <3>4 DEF charged, TimeAccounted, Forgiven
  <2>3. CASE ~Open(db)
    <3>1. Seconds(db.activeSince) = 0 /\ Exact(db) = db.scored * TicksPerSecond
      BY <2>1, <2>3 DEF Seconds, Open, Exact, Elapsed
    <3>. QED BY <2>1, <2>3, <3>1 DEF TimeInv, Charged, TimeAccounted, Forgiven
  <2>. QED BY <2>2, <2>3
<1>. QED BY <1>1, <1>2, StepTimeInv, PTL DEF Spec
-------------------------------------------------------------------------------
(* The time limit is reached: the liveness property, under the run's       *)
(* fairness.                                                               *)

OverLimit == db.state = "active" /\ Remaining <= 0
Ended == db.state # "active" \/ ~tokenLive

(* When the two fair actions can be taken, in guards.  The prover cannot   *)
(* look into ENABLED, so this is a hypothesis of the theorem, which TLC    *)
(* confirms.                                                               *)
StepsEnabled ==
  /\ tx # NoRows => ENABLED <<Commit>>_vars
  /\ tx = NoRows /\ tokenLive /\ OverLimit => ENABLED <<Poll>>_vars

(* A transaction that is still to commit leaves an active session's clock. *)
ClockWaits ==
  tx # NoRows /\ tx.state = "active" =>
    db.state = "active" /\ tx.scored = db.scored /\ tx.activeSince = db.activeSince

LEMMA ClockWaitsStep == ASSUME IInv, ClockWaits, [Next]_vars PROVE ClockWaits'
<1>. USE DEF ClockWaits
<1>1. CASE Disclose \/ \E p \in Path, base \in 0..MaxVersions : Put(p, base)
  BY <1>1 DEF Disclose, Put, Still, IInv, TypeOK, Rows
<1>2. CASE Finalise
  <2>1. tx' # NoRows => tx'.state = "submitted"
    <3>1. db \in Rows
      BY DEF IInv, TypeOK
    <3>. QED BY <1>2, <3>1 DEF Finalise, Transition, Rows
  <2>. QED BY <2>1
<1>3. CASE Commit \/ Crash
  BY <1>3 DEF Commit, Crash
<1>4. CASE \/ \E event \in LifecycleEvent : Lifecycle(event)
           \/ Poll \/ FinaliseReplay \/ FinaliseRefuse \/ FinaliseThrow \/ Tick
  BY <1>4 DEF Lifecycle, Poll, FinaliseReplay, FinaliseRefuse, FinaliseThrow, Tick, Handles
<1>5. CASE TokenExpires \/ UNCHANGED vars
  BY <1>5 DEF TokenExpires, vars
<1>. QED BY <1>1, <1>2, <1>3, <1>4, <1>5 DEF Next

(* Whole seconds elapsed do not shrink as the clock ticks. *)
LEMMA DivGrows ==
  ASSUME NEW a \in Nat, NEW b \in Nat \ {0}
  PROVE  a \div b <= (a + 1) \div b
  OBVIOUS

(* Once over the limit a session stays there until it ends: no save, crash *)
(* or COMMIT gives time back.                                              *)
LEMMA OverLimitStays ==
  ASSUME IInv, ClockWaits, OverLimit, [Next]_vars PROVE OverLimit' \/ Ended'
<1>1. CASE UNCHANGED <<db, now>>
  BY <1>1 DEF OverLimit, Remaining, Seconds
<1>2. CASE \E event \in LifecycleEvent : Lifecycle(event)
  <2>1. PICK event \in LifecycleEvent, t \in SessionStateV2 :
          <<db.state, event, t>> \in SessionTransitionV2 /\ db' = Transition(db, event, t)
    BY <1>2 DEF Lifecycle
  <2>2. t # "active"
    BY <2>1 DEF OverLimit, SessionTransitionV2, LifecycleEvent
  <2>. QED BY <2>1, <2>2 DEF Transition, Ended, IInv, TypeOK, Rows
<1>3. CASE Poll
  BY <1>3 DEF Poll, OverLimit, Transition, Ended, IInv, TypeOK, Rows
<1>4. CASE Commit
  <2>1. db' = tx /\ tx # NoRows /\ now' = now
    BY <1>4 DEF Commit, Still
  <2>. QED BY <2>1 DEF ClockWaits, OverLimit, Remaining, Seconds, Ended
<1>5. CASE Tick
  <2>1. db' = db /\ now' = now + 1 /\ now \in Nat /\ TicksPerSecond \in Nat \ {0} /\ Timebox \in Nat
    BY <1>5, RuntimeAssumption DEF Tick, IInv, TypeOK
  <2>2. /\ db.scored \in Nat /\ db.activeSince \in {NoTime} \cup Nat
        /\ db.activeSince # NoTime => db.activeSince <= now
    BY RuntimeAssumption DEF IInv, TypeOK, Rows, ClockOK
  <2>3. CASE db.activeSince = NoTime
    BY <2>1, <2>2, <2>3 DEF OverLimit, Remaining, Seconds
  <2>4. CASE db.activeSince # NoTime
    <3>1. PICK e \in Nat : e = now - db.activeSince /\ now + 1 - db.activeSince = e + 1
      BY <2>1, <2>2, <2>4 DEF NoTime
    <3>0. e + 1 \in Nat
      OBVIOUS
    <3>2. e \div TicksPerSecond <= (e + 1) \div TicksPerSecond
      BY <2>1, DivGrows
    <3>3. e \div TicksPerSecond \in Nat /\ (e + 1) \div TicksPerSecond \in Nat
      BY <2>1, <3>0, DivBounds
    <3>4. Remaining = Timebox - db.scored - e \div TicksPerSecond
      BY <2>4, <3>1 DEF Remaining, Seconds
    <3>5. Remaining' = Timebox - db.scored - (e + 1) \div TicksPerSecond
      <4>1. db'.activeSince # NoTime /\ now' - db'.activeSince = e + 1 /\ db'.scored = db.scored
        <5>1. db.activeSince \in Int
          BY <2>2 DEF NoTime
        <5>. QED BY <2>1, <2>4, <3>1, <5>1
      <4>2. Remaining' = Timebox - db'.scored - (now' - db'.activeSince) \div TicksPerSecond
        BY <4>1 DEF Remaining, Seconds
      <4>. QED BY <4>1, <4>2
    <3>. QED BY <2>1, <2>2, <3>2, <3>3, <3>4, <3>5 DEF OverLimit
  <2>. QED BY <2>3, <2>4
<1>6. CASE \/ Disclose \/ Finalise \/ \E p \in Path, base \in 0..MaxVersions : Put(p, base)
           \/ FinaliseReplay \/ FinaliseRefuse \/ FinaliseThrow \/ Crash \/ TokenExpires
           \/ UNCHANGED vars
  BY <1>1, <1>6 DEF Disclose, Finalise, Put, FinaliseReplay, FinaliseRefuse, FinaliseThrow, Crash,
                    TokenExpires, Still, vars
<1>. QED BY <1>2, <1>3, <1>4, <1>5, <1>6 DEF Next

(* At the time limit a session stops being active, however long the page   *)
(* keeps saving in it: transactions end, and the poll gets its turn among  *)
(* them (v2/runtime.ts, GET state).                                        *)
THEOREM TimeLimitReached == FairSpec /\ []StepsEnabled => TimeLimitEnds
<1>1. Spec => [](IInv /\ ClockWaits)
  <2>1. Init => ClockWaits
    BY DEF Init, ClockWaits
  <2>2. IInv /\ ClockWaits /\ [Next]_vars => ClockWaits'
    BY ClockWaitsStep
  <2>. QED BY Invariance, <2>1, <2>2, PTL DEF Spec
<1>2. IInv /\ ClockWaits /\ OverLimit /\ [Next]_vars => OverLimit' \/ Ended'
  BY OverLimitStays
<1>3. IInv /\ OverLimit /\ <<Poll>>_vars => Ended'
  BY DEF Poll, OverLimit, Transition, Ended, IInv, TypeOK, Rows
<1>4. <<Commit>>_vars => (tx = NoRows)'
  BY DEF Commit
<1>5. OverLimit /\ ~Ended => tokenLive
  BY DEF Ended
<1>6. FairSpec /\ []StepsEnabled => (OverLimit ~> Ended)
  <2>1. StepsEnabled => (~(tx = NoRows) => ENABLED <<Commit>>_vars)
    BY DEF StepsEnabled
  <2>2. StepsEnabled => (tx = NoRows /\ tokenLive /\ OverLimit => ENABLED <<Poll>>_vars)
    BY DEF StepsEnabled
  <2>. QED BY <1>1, <1>2, <1>3, <1>4, <1>5, <2>1, <2>2, PTL DEF FairSpec, Spec, Fairness
<1>. QED BY <1>6 DEF OverLimit, Ended, TimeLimitEnds

-------------------------------------------------------------------------------
(* Why a candidate may come to hold two receipts, and only then. *)

(* The candidate holds the receipt that is committed, or about to be. *)
ToldKept ==
  told \subseteq IF tx # NoRows /\ tx.receipt # NoReceipt
                   THEN {tx.receipt} ELSE {db.receipt} \ {NoReceipt}

(* Only a finalisation writes a receipt. *)
LEMMA ReceiptUntouched ==
  ASSUME IInv, \/ Disclose \/ Poll
               \/ \E event \in LifecycleEvent : Lifecycle(event)
               \/ \E p \in Path, base \in 0..MaxVersions : Put(p, base)
  PROVE  /\ told' = told /\ tx = NoRows /\ db'.receipt = db.receipt
         /\ tx' = NoRows \/ tx'.receipt = db.receipt
<1>1. db \in Rows
  BY DEF IInv, TypeOK
<1>2. \A event, t : Transition(db, event, t).receipt = db.receipt
  BY <1>1 DEF Transition, Rows
<1>3. CASE Disclose
  BY <1>1, <1>3 DEF Disclose, Handles, Rows
<1>4. CASE Poll
  BY <1>2, <1>4 DEF Poll, Handles
<1>5. CASE \E event \in LifecycleEvent : Lifecycle(event)
  BY <1>2, <1>5 DEF Lifecycle, Handles
<1>6. ASSUME NEW p \in Path, NEW base \in 0..MaxVersions, Put(p, base)
      PROVE  /\ told' = told /\ tx = NoRows /\ db' = db /\ tx'.receipt = db.receipt
  BY <1>1, <1>6 DEF Put, Handles, Rows
<1>. QED BY <1>3, <1>4, <1>5, <1>6

(* A finalisation leaves rows that are submitted. *)
LEMMA FinaliseSubmits == ASSUME IInv, Finalise PROVE tx'.state = "submitted"
<1> DEFINE begun == IF db.state = "submitting" THEN db
                    ELSE Transition(db, "begin_submit", "submitting")
           finals == [p \in Path |-> IF db.final[p] # 0 THEN db.final[p] ELSE db.latest[p]]
           receipt == [code |-> Cardinality(told) + 1, heads |-> finals]
<1>1. tx' = [Transition(begun, "confirm_receipt", "submitted")
               EXCEPT !.final = finals, !.receipt = receipt]
  BY DEF Finalise
<1>2. "state" \in DOMAIN begun
  BY DEF IInv, TypeOK, Rows, Transition
<1>. HIDE DEF begun, finals, receipt
<1>. QED BY <1>1, <1>2 DEF Transition

LEMMA ToldStep ==
  ASSUME IInv, IInv', ToldKept, [Next]_vars, Crash => tx.receipt = NoReceipt
  PROVE  ToldKept'
<1>1. tx' # NoRows => db'.receipt = NoReceipt
  BY DEF IInv, Follows
<1>2. tx # NoRows => db.receipt = NoReceipt
  BY DEF IInv, Follows
<1>3. CASE \/ Disclose \/ Poll
           \/ \E event \in LifecycleEvent : Lifecycle(event)
           \/ \E p \in Path, base \in 0..MaxVersions : Put(p, base)
  BY <1>1, <1>3, ReceiptUntouched DEF ToldKept
<1>4. CASE Finalise
  <2>. DEFINE begun == IF db.state = "submitting" THEN db
                       ELSE Transition(db, "begin_submit", "submitting")
              finals == [p \in Path |-> IF db.final[p] # 0 THEN db.final[p] ELSE db.latest[p]]
              receipt == [code |-> Cardinality(told) + 1, heads |-> finals]
  <2>1. /\ tx = NoRows /\ db.receipt = NoReceipt /\ told' = told \cup {receipt}
        /\ tx' = [Transition(begun, "confirm_receipt", "submitted")
                    EXCEPT !.final = finals, !.receipt = receipt]
    BY <1>4 DEF Finalise, Handles
  <2>2. \A r : Transition(begun, "confirm_receipt", "submitted").receipt = r =>
                 "receipt" \in DOMAIN Transition(begun, "confirm_receipt", "submitted")
    <3>1. db \in Rows
      BY DEF IInv, TypeOK
    <3>2. "receipt" \in DOMAIN begun
      BY <3>1 DEF Transition, Rows
    <3>. QED BY <3>2 DEF Transition
  <2>3. tx'.receipt = receipt
    BY <2>1, <2>2
  <2>4. receipt # NoReceipt
    <3>1. Cardinality(told) \in Nat
      BY FS_CardinalityType DEF IInv, ClockOK
    <3>. QED BY <3>1 DEF NoReceipt, NoCode
  <2>5. told = {} /\ tx' # NoRows
    <3>1. tx'.state = "submitted"
      BY <1>4, FinaliseSubmits
    <3>. QED BY <2>1, <3>1 DEF ToldKept, NoRows
  <2>. HIDE DEF receipt
  <2>. QED BY <2>1, <2>3, <2>4, <2>5 DEF ToldKept
<1>5. CASE FinaliseReplay
  BY <1>5 DEF FinaliseReplay, Handles, ToldKept
<1>6. CASE FinaliseRefuse \/ FinaliseThrow \/ Tick \/ TokenExpires \/ UNCHANGED vars
  BY <1>6 DEF FinaliseRefuse, FinaliseThrow, Tick, TokenExpires, vars, ToldKept
<1>7. CASE Commit
  BY <1>2, <1>7 DEF Commit, ToldKept
<1>8. CASE Crash
  BY <1>8 DEF Crash, ToldKept
<1>. QED BY <1>3, <1>4, <1>5, <1>6, <1>7, <1>8 DEF Next

(* "One receipt per session regardless of concurrency" holds, for any      *)
(* number of calls of finalise, unless the COMMIT of a finalisation that   *)
(* has been answered is lost: replying from inside the transaction is the  *)
(* whole of what makes OneReceipt false (v2/runtime.ts:768).               *)
THEOREM OneReceiptUnlessLost ==
  Spec /\ [][Crash => tx.receipt = NoReceipt]_vars => []OneReceipt
<1>1. Init => ToldKept
  BY DEF Init, ToldKept
<1>2. UNCHANGED vars => UNCHANGED <<told, tx, db>>
  BY DEF vars
<1>3. ToldKept => OneReceipt
  <2>. SUFFICES ASSUME ToldKept PROVE Cardinality(told) <= 1
    BY DEF OneReceipt
  <2>1. PICK r : told \subseteq {r}
    BY DEF ToldKept
  <2>2. CASE told = {}
    <3>1. Cardinality(told) = 0
      BY <2>2, FS_EmptySet
    <3>. QED BY <3>1
  <2>3. CASE told # {}
    <3>1. told = {r}
      BY <2>1, <2>3
    <3>2. Cardinality(told) = 1
      BY <3>1, FS_Singleton
    <3>. QED BY <3>2
  <2>. QED BY <2>2, <2>3
<1>4. IInv /\ IInv' /\ ToldKept /\ [Next]_vars /\ [Crash => tx.receipt = NoReceipt]_vars => ToldKept'
  BY <1>2, ToldStep DEF ToldKept
<1>. QED BY <1>1, <1>3, <1>4, Invariance, PTL DEF Spec

-------------------------------------------------------------------------------
(* Why a refused finalisation may leave a session that takes no more. *)

(* Whoever was answered "incomplete" may write, and nothing that is being  *)
(* committed forbids it.                                                   *)
StillMutable ==
  /\ db.state # "submitting"
  /\ tx # NoRows => tx.state # "submitting"
  /\ answer = "incomplete" => tx = NoRows /\ db.state \in Writable

LEMMA MutableStep ==
  ASSUME IInv, StillMutable, [Next]_vars, db.state = "active" => Remaining > 0
  PROVE  StillMutable'
<1>1. ASSUME NEW event \in LifecycleEvent, Lifecycle(event) PROVE StillMutable'
  <2>1. PICK t \in SessionStateV2 :
          <<db.state, event, t>> \in SessionTransitionV2 /\ db' = Transition(db, event, t)
    BY <1>1 DEF Lifecycle
  <2>2. t # "submitting"
    BY <2>1 DEF SessionTransitionV2, LifecycleEvent
  <2>3. db'.state = t
    BY <2>1 DEF Transition, IInv, TypeOK, Rows
  <2>. QED BY <1>1, <2>2, <2>3 DEF Lifecycle, Handles, Reply, StillMutable
<1>2. CASE Poll
  <2>1. Remaining \in Int
    <3>1. Seconds(db.activeSince) \in Nat
      BY SecondsNat, RuntimeAssumption DEF IInv, TypeOK, Rows, ClockOK
    <3>. QED BY <3>1, RuntimeAssumption DEF Remaining, IInv, TypeOK, Rows
  <2>2. ~(db.state = "active" /\ Remaining <= 0)
    BY <2>1
  <2>3. db' = db /\ tx' = tx /\ answer' = "ok"
    BY <1>2, <2>2 DEF Poll, Reply
  <2>. QED BY <2>3 DEF StillMutable
<1>3. CASE Disclose
  <2>1. tx'.state = "disclosed"
    BY <1>3 DEF Disclose, IInv, TypeOK, Rows
  <2>. QED BY <1>3, <2>1 DEF Disclose, Reply, StillMutable
<1>4. ASSUME NEW p \in Path, NEW base \in 0..MaxVersions, Put(p, base) PROVE StillMutable'
  <2>1. tx'.state = db.state
    BY <1>4 DEF Put, IInv, TypeOK, Rows
  <2>. QED BY <1>4, <2>1 DEF Put, Reply, StillMutable
<1>5. CASE Finalise
  <2>1. tx'.state = "submitted"
    BY <1>5, FinaliseSubmits
  <2>. QED BY <1>5, <2>1 DEF Finalise, Reply, StillMutable
<1>6. CASE FinaliseRefuse
  BY <1>6 DEF FinaliseRefuse, Handles, Finalisable, Writable, Reply, StillMutable
<1>7. CASE FinaliseReplay \/ FinaliseThrow
  BY <1>7 DEF FinaliseReplay, FinaliseThrow, Reply, StillMutable
<1>8. CASE Commit \/ Crash \/ Tick \/ TokenExpires \/ UNCHANGED vars
  BY <1>8 DEF Commit, Crash, Tick, TokenExpires, Still, vars, StillMutable
<1>. QED BY <1>1, <1>2, <1>3, <1>4, <1>5, <1>6, <1>7, <1>8 DEF Next

(* "Validation failures leave the session active and mutable" until the    *)
(* time limit: a candidate who never runs out of time may go on writing    *)
(* after every refused finalisation (v2/runtime.ts:686).                   *)
THEOREM MutableWithinTime ==
  Spec /\ [](db.state = "active" => Remaining > 0) => []RefusalLeavesMutable
<1>1. Init => StillMutable
  BY DEF Init, StillMutable
<1>2. IInv /\ StillMutable /\ [Next]_vars /\ (db.state = "active" => Remaining > 0) => StillMutable'
  BY MutableStep
<1>3. StillMutable => RefusalLeavesMutable
  BY DEF StillMutable, RefusalLeavesMutable
<1>. QED BY <1>1, <1>2, <1>3, Invariance, PTL DEF Spec

===============================================================================
