------------------------------ MODULE BoundsProofs ------------------------------
(***************************************************************************)
(* Theorems about what a check without a lock lets through: guesses of a   *)
(* password, tokens of a model, tool calls and turns, invitations under a  *)
(* plan, open proposals.  They hold for any limit and any number of        *)
(* requests at a time, and say by how much the limit is passed.            *)
(***************************************************************************)
EXTENDS SignIn, AiGateway, SessionTools, Hiring, Insights, FiniteSetTheorems, WellFoundedInduction,
        TLAPS

-------------------------------------------------------------------------------
(* Sign-in. *)

(* The failures recorded and the attempts that have passed the count.      *)
Counted == {a \in Attempt : signing[a] = "counted"}

GuessIInv ==
  /\ wrong \in Nat /\ turned \in Nat
  /\ signing \in [Attempt -> {"idle", "counted"}]
  /\ wrong + Cardinality(Counted) <= LOCKOUT_THRESHOLD - 1 + Cardinality(Attempt)

(* A subset of a finite set, with one element more or less. *)
LEMMA OneMore ==
  ASSUME NEW S, IsFiniteSet(S), NEW T \in SUBSET S, NEW x \in S, x \notin T
  PROVE  /\ Cardinality(T \cup {x}) = Cardinality(T) + 1
         /\ Cardinality(T \cup {x}) <= Cardinality(S)
         /\ Cardinality(T) \in Nat /\ Cardinality(S) \in Nat
<1>1. IsFiniteSet(T) /\ IsFiniteSet(T \cup {x})
  BY FS_Subset
<1>2. Cardinality(T \cup {x}) = Cardinality(T) + 1
  BY <1>1, FS_AddElement
<1>3. Cardinality(T \cup {x}) <= Cardinality(S)
  BY FS_Subset
<1>. QED BY <1>1, <1>2, <1>3, FS_CardinalityType

LEMMA NoMore ==
  ASSUME NEW S, IsFiniteSet(S), NEW T \in SUBSET S
  PROVE  Cardinality(T) <= Cardinality(S) /\ Cardinality(T) \in Nat /\ Cardinality(S) \in Nat
  BY FS_Subset, FS_CardinalityType

LEMMA GuessInit == ASSUME SignInInit PROVE GuessIInv
<1>1. Counted = {}
  BY DEF SignInInit, Counted
<1>. QED BY <1>1, FS_EmptySet, FS_CardinalityType, SignInAssumption DEF SignInInit, GuessIInv

LEMMA GuessStep == ASSUME GuessIInv, [SignInNext]_signvars PROVE GuessIInv'
<1>. USE SignInAssumption DEF GuessIInv
<1>1. ASSUME UNCHANGED <<wrong, turned, signing>> PROVE GuessIInv'
  BY <1>1 DEF Counted
<1>2. Counted \in SUBSET Attempt
  BY DEF Counted
<1>3. Cardinality(Counted) <= Cardinality(Attempt) /\ Cardinality(Counted) \in Nat /\ Cardinality(Attempt) \in Nat
  BY <1>2, NoMore
<1>4. CASE Hour \/ FailureAges
  <2>1. wrong' \in Nat /\ turned' \in Nat /\ wrong' <= wrong /\ signing' = signing
    BY <1>4 DEF Hour, FailureAges
  <2>2. Counted' = Counted
    BY <2>1 DEF Counted
  <2>. QED BY <1>3, <2>1, <2>2
<1>5. ASSUME NEW a \in Attempt, CountFailures(a) PROVE GuessIInv'
  <2>1. wrong <= LOCKOUT_THRESHOLD - 1 /\ wrong' = wrong /\ turned' = turned
        /\ signing' \in [Attempt -> {"idle", "counted"}]
    BY <1>5 DEF CountFailures, LockedOut
  <2>2. Counted' \in SUBSET Attempt
    BY DEF Counted
  <2>3. Cardinality(Counted') <= Cardinality(Attempt) /\ Cardinality(Counted') \in Nat
    BY <2>2, NoMore
  <2>. QED BY <1>3, <2>1, <2>3
<1>6. ASSUME NEW a \in Attempt, TurnAway(a) PROVE GuessIInv'
  BY <1>6 DEF TurnAway, Counted
<1>7. ASSUME NEW a \in Attempt, signing[a] = "counted", signing' = [signing EXCEPT ![a] = "idle"],
             turned' = turned, wrong' \in {wrong, wrong + 1}
      PROVE  GuessIInv'
  <2>1. Counted = Counted' \cup {a} /\ a \notin Counted' /\ Counted' \in SUBSET Attempt
    BY <1>7 DEF Counted
  <2>2. Cardinality(Counted) = Cardinality(Counted') + 1 /\ Cardinality(Counted') \in Nat
    BY <2>1, OneMore
  <2>. QED BY <1>3, <1>7, <2>2
<1>8. ASSUME NEW a \in Attempt, RejectPassword(a) \/ \E t \in Token : AcceptPassword(a, t) PROVE GuessIInv'
  BY <1>7, <1>8 DEF RejectPassword, AcceptPassword
<1>9. CASE UNCHANGED signvars
  BY <1>1, <1>9 DEF signvars
<1>. QED
  BY <1>1, <1>4, <1>5, <1>6, <1>8, <1>9
  DEF SignInNext, RequireAuth, Logout, RevokeAll, Export, StepUp, EnrollTotp, VerifyTotpRead,
      VerifyTotpWrite

(* The passwords looked at within a window pass the lockout's threshold by *)
(* no more than the attempts that run at once (auth/routes.ts).            *)
THEOREM GuessingBounded == SignInSpec => []GuessesBounded
<1>1. SignInSpec => []GuessIInv
  BY GuessInit, GuessStep, PTL DEF SignInSpec
<1>2. ASSUME GuessIInv PROVE GuessesBounded
  <2>1. Counted \in SUBSET Attempt
    BY DEF Counted
  <2>2. Cardinality(Counted) \in Nat /\ Cardinality(Attempt) \in Nat
    BY <2>1, NoMore, SignInAssumption
  <2>. QED BY <1>2, <2>2, SignInAssumption DEF GuessIInv, GuessesBounded
<1>. QED BY <1>1, <1>2, PTL

-------------------------------------------------------------------------------
(* The model gateway. *)

(* The requests let in on a day whose cost is not in its ledger yet.       *)
InAir(d) == {c \in Requester : assist[c].at \in {"calling", "logged"} /\ assist[c].day = d}

SpendIInv ==
  /\ AiTypeOK
  /\ \A d \in 1..MaxDay :
       charged[d] + Cardinality(InAir(d)) * MaxCharge + Estimate
         <= DayBudget + Cardinality(Requester) * MaxCharge

LEMMA Times ==
  ASSUME NEW m \in Nat, NEW n \in Nat, NEW k \in Nat
  PROVE  /\ m * k \in Nat /\ (m + 1) * k = m * k + k
         /\ m <= n => m * k <= n * k
  OBVIOUS

LEMMA AirBounded ==
  ASSUME NEW d
  PROVE  /\ InAir(d) \in SUBSET Requester
         /\ Cardinality(InAir(d)) \in Nat /\ Cardinality(Requester) \in Nat
         /\ Cardinality(InAir(d)) <= Cardinality(Requester)
         /\ Cardinality(InAir(d)) * MaxCharge \in Nat /\ Cardinality(Requester) * MaxCharge \in Nat
         /\ Cardinality(InAir(d)) * MaxCharge <= Cardinality(Requester) * MaxCharge
<1>1. InAir(d) \in SUBSET Requester
  BY DEF InAir
<1>2. /\ Cardinality(InAir(d)) \in Nat /\ Cardinality(Requester) \in Nat
      /\ Cardinality(InAir(d)) <= Cardinality(Requester)
  BY <1>1, NoMore, GatewayAssumption
<1>. QED BY <1>1, <1>2, Times, GatewayAssumption

LEMMA SpendInit == ASSUME AiInit PROVE SpendIInv
<1>1. NoAssist \in [at : {"idle", "admitted", "calling", "logged"}, day : 1..MaxDay,
                    left : 0..MaxAttempts, cost : 0..MaxCharge]
  BY GatewayAssumption DEF NoAssist, MaxAttempts, AiInit
<1>2. AiTypeOK
  <2>1. aiEnabled \in BOOLEAN
    BY DEF AiInit
  <2>2. aiDay \in 1..MaxDay /\ charged \in [1..MaxDay -> Nat]
    BY GatewayAssumption DEF AiInit
  <2>3. assist \in [Requester -> [at : {"idle", "admitted", "calling", "logged"}, day : 1..MaxDay,
                                  left : 0..MaxAttempts, cost : 0..MaxCharge]]
    BY <1>1 DEF AiInit
  <2>. QED BY <2>1, <2>2, <2>3 DEF AiInit, AiTypeOK
<1>3. ASSUME NEW d \in 1..MaxDay
      PROVE  charged[d] + Cardinality(InAir(d)) * MaxCharge + Estimate
               <= DayBudget + Cardinality(Requester) * MaxCharge
  <2>1. charged[d] = 0
    BY DEF AiInit
  <2>. QED BY <2>1, AirBounded, GatewayAssumption
<1>. QED BY <1>2, <1>3 DEF SpendIInv

(* Moving a request within its day, or out of the air, costs nothing. *)
LEMMA AirShrinks ==
  ASSUME SpendIInv, AiTypeOK', charged' = charged, \A d \in 1..MaxDay : InAir(d)' \subseteq InAir(d)
  PROVE  SpendIInv'
<1>1. ASSUME NEW d \in 1..MaxDay
      PROVE  charged'[d] + Cardinality(InAir(d)') * MaxCharge + Estimate
               <= DayBudget + Cardinality(Requester) * MaxCharge
  <2>1. /\ Cardinality(InAir(d)') <= Cardinality(InAir(d))
        /\ Cardinality(InAir(d)') \in Nat /\ Cardinality(InAir(d)) \in Nat
    <3>1. IsFiniteSet(InAir(d))
      BY AirBounded, FS_Subset, GatewayAssumption
    <3>. QED BY <3>1, NoMore
  <2>2. Cardinality(InAir(d)') * MaxCharge <= Cardinality(InAir(d)) * MaxCharge
        /\ Cardinality(InAir(d)') * MaxCharge \in Nat
    BY <2>1, Times, GatewayAssumption
  <2>3. charged[d] \in Nat /\ charged'[d] = charged[d]
    BY DEF SpendIInv, AiTypeOK
  <2>. QED BY <2>2, <2>3, AirBounded, GatewayAssumption DEF SpendIInv
<1>. QED BY <1>1 DEF SpendIInv

LEMMA SpendStep == ASSUME SpendIInv, [AiNext]_aivars PROVE SpendIInv'
<1>. USE GatewayAssumption
<1>0. NoAssist \in [at : {"idle", "admitted", "calling", "logged"}, day : 1..MaxDay,
                    left : 0..MaxAttempts, cost : 0..MaxCharge]
  BY DEF NoAssist, MaxAttempts, SpendIInv, AiTypeOK
<1>1. ASSUME AiTypeOK', UNCHANGED <<charged, assist>> PROVE SpendIInv'
  BY <1>1, AirShrinks DEF InAir
<1>2. CASE Midnight \/ \E on \in BOOLEAN : UpdateAiSettings(on)
  <2>1. AiTypeOK'
    BY <1>2 DEF Midnight, UpdateAiSettings, SpendIInv, AiTypeOK
  <2>. QED BY <1>1, <1>2, <2>1 DEF Midnight, UpdateAiSettings
<1>3. ASSUME NEW c \in Requester, RequireAiEnabled(c) PROVE SpendIInv'
  <2>1. AiTypeOK' /\ charged' = charged
    <3>1. aiEnabled' \in BOOLEAN
      BY <1>3 DEF RequireAiEnabled, SpendIInv, AiTypeOK
    <3>2. /\ UNCHANGED <<aiDay, charged>>
          /\ \/ assist' = [assist EXCEPT ![c].at = "admitted"] /\ answered' = answered
             \/ assist' = assist /\ answered' = "AI_NOT_ENABLED"
      BY <1>3 DEF RequireAiEnabled
    <3>. QED BY <3>1, <3>2, ZenonT(40) DEF SpendIInv, AiTypeOK
  <2>2. \A d \in 1..MaxDay : InAir(d)' \subseteq InAir(d)
    BY <1>3 DEF RequireAiEnabled, InAir, SpendIInv, AiTypeOK
  <2>. QED BY <2>1, <2>2, AirShrinks
<1>4. ASSUME NEW c \in Requester, AttemptFails(c) PROVE SpendIInv'
  <2>1. AiTypeOK' /\ charged' = charged
    <3>1. CASE assist[c].left > 1
      <4>1. assist[c].left - 1 \in 0..MaxAttempts
        BY <3>1 DEF SpendIInv, AiTypeOK, MaxAttempts
      <4>2. assist' = [assist EXCEPT ![c].left = @ - 1] /\ UNCHANGED <<aiEnabled, aiDay, charged, answered>>
        BY <1>4, <3>1 DEF AttemptFails
      <4>. QED BY <4>1, <4>2 DEF SpendIInv, AiTypeOK
    <3>2. CASE assist[c].left = 1
      <4>1. assist' = [assist EXCEPT ![c] = NoAssist] /\ UNCHANGED <<aiEnabled, aiDay, charged>>
            /\ answered' = "AI_REQUEST_FAILED"
        BY <1>4, <3>2 DEF AttemptFails
      <4>. QED BY <1>0, <4>1 DEF SpendIInv, AiTypeOK
    <3>. QED BY <1>4, <3>1, <3>2 DEF AttemptFails
  <2>2. \A d \in 1..MaxDay : InAir(d)' \subseteq InAir(d)
    <3>1. CASE assist[c].left > 1
      <4>1. assist' = [assist EXCEPT ![c].left = @ - 1]
        BY <1>4, <3>1 DEF AttemptFails
      <4>2. \A b \in Requester : assist'[b].at = assist[b].at /\ assist'[b].day = assist[b].day
        BY <4>1 DEF SpendIInv, AiTypeOK
      <4>. QED BY <4>2 DEF InAir
    <3>2. CASE assist[c].left = 1
      <4>1. assist' = [assist EXCEPT ![c] = NoAssist]
        BY <1>4, <3>2 DEF AttemptFails
      <4>2. \A b \in Requester : b # c => assist'[b] = assist[b]
        BY <4>1 DEF SpendIInv, AiTypeOK
      <4>3. assist'[c].at = "idle"
        BY <4>1 DEF SpendIInv, AiTypeOK, NoAssist
      <4>. QED BY <4>2, <4>3 DEF InAir
    <3>. QED BY <1>4, <3>1, <3>2 DEF AttemptFails
  <2>. QED BY <2>1, <2>2, AirShrinks
<1>5. ASSUME NEW c \in Requester, AttemptAnswers(c) PROVE SpendIInv'
  <2>1. PICK cost \in 0..MaxCharge :
          assist' = [assist EXCEPT ![c].at = "logged", ![c].cost = cost]
    BY <1>5 DEF AttemptAnswers
  <2>2. AiTypeOK' /\ charged' = charged
    BY <1>5, <2>1, ZenonT(40) DEF AttemptAnswers, SpendIInv, AiTypeOK
  <2>3. \A d \in 1..MaxDay : InAir(d)' \subseteq InAir(d)
    BY <1>5, <2>1, SMTT(30) DEF AttemptAnswers, InAir, SpendIInv, AiTypeOK
  <2>. QED BY <2>2, <2>3, AirShrinks
<1>6. ASSUME NEW c \in Requester, CheckBudget(c) PROVE SpendIInv'
  <2>1. CASE BudgetAvailable(aiDay)
    <3>1. /\ assist' = [assist EXCEPT ![c].at = "calling", ![c].day = aiDay]
          /\ charged' = charged
      BY <1>6, <2>1 DEF CheckBudget
    <3>2. AiTypeOK'
      BY <1>6, <2>1, <3>1 DEF CheckBudget, SpendIInv, AiTypeOK
    <3>3. ASSUME NEW d \in 1..MaxDay
          PROVE  charged'[d] + Cardinality(InAir(d)') * MaxCharge + Estimate
                   <= DayBudget + Cardinality(Requester) * MaxCharge
      <4>0. charged[d] \in Nat
        BY DEF SpendIInv, AiTypeOK
      <4>1. CASE d = aiDay
        <5>1. InAir(d)' \in SUBSET Requester
          BY DEF InAir
        <5>2. Cardinality(InAir(d)') * MaxCharge <= Cardinality(Requester) * MaxCharge
              /\ Cardinality(InAir(d)') * MaxCharge \in Nat /\ Cardinality(Requester) * MaxCharge \in Nat
          BY <5>1, NoMore, Times
        <5>. QED BY <2>1, <3>1, <4>0, <4>1, <5>2 DEF BudgetAvailable
      <4>2. CASE d # aiDay
        <5>1. InAir(d)' = InAir(d)
          BY <1>6, <3>1, <4>2 DEF InAir, CheckBudget, SpendIInv, AiTypeOK
        <5>. QED BY <3>1, <5>1 DEF SpendIInv
      <4>. QED BY <4>1, <4>2
    <3>. QED BY <3>2, <3>3 DEF SpendIInv
  <2>2. CASE ~BudgetAvailable(aiDay)
    <3>1. assist' = [assist EXCEPT ![c] = NoAssist] /\ charged' = charged
      BY <1>6, <2>2 DEF CheckBudget
    <3>2. AiTypeOK'
      BY <1>0, <1>6, <2>2, <3>1 DEF CheckBudget, SpendIInv, AiTypeOK
    <3>3. \A d \in 1..MaxDay : InAir(d)' \subseteq InAir(d)
      BY <3>1 DEF InAir, NoAssist, SpendIInv, AiTypeOK
    <3>. QED BY <3>1, <3>2, <3>3, AirShrinks
  <2>. QED BY <2>1, <2>2
<1>7. ASSUME NEW c \in Requester, CommitInvocation(c) PROVE SpendIInv'
  <2>. DEFINE day == assist[c].day
              cost == assist[c].cost
  <2>1. /\ day \in 1..MaxDay /\ cost \in 0..MaxCharge /\ c \in InAir(day)
        /\ charged' = [charged EXCEPT ![day] = @ + cost]
        /\ assist' = [assist EXCEPT ![c] = NoAssist]
    BY <1>7 DEF CommitInvocation, InAir, SpendIInv, AiTypeOK
  <2>2. AiTypeOK'
    BY <1>0, <1>7, <2>1 DEF CommitInvocation, SpendIInv, AiTypeOK
  <2>3. ASSUME NEW d \in 1..MaxDay
        PROVE  charged'[d] + Cardinality(InAir(d)') * MaxCharge + Estimate
                 <= DayBudget + Cardinality(Requester) * MaxCharge
    <3>0. charged[d] \in Nat
      BY DEF SpendIInv, AiTypeOK
    <3>1. CASE d = day
      <4>1. /\ InAir(d) = InAir(d)' \cup {c} /\ c \notin InAir(d)' /\ InAir(d)' \in SUBSET Requester
        BY <2>1, <3>1 DEF InAir, NoAssist, SpendIInv, AiTypeOK
      <4>2. Cardinality(InAir(d)) = Cardinality(InAir(d)') + 1 /\ Cardinality(InAir(d)') \in Nat
        BY <4>1, OneMore
      <4>3. /\ Cardinality(InAir(d)) * MaxCharge = Cardinality(InAir(d)') * MaxCharge + MaxCharge
            /\ Cardinality(InAir(d)') * MaxCharge \in Nat
        BY <4>2, Times
      <4>4. charged'[d] = charged[d] + cost
        BY <2>1, <3>1 DEF SpendIInv, AiTypeOK
      <4>. HIDE DEF cost, day
      <4>. QED BY <2>1, <3>0, <4>3, <4>4, AirBounded DEF SpendIInv
    <3>2. CASE d # day
      <4>1. InAir(d)' = InAir(d)
        BY <2>1, <3>2 DEF InAir, NoAssist, SpendIInv, AiTypeOK
      <4>2. charged'[d] = charged[d]
        BY <2>1, <3>2 DEF SpendIInv, AiTypeOK
      <4>. QED BY <4>1, <4>2 DEF SpendIInv
    <3>. QED BY <3>1, <3>2
  <2>. QED BY <2>2, <2>3 DEF SpendIInv
<1>8. CASE UNCHANGED aivars
  <2>1. AiTypeOK'
    BY <1>8 DEF aivars, SpendIInv, AiTypeOK
  <2>. QED BY <1>1, <1>8, <2>1 DEF aivars
<1>. QED BY <1>2, <1>3, <1>4, <1>5, <1>6, <1>7, <1>8 DEF AiNext

(* A day's tokens pass its budget by no more than what the requests that   *)
(* run at once may cost (org/ai-gateway.ts).                               *)
THEOREM SpendingBounded == AiSpec => []SpendBounded
<1>1. AiSpec => []SpendIInv
  BY SpendInit, SpendStep, PTL DEF AiSpec
<1>2. ASSUME SpendIInv PROVE SpendBounded
  <2>1. ASSUME NEW d \in 1..MaxDay
        PROVE  charged[d] + Estimate <= DayBudget + Cardinality(Requester) * MaxCharge
    <3>1. charged[d] \in Nat
      BY <1>2 DEF SpendIInv, AiTypeOK
    <3>. QED BY <1>2, <3>1, AirBounded, GatewayAssumption DEF SpendIInv
  <2>. QED BY <2>1 DEF SpendBounded
<1>. QED BY <1>1, <1>2, PTL

-------------------------------------------------------------------------------
(* The tool broker and the copilot. *)

(* Whoever has counted holds the manifest's row until he has written.      *)
Holding(c) ==
  /\ doing[c].at \in {"asked", "missed", "locked"} => doing[c].key \in ToolKey /\ doing[c].plugin \in Plugin
  /\ doing[c].at \in {"locked", "prompting"} => manifestLock = {c}
  /\ doing[c].at = "locked" => Cardinality(Invocations(doing[c].plugin)) < MaxInvocations
  /\ doing[c].at = "prompting" => doing[c].no = Len(turns) + 1 /\ Len(turns) < MAX_TURNS

ToolsIInv ==
  /\ receipts \in Seq(Receipt) /\ turns \in Seq(Nat)
  /\ doing = [c \in ToolCaller |-> doing[c]]
  /\ \A c \in ToolCaller : Holding(c)
  /\ BudgetsKept

LEMMA ToolsInitial == ASSUME ToolsInit PROVE ToolsIInv
<1>1. \A p \in Plugin : Invocations(p) = {}
  BY DEF ToolsInit, Invocations
<1>2. Len(receipts) = 0 /\ Len(turns) = 0
  BY DEF ToolsInit
<1>. QED BY <1>1, <1>2, FS_EmptySet, ToolsAssumption DEF ToolsInit, ToolsIInv, Holding, BudgetsKept, Free

(* A request that moves on without writing. *)
LEMMA ToolsMove ==
  ASSUME ToolsIInv, UNCHANGED <<receipts, turns>>, NEW c \in ToolCaller, NEW next, Becomes(c, next),
         \/ manifestLock' = manifestLock
         \/ manifestLock' = manifestLock \ {c}
         \/ (manifestLock = {} /\ manifestLock' = {c}),
         next.at \in {"asked", "missed", "locked"} => next.key \in ToolKey /\ next.plugin \in Plugin,
         next.at \in {"locked", "prompting"} => manifestLock' = {c},
         next.at = "locked" => Cardinality(Invocations(next.plugin)) < MaxInvocations,
         next.at = "prompting" => next.no = Len(turns) + 1 /\ Len(turns) < MAX_TURNS
  PROVE  ToolsIInv'
<1>1. /\ doing'[c] = next /\ doing' = [d \in ToolCaller |-> doing'[d]]
      /\ \A d \in ToolCaller \ {c} : doing'[d] = doing[d]
  BY DEF Becomes, ToolsIInv
<1>2. \A p : Invocations(p)' = Invocations(p)
  BY DEF Invocations
<1>3. Holding(c)'
  BY <1>1, <1>2 DEF Holding
<1>4. ASSUME NEW d \in ToolCaller \ {c} PROVE Holding(d)'
  BY <1>1, <1>2 DEF Holding, ToolsIInv
<1>5. BudgetsKept'
  BY <1>2 DEF ToolsIInv, BudgetsKept
<1>. QED BY <1>1, <1>3, <1>4, <1>5 DEF ToolsIInv

Matching(s, p) == {i \in DOMAIN s : s[i].plugin = p}

(* One receipt more: its own plugin's count goes up by one, no other's.    *)
LEMMA OneReceiptMore ==
  ASSUME NEW T, NEW s \in Seq(T), NEW e \in T, NEW p
  PROVE  /\ Cardinality(Matching(s, p)) \in Nat
         /\ e.plugin = p => Cardinality(Matching(Append(s, e), p)) = Cardinality(Matching(s, p)) + 1
         /\ e.plugin # p => Cardinality(Matching(Append(s, e), p)) = Cardinality(Matching(s, p))
<1>. DEFINE n == Len(s)
            t == Append(s, e)
            before == {i \in DOMAIN s : s[i].plugin = p}
            after == {i \in DOMAIN t : t[i].plugin = p}
<1>1. n \in Nat /\ DOMAIN s = 1..n
  OBVIOUS
<1>2. DOMAIN t = 1..(n + 1) /\ t[n + 1] = e /\ \A i \in 1..n : t[i] = s[i]
  OBVIOUS
<1>3. before \subseteq 1..n /\ n + 1 \notin before
  BY <1>1
<1>4. IsFiniteSet(1..n)
  <2>. HIDE DEF n
  <2>. QED BY <1>1, FS_Interval
<1>5. IsFiniteSet(before)
  <2>. HIDE DEF before, n
  <2>. QED BY <1>3, <1>4, FS_Subset
<1>6. \A i : i \in 1..(n + 1) <=> i \in 1..n \/ i = n + 1
  <2>. HIDE DEF n
  <2>. QED BY <1>1
<1>7. CASE e.plugin = p
  <2>1. after = before \cup {n + 1}
    <3>1. \A i : i \in after <=> i \in 1..(n + 1) /\ t[i].plugin = p
      BY <1>2
    <3>2. \A i : i \in before <=> i \in 1..n /\ s[i].plugin = p
      BY <1>1
    <3>. HIDE DEF after, before, t, n
    <3>. QED BY <1>2, <1>6, <1>7, <3>1, <3>2
  <2>. HIDE DEF after, before, n
  <2>2. Cardinality(after) = Cardinality(before) + 1 /\ Cardinality(before) \in Nat
    BY <1>3, <1>5, <2>1, FS_AddElement, FS_CardinalityType
  <2>. QED BY <1>7, <2>2, Zenon DEF after, before, t, Matching
<1>8. CASE e.plugin # p
  <2>1. after = before
    <3>1. \A i : i \in after <=> i \in 1..(n + 1) /\ t[i].plugin = p
      BY <1>2
    <3>2. \A i : i \in before <=> i \in 1..n /\ s[i].plugin = p
      BY <1>1
    <3>. HIDE DEF after, before, t, n
    <3>. QED BY <1>2, <1>6, <1>8, <3>1, <3>2
  <2>. HIDE DEF after, before, n
  <2>2. Cardinality(before) \in Nat
    BY <1>5, FS_CardinalityType
  <2>. QED BY <1>8, <2>1, <2>2, Zenon DEF after, before, t, Matching
<1>. QED BY <1>7, <1>8

(* The receipt is the holder's: nobody else is between count and insert.   *)
LEMMA ReceiptWithin ==
  ASSUME ToolsIInv, NEW c \in ToolCaller, RecordReceipt(c) PROVE ToolsIInv'
<1>. DEFINE q == doing[c].plugin
<1>1. PICK status \in {"ok", "failed", "denied", "circuit_open"} :
        receipts' = Append(receipts, [key |-> doing[c].key, plugin |-> q, status |-> status])
  BY DEF RecordReceipt
<1>. DEFINE r == [key |-> doing[c].key, plugin |-> q, status |-> status]
<1>2. /\ doing[c].at = "locked" /\ manifestLock = {c} /\ doing[c].key \in ToolKey /\ q \in Plugin
      /\ Cardinality(Invocations(q)) < MaxInvocations
      /\ manifestLock' = {} /\ doing' = [doing EXCEPT ![c] = Free] /\ turns' = turns
  BY DEF RecordReceipt, ToolsIInv, Holding, Becomes
<1>3. r \in Receipt /\ r.plugin = q
  BY <1>2 DEF Receipt
<1>4. receipts \in Seq(Receipt) /\ receipts' = Append(receipts, r) /\ receipts' \in Seq(Receipt)
  BY <1>1, <1>3 DEF ToolsIInv
<1>5. ASSUME NEW p \in Plugin PROVE Cardinality(Invocations(p)') <= MaxInvocations
  <2>. HIDE DEF r, q
  <2>1. /\ Cardinality(Invocations(p)) \in Nat
        /\ r.plugin = p => Cardinality(Invocations(p)') = Cardinality(Invocations(p)) + 1
        /\ r.plugin # p => Cardinality(Invocations(p)') = Cardinality(Invocations(p))
    <3>1. Invocations(p)' = Matching(Append(receipts, r), p)
      BY <1>4, Zenon DEF Invocations, Matching
    <3>2. Invocations(p) = Matching(receipts, p)
      BY Zenon DEF Invocations, Matching
    <3>3. r \in Receipt /\ receipts \in Seq(Receipt)
      BY <1>3, <1>4
    <3>4. /\ Cardinality(Matching(receipts, p)) \in Nat
          /\ r.plugin = p =>
               Cardinality(Matching(Append(receipts, r), p)) = Cardinality(Matching(receipts, p)) + 1
          /\ r.plugin # p =>
               Cardinality(Matching(Append(receipts, r), p)) = Cardinality(Matching(receipts, p))
      BY <3>3, OneReceiptMore
    <3>. QED BY <3>1, <3>2, <3>4, Zenon
  <2>2. CASE p = q
    BY <1>2, <1>3, <2>1, <2>2, ToolsAssumption
  <2>3. CASE p # q
    BY <1>3, <2>1, <2>3 DEF ToolsIInv, BudgetsKept
  <2>. QED BY <2>2, <2>3
<1>6. BudgetsKept'
  BY <1>2, <1>5 DEF BudgetsKept, ToolsIInv
<1>7. ASSUME NEW d \in ToolCaller PROVE Holding(d)'
  <2>1. CASE d = c
    BY <1>2, <2>1 DEF Holding, ToolsIInv, Free
  <2>2. CASE d # c
    <3>1. doing'[d] = doing[d] /\ doing[d].at \notin {"locked", "prompting"}
      BY <1>2, <2>2 DEF ToolsIInv, Holding
    <3>. QED BY <3>1 DEF ToolsIInv, Holding
  <2>. QED BY <2>1, <2>2
<1>8. doing' = [d \in ToolCaller |-> doing'[d]]
  BY <1>2 DEF ToolsIInv
<1>. QED BY <1>2, <1>4, <1>6, <1>7, <1>8 DEF ToolsIInv

LEMMA TurnWithin ==
  ASSUME ToolsIInv, NEW c \in ToolCaller, RecordTurn(c) PROVE ToolsIInv'
<1>1. /\ doing[c].at = "prompting" /\ manifestLock = {c} /\ doing[c].no = Len(turns) + 1
      /\ Len(turns) < MAX_TURNS
      /\ manifestLock' = {} /\ doing' = [doing EXCEPT ![c] = Free] /\ receipts' = receipts
      /\ turns' = Append(turns, doing[c].no)
  BY DEF RecordTurn, ToolsIInv, Holding, Becomes
<1>2. turns \in Seq(Nat) /\ Len(turns) \in Nat
  BY DEF ToolsIInv
<1>3. /\ turns' \in Seq(Nat) /\ Len(turns') = Len(turns) + 1
      /\ \A i \in DOMAIN turns' : turns'[i] = IF i = Len(turns) + 1 THEN Len(turns) + 1 ELSE turns[i]
      /\ \A i \in DOMAIN turns' : i # Len(turns) + 1 => i \in DOMAIN turns
  BY <1>1, <1>2
<1>4. BudgetsKept'
  BY <1>1, <1>2, <1>3, ToolsAssumption DEF ToolsIInv, BudgetsKept, Invocations
<1>5. ASSUME NEW d \in ToolCaller PROVE Holding(d)'
  <2>1. CASE d = c
    BY <1>1, <2>1 DEF Holding, ToolsIInv, Free
  <2>2. CASE d # c
    <3>1. doing'[d] = doing[d] /\ doing[d].at \notin {"locked", "prompting"}
      BY <1>1, <2>2 DEF ToolsIInv, Holding
    <3>. QED BY <3>1 DEF ToolsIInv, Holding
  <2>. QED BY <2>1, <2>2
<1>6. doing' = [d \in ToolCaller |-> doing'[d]]
  BY <1>1 DEF ToolsIInv
<1>. QED BY <1>1, <1>3, <1>4, <1>5, <1>6 DEF ToolsIInv

LEMMA ToolsStep == ASSUME ToolsIInv, [ToolsNext]_toolvars PROVE ToolsIInv'
<1>1. ASSUME NEW c \in ToolCaller, InvokeTool(c) PROVE ToolsIInv'
  <2>1. PICK k \in ToolKey, p \in Plugin : Becomes(c, [at |-> "asked", key |-> k, plugin |-> p])
    BY <1>1 DEF InvokeTool
  <2>2. UNCHANGED <<receipts, turns, manifestLock>>
    BY <1>1 DEF InvokeTool
  <2>. QED BY <2>1, <2>2, ToolsMove
<1>2. ASSUME NEW c \in ToolCaller, LookUpReceipt(c) PROVE ToolsIInv'
  <2>1. UNCHANGED <<receipts, turns, manifestLock>> /\ doing[c].at = "asked"
        /\ doing[c].key \in ToolKey /\ doing[c].plugin \in Plugin
    BY <1>2 DEF LookUpReceipt, ToolsIInv, Holding
  <2>2. CASE HasReceipt(doing[c].key)
    <3>1. Becomes(c, Free)
      BY <1>2, <2>2 DEF LookUpReceipt
    <3>2. Free.at = "idle"
      BY DEF Free
    <3>. QED BY <2>1, <3>1, <3>2, ToolsMove
  <2>3. CASE ~HasReceipt(doing[c].key)
    <3>. DEFINE next == [doing[c] EXCEPT !.at = "missed"]
    <3>1. Becomes(c, next)
      BY <1>2, <2>3 DEF LookUpReceipt
    <3>2. next.at = "missed" /\ next.key = doing[c].key /\ next.plugin = doing[c].plugin
      BY <2>1 DEF ToolsIInv, Holding
    <3>. HIDE DEF next
    <3>. QED BY <2>1, <3>1, <3>2, ToolsMove
  <2>. QED BY <2>2, <2>3
<1>3. ASSUME NEW c \in ToolCaller, LockForTool(c) PROVE ToolsIInv'
  <2>. DEFINE next == [at |-> "locked", key |-> doing[c].key, plugin |-> doing[c].plugin,
                       open |-> CircuitOpen(doing[c].plugin)]
  <2>1. /\ UNCHANGED <<receipts, turns>> /\ manifestLock = {} /\ manifestLock' = {c}
        /\ doing[c].key \in ToolKey /\ doing[c].plugin \in Plugin
        /\ Cardinality(Invocations(doing[c].plugin)) < MaxInvocations
        /\ Becomes(c, next)
    BY <1>3 DEF LockForTool, ToolsIInv, Holding
  <2>2. next.at = "locked" /\ next.key = doing[c].key /\ next.plugin = doing[c].plugin
    OBVIOUS
  <2>. HIDE DEF next
  <2>. QED BY <2>1, <2>2, ToolsMove
<1>4. ASSUME NEW c \in ToolCaller, RefuseTool(c) \/ FailTool(c) \/ RefuseCopilot(c) \/ FailTurn(c)
      PROVE  ToolsIInv'
  <2>1. /\ UNCHANGED <<receipts, turns>> /\ Becomes(c, Free)
        /\ manifestLock' = manifestLock \/ manifestLock' = manifestLock \ {c}
    BY <1>4 DEF RefuseTool, FailTool, RefuseCopilot, FailTurn
  <2>2. Free.at = "idle"
    BY DEF Free
  <2>. QED BY <2>1, <2>2, ToolsMove
<1>5. ASSUME NEW c \in ToolCaller, Prompt(c) PROVE ToolsIInv'
  <2>1. UNCHANGED <<receipts, turns, manifestLock>> /\ Becomes(c, [at |-> "prompted"])
    BY <1>5 DEF Prompt
  <2>. QED BY <2>1, ToolsMove
<1>6. ASSUME NEW c \in ToolCaller, LockForCopilot(c) PROVE ToolsIInv'
  <2>1. /\ UNCHANGED <<receipts, turns>> /\ manifestLock = {} /\ manifestLock' = {c}
        /\ Len(turns) < MAX_TURNS /\ Becomes(c, [at |-> "prompting", no |-> Len(turns) + 1])
    BY <1>6 DEF LockForCopilot, WithinBudget
  <2>. QED BY <2>1, ToolsMove
<1>7. CASE MoveSession
  BY <1>7 DEF MoveSession, ToolsIInv, Holding, BudgetsKept, Invocations
<1>8. CASE UNCHANGED toolvars
  BY <1>8 DEF toolvars, ToolsIInv, Holding, BudgetsKept, Invocations
<1>. QED BY <1>1, <1>2, <1>3, <1>4, <1>5, <1>6, <1>7, <1>8, ReceiptWithin, TurnWithin DEF ToolsNext

(* Requests sent side by side spend no plugin's invocations and no turn of *)
(* the copilot twice (v2/tool-broker.ts, v2/copilot.ts).                   *)
THEOREM BudgetsHold == ToolsSpec => []BudgetsKept
<1>1. ToolsSpec => []ToolsIInv
  BY ToolsInitial, ToolsStep, PTL DEF ToolsSpec
<1>2. ToolsIInv => BudgetsKept
  BY DEF ToolsIInv
<1>. QED BY <1>1, <1>2, PTL

(* The manifest is locked by whoever found it active, and while it is      *)
(* locked the session does not move.                                       *)
LockedIsActive == manifestLock # {} => running = "active"

LEMMA LockedStep ==
  ASSUME ToolsIInv, LockedIsActive, [ToolsNext]_toolvars
  PROVE  LockedIsActive' /\ (running # "active" => receipts' = receipts /\ turns' = turns)
<1>. USE DEF LockedIsActive
<1>1. ASSUME NEW c \in ToolCaller, RecordReceipt(c) \/ RecordTurn(c)
      PROVE  LockedIsActive' /\ running = "active"
  <2>1. manifestLock = {c}
    BY <1>1 DEF RecordReceipt, RecordTurn, ToolsIInv, Holding
  <2>2. running' = running /\ manifestLock' \subseteq manifestLock
    BY <1>1 DEF RecordReceipt, RecordTurn
  <2>. QED BY <2>1, <2>2
<1>2. ASSUME NEW c \in ToolCaller, LockForTool(c) \/ LockForCopilot(c)
      PROVE  LockedIsActive' /\ running = "active"
  BY <1>2 DEF LockForTool, LockForCopilot, WithinBudget
<1>3. ASSUME NEW c \in ToolCaller,
             \/ InvokeTool(c) \/ LookUpReceipt(c) \/ RefuseTool(c) \/ FailTool(c)
             \/ Prompt(c) \/ RefuseCopilot(c) \/ FailTurn(c)
      PROVE  LockedIsActive' /\ UNCHANGED <<receipts, turns>>
  BY <1>3 DEF InvokeTool, LookUpReceipt, RefuseTool, FailTool, Prompt, RefuseCopilot, FailTurn
<1>4. CASE MoveSession \/ UNCHANGED toolvars
  BY <1>4 DEF MoveSession, toolvars
<1>. QED BY <1>1, <1>2, <1>3, <1>4 DEF ToolsNext

(* A tool call or a turn of the copilot that was let in while the session  *)
(* was active leaves no receipt and no turn behind once it is paused or    *)
(* closed: what the submission counted stays so (v2/tool-broker.ts,        *)
(* v2/copilot.ts).                                                         *)
THEOREM NothingLeftBehind == ToolsSpec => NothingAfterActive
<1>1. ToolsInit => LockedIsActive
  BY DEF ToolsInit, LockedIsActive
<1>2. ToolsIInv /\ LockedIsActive /\ [ToolsNext]_toolvars =>
        LockedIsActive' /\ [running # "active" => receipts' = receipts /\ turns' = turns]_toolvars
  BY LockedStep
<1>. QED BY <1>1, <1>2, ToolsInitial, ToolsStep, PTL DEF ToolsSpec, NothingAfterActive

-------------------------------------------------------------------------------
(* Hiring under a plan. *)

Issuing == {k \in Clerk : office[k].op = "issue"}

(* Landing views that will open an invitation already reissued.            *)
Reviving == {i \in landing : invite[i].status = "expired"}

HiringTyped ==
  /\ office \in [Clerk -> [op : {"none", "import", "issue"}, rows : SUBSET Email,
                           missed : SUBSET Email, new : SUBSET Email]]
  /\ invite \in [Invite -> [status : {"none", "sent", "opened", "accepted", "expired"},
                            past : BOOLEAN]]
  /\ landing \in SUBSET Invite /\ reissues \in Nat
  /\ planLimit \in Limit \cup {NoLimit} /\ ceiling \in Limit \cup {NoLimit}
  /\ \A i \in landing : invite[i].status # "none"

(* What has passed the check and what may still come back counts as taken. *)
PlanIInv ==
  /\ HiringTyped
  /\ Cardinality(Reviving) <= reissues
  /\ ceiling # NoLimit =>
       /\ planLimit # NoLimit /\ planLimit <= ceiling
       /\ Cardinality(Active) + Cardinality(Issuing) + Cardinality(Reviving) + 1
            <= ceiling + Cardinality(Clerk) + reissues

LEMMA HiringSizes ==
  ASSUME HiringTyped
  PROVE  /\ IsFiniteSet(Invite) /\ Active \in SUBSET Invite /\ Reviving \in SUBSET Invite
         /\ IsFiniteSet(Clerk) /\ Issuing \in SUBSET Clerk
         /\ IsFiniteSet(Active) /\ IsFiniteSet(Reviving) /\ IsFiniteSet(Issuing)
         /\ Cardinality(Active) \in Nat /\ Cardinality(Reviving) \in Nat
         /\ Cardinality(Issuing) \in Nat /\ Cardinality(Clerk) \in Nat
         /\ Cardinality(Issuing) <= Cardinality(Clerk)
         /\ Limit \subseteq Nat
<1>1. IsFiniteSet(Invite)
  BY HiringAssumption, FS_Interval DEF Invite
<1>2. Active \in SUBSET Invite /\ Reviving \in SUBSET Invite /\ Issuing \in SUBSET Clerk
  BY DEF Active, Reviving, Issuing, HiringTyped
<1>3. IsFiniteSet(Clerk) /\ Limit \subseteq Nat
  BY HiringAssumption
<1>4. IsFiniteSet(Active) /\ IsFiniteSet(Reviving) /\ IsFiniteSet(Issuing)
      /\ Cardinality(Issuing) <= Cardinality(Clerk)
  BY <1>1, <1>2, <1>3, FS_Subset
<1>. QED BY <1>1, <1>2, <1>3, <1>4, FS_CardinalityType

(* The least identity not yet given. *)
LEMMA FreshExists ==
  ASSUME HiringTyped, Fresh # {}
  PROVE  (CHOOSE j \in Fresh : \A f \in Fresh : j <= f) \in Fresh
<1>. DEFINE R == OpToRel(<, Nat)
<1>1. Fresh \subseteq Nat
  BY DEF Fresh, Invite
<1>2. IsWellFoundedOn(R, Nat)
  BY NatLessThanWellFounded
<1>3. PICK k \in Fresh : \A j \in Fresh : ~(<<j, k>> \in R)
  <2>. HIDE DEF R
  <2>. QED BY <1>1, <1>2, WFMin
<1>4. ASSUME NEW f \in Fresh PROVE k <= f
  <2>1. f \in Nat /\ k \in Nat
    BY <1>1
  <2>2. ~(f < k)
    BY <1>3, <2>1 DEF OpToRel
  <2>. HIDE DEF R
  <2>. QED BY <2>1, <2>2
<1>. QED BY <1>4

LEMMA PlanInit == ASSUME HiringInit PROVE PlanIInv
<1>1. HiringTyped
  BY DEF HiringInit, HiringTyped, Away, Blank
<1>2. Active = {} /\ Issuing = {} /\ Reviving = {}
  BY DEF HiringInit, Active, Issuing, Reviving, Away, Blank
<1>3. Cardinality(Clerk) \in Nat /\ Cardinality(Clerk) # 0
  BY HiringAssumption, FS_CardinalityType, FS_EmptySet
<1>. QED BY <1>1, <1>2, <1>3, FS_EmptySet, HiringAssumption DEF HiringInit, PlanIInv

(* A step that takes no place. *)
LEMMA PlanKept ==
  ASSUME PlanIInv, HiringTyped', UNCHANGED <<planLimit, ceiling, reissues>>,
         Active' = Active, Reviving' \subseteq Reviving, Issuing' \subseteq Issuing
  PROVE  PlanIInv'
<1>1. /\ IsFiniteSet(Reviving) /\ IsFiniteSet(Issuing)
      /\ Cardinality(Active) \in Nat /\ Cardinality(Reviving) \in Nat
      /\ Cardinality(Issuing) \in Nat /\ Cardinality(Clerk) \in Nat /\ Limit \subseteq Nat
  BY HiringSizes DEF PlanIInv
<1>2. /\ Cardinality(Reviving') <= Cardinality(Reviving) /\ Cardinality(Reviving') \in Nat
      /\ Cardinality(Issuing') <= Cardinality(Issuing) /\ Cardinality(Issuing') \in Nat
  BY <1>1, FS_Subset, FS_CardinalityType
<1>. QED BY <1>1, <1>2 DEF PlanIInv, HiringTyped

LEMMA PlanStep == ASSUME PlanIInv, [HiringNext]_hiringvars PROVE PlanIInv'
<1>0. HiringTyped
  BY DEF PlanIInv
<1>1. ASSUME UNCHANGED <<invite, landing, planLimit, ceiling, reissues>>, HiringTyped',
             Issuing' \subseteq Issuing
      PROVE  PlanIInv'
  <2>1. Active' = Active /\ Reviving' = Reviving
    BY <1>1 DEF Active, Reviving
  <2>. QED BY <1>1, <2>1, PlanKept
<1>2. CASE \E e \in Email : CreateCandidate(e)
  BY <1>0, <1>1, <1>2 DEF CreateCandidate, HiringTyped, Issuing
<1>3. ASSUME NEW k \in Clerk,
             BeginImport(k) \/ FinishImport(k) \/ Abandon(k)
               \/ \E e \in Email : LookForRow(k, e) \/ InsertRow(k, e)
      PROVE  PlanIInv'
  <2>1. UNCHANGED <<invite, landing, planLimit, ceiling, reissues>>
    BY <1>3 DEF BeginImport, FinishImport, Abandon, LookForRow, InsertRow
  <2>2. /\ office' \in [Clerk -> [op : {"none", "import", "issue"}, rows : SUBSET Email,
                                  missed : SUBSET Email, new : SUBSET Email]]
        /\ \A h \in Clerk : office'[h].op = "issue" => office[h].op = "issue"
    <3>0. office[k] \in [op : {"none", "import", "issue"}, rows : SUBSET Email,
                          missed : SUBSET Email, new : SUBSET Email]
      BY <1>0 DEF HiringTyped
    <3>1. ASSUME NEW t \in [op : {"none", "import", "issue"}, rows : SUBSET Email,
                             missed : SUBSET Email, new : SUBSET Email],
                 t.op = "issue" => office[k].op = "issue", office' = [office EXCEPT ![k] = t]
          PROVE  /\ office' \in [Clerk -> [op : {"none", "import", "issue"}, rows : SUBSET Email,
                                           missed : SUBSET Email, new : SUBSET Email]]
                 /\ \A h \in Clerk : office'[h].op = "issue" => office[h].op = "issue"
      BY <1>0, <3>1 DEF HiringTyped
    <3>2. CASE BeginImport(k)
      <4>1. PICK rows \in SUBSET Email : office' = [office EXCEPT ![k] = [Away EXCEPT !.op = "import", !.rows = rows]]
        BY <3>2 DEF BeginImport
      <4>2. /\ [Away EXCEPT !.op = "import", !.rows = rows] \in
                  [op : {"none", "import", "issue"}, rows : SUBSET Email,
                   missed : SUBSET Email, new : SUBSET Email]
            /\ [Away EXCEPT !.op = "import", !.rows = rows].op = "import"
        BY DEF Away
      <4>. QED BY <3>1, <4>1, <4>2
    <3>3. CASE FinishImport(k) \/ Abandon(k)
      <4>1. office' = [office EXCEPT ![k] = [op |-> "none", rows |-> {}, missed |-> {}, new |-> {}]]
        BY <3>3 DEF FinishImport, Abandon, Away
      <4>. QED BY <3>1, <4>1
    <3>4. ASSUME NEW e \in Email, LookForRow(k, e) \/ InsertRow(k, e)
          PROVE  \E t \in [op : {"none", "import", "issue"}, rows : SUBSET Email,
                            missed : SUBSET Email, new : SUBSET Email] :
                   t.op = office[k].op /\ office' = [office EXCEPT ![k] = t]
      <4>1. CASE LookForRow(k, e)
        <5>. DEFINE missed == IF candidate[e] = "absent" THEN {e} ELSE {}
        <5>1. missed \in SUBSET Email
          OBVIOUS
        <5>. HIDE DEF missed
        <5>2. office' = [office EXCEPT ![k] = [office[k] EXCEPT !.rows = @ \ {e}, !.missed = missed]]
          BY <1>0, <4>1 DEF LookForRow, HiringTyped, missed
        <5>. QED BY <3>0, <5>1, <5>2
      <4>2. CASE InsertRow(k, e)
        <5>1. office' = [office EXCEPT ![k] = [office[k] EXCEPT !.missed = {}, !.new = @ \cup {e}]]
          BY <1>0, <4>2 DEF InsertRow, HiringTyped
        <5>. QED BY <3>0, <5>1
      <4>. QED BY <3>4, <4>1, <4>2
    <3>. QED BY <1>3, <3>1, <3>2, <3>3, <3>4
  <2>. QED BY <1>0, <1>1, <2>1, <2>2 DEF HiringTyped, Issuing
<1>4. ASSUME NEW k \in Clerk, NEW e \in Email, BeginIssue(k, e) PROVE PlanIInv'
  <2>1. /\ UNCHANGED <<invite, landing, planLimit, ceiling, reissues>>
        /\ office' = [office EXCEPT ![k] = [Away EXCEPT !.op = "issue", !.rows = {e}]]
        /\ planLimit # NoLimit => Cardinality(Active) < planLimit
    BY <1>4 DEF BeginIssue
  <2>2. HiringTyped'
    BY <1>0, <2>1 DEF HiringTyped, Away
  <2>3. Active' = Active /\ Reviving' = Reviving
    BY <2>1 DEF Active, Reviving
  <2>4. Cardinality(Issuing') <= Cardinality(Clerk) /\ Cardinality(Issuing') \in Nat
    <3>1. Issuing' \in SUBSET Clerk
      BY DEF Issuing
    <3>. QED BY <3>1, HiringAssumption, NoMore
  <2>. QED BY <1>0, <2>1, <2>2, <2>3, <2>4, HiringSizes DEF PlanIInv, HiringTyped
<1>5. ASSUME NEW k \in Clerk, CommitIssue(k) PROVE PlanIInv'
  <2>. DEFINE j == CHOOSE m \in Fresh : \A f \in Fresh : m <= f
  <2>1. /\ invite' = [invite EXCEPT ![j].status = "sent"]
        /\ office' = [office EXCEPT ![k] = Away] /\ office[k].op = "issue"
        /\ UNCHANGED <<landing, planLimit, ceiling, reissues>> /\ Fresh # {}
    BY <1>5 DEF CommitIssue
  <2>2. j \in Invite /\ invite[j].status = "none"
    BY <1>0, <2>1, FreshExists DEF Fresh
  <2>. HIDE DEF j
  <2>3. HiringTyped'
    BY <1>0, <2>1, <2>2 DEF HiringTyped, Away
  <2>4. Active' = Active \cup {j} /\ j \notin Active
    BY <1>0, <2>1, <2>2 DEF Active, HiringTyped
  <2>5. Reviving' = Reviving
    BY <1>0, <2>1, <2>2 DEF Reviving, HiringTyped
  <2>6. Issuing = Issuing' \cup {k} /\ k \notin Issuing' /\ Issuing' \in SUBSET Clerk
    BY <1>0, <2>1 DEF Issuing, HiringTyped, Away
  <2>7. Cardinality(Active') = Cardinality(Active) + 1
    BY <1>0, <2>2, <2>4, HiringSizes, OneMore
  <2>8. Cardinality(Issuing) = Cardinality(Issuing') + 1 /\ Cardinality(Issuing') \in Nat
    BY <1>0, <2>6, HiringSizes, OneMore
  <2>. QED BY <1>0, <2>1, <2>3, <2>5, <2>7, <2>8, HiringSizes DEF PlanIInv, HiringTyped
<1>6. ASSUME NEW i \in Invite, ReissueInvite(i) PROVE PlanIInv'
  <2>. DEFINE j == CHOOSE m \in Fresh : \A f \in Fresh : m <= f
  <2>1. /\ invite' = [invite EXCEPT ![i].status = "expired", ![j].status = "sent"]
        /\ invite[i].status \in {"expired", "sent", "opened"} /\ reissues' = reissues + 1
        /\ UNCHANGED <<office, landing, planLimit, ceiling>> /\ Fresh # {}
    BY <1>6 DEF ReissueInvite
  <2>2. j \in Invite /\ invite[j].status = "none"
    BY <1>0, <2>1, FreshExists DEF Fresh
  <2>. HIDE DEF j
  <2>3. HiringTyped'
    BY <1>0, <2>1, <2>2 DEF HiringTyped
  <2>4. Issuing' = Issuing
    BY <2>1 DEF Issuing
  <2>5. CASE invite[i].status = "expired"
    <3>1. Active' = Active \cup {j} /\ j \notin Active /\ Reviving' = Reviving
      BY <1>0, <2>1, <2>2, <2>5 DEF Active, Reviving, HiringTyped
    <3>2. Cardinality(Active') = Cardinality(Active) + 1
      BY <1>0, <2>2, <3>1, HiringSizes, OneMore
    <3>. QED BY <1>0, <2>1, <2>3, <2>4, <3>1, <3>2, HiringSizes DEF PlanIInv, HiringTyped
  <2>6. CASE invite[i].status # "expired"
    <3>. DEFINE rest == Active \ {i}
    <3>1. /\ Active = rest \cup {i} /\ i \notin rest /\ rest \in SUBSET Invite
          /\ Active' = rest \cup {j} /\ j \notin rest
      BY <1>0, <2>1, <2>2, <2>6 DEF Active, HiringTyped
    <3>2. Reviving' \subseteq Reviving \cup {i} /\ i \notin Reviving
      BY <1>0, <2>1, <2>2, <2>6 DEF Reviving, HiringTyped
    <3>. HIDE DEF rest
    <3>3. Cardinality(Active') = Cardinality(Active)
      <4>1. IsFiniteSet(Invite)
        BY <1>0, HiringSizes
      <4>2. Cardinality(rest \cup {i}) = Cardinality(rest) + 1
        BY <3>1, <4>1, OneMore
      <4>3. Cardinality(rest \cup {j}) = Cardinality(rest) + 1
        BY <2>2, <3>1, <4>1, OneMore
      <4>. QED BY <3>1, <4>2, <4>3
    <3>4. Cardinality(Reviving \cup {i}) = Cardinality(Reviving) + 1
          /\ Reviving \cup {i} \in SUBSET Invite /\ IsFiniteSet(Reviving \cup {i})
      BY <1>0, <3>2, HiringSizes, OneMore, FS_Subset
    <3>5. Cardinality(Reviving') <= Cardinality(Reviving) + 1 /\ Cardinality(Reviving') \in Nat
      BY <3>2, <3>4, NoMore
    <3>. QED BY <1>0, <2>1, <2>3, <2>4, <3>3, <3>5, HiringSizes DEF PlanIInv, HiringTyped
  <2>. QED BY <2>5, <2>6
<1>7. ASSUME NEW i \in Invite, InviteFallsDue(i) PROVE PlanIInv'
  <2>1. HiringTyped'
    BY <1>0, <1>7 DEF InviteFallsDue, HiringTyped
  <2>2. Active' = Active /\ Reviving' = Reviving /\ Issuing' = Issuing
    BY <1>0, <1>7 DEF InviteFallsDue, HiringTyped, Active, Reviving, Issuing
  <2>. QED BY <1>7, <2>1, <2>2, PlanKept DEF InviteFallsDue
<1>8. ASSUME NEW i \in Invite, ViewLanding(i) PROVE PlanIInv'
  <2>1. HiringTyped'
    BY <1>0, <1>8 DEF ViewLanding, HiringTyped
  <2>2. Active' = Active /\ Reviving' = Reviving /\ Issuing' = Issuing
    BY <1>0, <1>8 DEF ViewLanding, HiringTyped, Active, Reviving, Issuing
  <2>. QED BY <1>8, <2>1, <2>2, PlanKept DEF ViewLanding
<1>9. ASSUME NEW i \in Invite, MarkOpened(i) PROVE PlanIInv'
  <2>1. /\ i \in landing /\ landing' = landing \ {i}
        /\ invite' = [invite EXCEPT ![i].status = "opened"]
        /\ UNCHANGED <<office, planLimit, ceiling, reissues>>
    BY <1>9 DEF MarkOpened
  <2>2. HiringTyped' /\ Issuing' = Issuing
    BY <1>0, <2>1 DEF HiringTyped, Issuing
  <2>3. CASE invite[i].status = "expired"
    <3>1. Active' = Active \cup {i} /\ i \notin Active
      BY <1>0, <2>1, <2>3 DEF Active, HiringTyped
    <3>2. Reviving = Reviving' \cup {i} /\ i \notin Reviving' /\ Reviving' \in SUBSET Invite
      BY <1>0, <2>1, <2>3 DEF Reviving, HiringTyped
    <3>3. Cardinality(Active') = Cardinality(Active) + 1
      BY <1>0, <3>1, HiringSizes, OneMore
    <3>4. Cardinality(Reviving) = Cardinality(Reviving') + 1 /\ Cardinality(Reviving') \in Nat
      BY <1>0, <3>2, HiringSizes, OneMore
    <3>. QED BY <1>0, <2>1, <2>2, <3>3, <3>4, HiringSizes DEF PlanIInv, HiringTyped
  <2>4. CASE invite[i].status # "expired"
    <3>1. Active' = Active /\ Reviving' = Reviving
      BY <1>0, <2>1, <2>4 DEF Active, Reviving, HiringTyped
    <3>. QED BY <2>1, <2>2, <3>1, PlanKept
  <2>. QED BY <2>3, <2>4
<1>10. ASSUME NEW i \in Invite, AcceptInvite(i) PROVE PlanIInv'
  <2>1. HiringTyped'
    BY <1>0, <1>10 DEF AcceptInvite, HiringTyped
  <2>2. Active' = Active /\ Reviving' = Reviving /\ Issuing' = Issuing
    BY <1>0, <1>10 DEF AcceptInvite, HiringTyped, Active, Reviving, Issuing
  <2>. QED BY <1>10, <2>1, <2>2, PlanKept DEF AcceptInvite
<1>11. ASSUME NEW l \in Limit \cup {NoLimit}, AssignPlan(l) PROVE PlanIInv'
  <2>1. HiringTyped' /\ Active' = Active /\ Reviving' = Reviving /\ Issuing' = Issuing
    BY <1>0, <1>11 DEF AssignPlan, HiringTyped, Active, Reviving, Issuing
  <2>2. ceiling' # NoLimit =>
          /\ ceiling # NoLimit /\ l # NoLimit
          /\ ceiling' \in Nat /\ ceiling \in Nat /\ ceiling <= ceiling' /\ l <= ceiling'
    BY <1>0, <1>11, HiringAssumption DEF AssignPlan, HiringTyped
  <2>3. reissues' = reissues /\ planLimit' = l
    BY <1>11 DEF AssignPlan
  <2>. QED BY <1>0, <2>1, <2>2, <2>3, HiringSizes DEF PlanIInv, HiringTyped
<1>12. CASE UNCHANGED hiringvars
  BY <1>0, <1>1, <1>12 DEF hiringvars, HiringTyped, Issuing
<1>. QED BY <1>2, <1>3, <1>4, <1>5, <1>6, <1>7, <1>8, <1>9, <1>10, <1>11, <1>12 DEF HiringNext

(* The plan's limit is passed by no more than the issues checked together  *)
(* and one for each reissue (org/hiring.ts, platform/entitlements.ts).     *)
THEOREM PlanBounded == HiringSpec => []PlanOvershootBounded
<1>1. HiringSpec => []PlanIInv
  BY PlanInit, PlanStep, PTL DEF HiringSpec
<1>2. ASSUME PlanIInv PROVE PlanOvershootBounded
  BY <1>2, HiringSizes DEF PlanIInv, HiringTyped, PlanOvershootBounded
<1>. QED BY <1>1, <1>2, PTL

-------------------------------------------------------------------------------
(* Proposals about one signal. *)

Generators(s) == {a \in Admin : deed[a].kind = "generate" /\ s \notin deed[a].open}
Deciders == {a \in Admin : deed[a].kind = "decide"}

(* Proposals open on the signal, or dismissed with an approval on its way. *)
Hot(s) ==
  {p \in Proposal : /\ s \in about[p]
                    /\ \/ decision[p] \in {"proposed", "approved"}
                       \/ /\ decision[p] = "dismissed"
                          /\ \E a \in Deciders : deed[a].proposal = p /\ deed[a].to = "approved"}

InsightTyped ==
  /\ about \in [Proposal -> SUBSET Signal]
  /\ decision \in [Proposal -> {"none", "proposed", "approved", "dismissed"}]
  /\ deed = [a \in Admin |-> deed[a]]
  /\ \A p \in Proposal : decision[p] = "none" => about[p] = {}
  /\ \A a \in Deciders : /\ deed[a].proposal \in Proposal /\ decision[deed[a].proposal] # "none"
                         /\ deed[a].to \in {"approved", "dismissed"}

(* A generation that did not find the signal open will propose once more.  *)
Crowd(s) ==
  /\ IsFiniteSet(Hot(s))
  /\ Cardinality(Hot(s)) + Cardinality(Generators(s)) <= Cardinality(Admin)

OpenIInv == InsightTyped /\ \A s \in Signal : Crowd(s)

LEMMA CrowdInit == ASSUME InsightsInit PROVE OpenIInv
<1>1. /\ \A a \in Admin : deed[a].kind = "none"
      /\ \A p \in Proposal : about[p] = {} /\ decision[p] = "none"
  BY DEF InsightsInit, Idle
<1>2. Deciders = {} /\ \A s \in Signal : Hot(s) = {} /\ Generators(s) = {}
  BY <1>1 DEF Deciders, Hot, Generators
<1>3. InsightTyped
  BY <1>1, <1>2 DEF InsightsInit, InsightTyped
<1>4. Cardinality(Admin) \in Nat
  BY InsightsAssumption, FS_CardinalityType
<1>. QED BY <1>2, <1>3, <1>4, FS_EmptySet DEF OpenIInv, Crowd

LEMMA GeneratorsFinite ==
  ASSUME NEW s PROVE /\ Generators(s) \in SUBSET Admin /\ IsFiniteSet(Generators(s))
                     /\ Cardinality(Generators(s)) \in Nat /\ Cardinality(Admin) \in Nat
<1>1. Generators(s) \in SUBSET Admin
  BY DEF Generators
<1>. QED BY <1>1, InsightsAssumption, FS_Subset, FS_CardinalityType

(* A step that adds neither an open proposal nor a generation.             *)
LEMMA CrowdShrinks ==
  ASSUME NEW s, Crowd(s), Hot(s)' \subseteq Hot(s), Generators(s)' \subseteq Generators(s)
  PROVE  Crowd(s)'
<1>1. /\ IsFiniteSet(Hot(s)') /\ Cardinality(Hot(s)') <= Cardinality(Hot(s))
      /\ Cardinality(Hot(s)') \in Nat /\ Cardinality(Hot(s)) \in Nat
  BY FS_Subset, FS_CardinalityType DEF Crowd
<1>2. /\ Cardinality(Generators(s)') <= Cardinality(Generators(s))
      /\ Cardinality(Generators(s)') \in Nat /\ Cardinality(Generators(s)) \in Nat
      /\ Cardinality(Admin) \in Nat
  BY GeneratorsFinite, FS_Subset, FS_CardinalityType
<1>. QED BY <1>1, <1>2 DEF Crowd

(* What may come back is in the hands of somebody who does not generate.   *)
LEMMA CrowdOfDeciders ==
  ASSUME InsightTyped, NEW s, OpenOn(s) = {},
         NEW a \in Admin, deed[a].kind = "none"
  PROVE  Cardinality(Hot(s)) + Cardinality(Generators(s) \cup {a}) <= Cardinality(Admin)
<1>. DEFINE f == [p \in Hot(s) |-> CHOOSE b \in Deciders : deed[b].proposal = p]
            G == Generators(s) \cup {a}
<1>1. \A p \in Hot(s) : \E b \in Deciders : deed[b].proposal = p
  BY DEF Hot, OpenOn
<1>2. \A p \in Hot(s) : f[p] \in Deciders /\ deed[f[p]].proposal = p
  BY <1>1
<1>3. f \in [Hot(s) -> Deciders]
  BY <1>2
<1>4. \A p, q \in Hot(s) : f[p] = f[q] => p = q
  BY <1>2
<1>5. f \in Injection(Hot(s), Deciders)
  <2>. HIDE DEF f
  <2>. QED BY <1>3, <1>4 DEF Injection, IsInjective
<1>6. Deciders \in SUBSET Admin /\ G \in SUBSET Admin /\ Deciders \cap G = {}
  BY DEF Deciders, Generators
<1>7. IsFiniteSet(Deciders) /\ IsFiniteSet(G) /\ IsFiniteSet(Admin)
  BY <1>6, InsightsAssumption, FS_Subset
<1>8. IsFiniteSet(Hot(s)) /\ Cardinality(Hot(s)) <= Cardinality(Deciders)
  <2>. HIDE DEF f, G
  <2>. QED BY <1>5, <1>7, FS_Injection
<1>9. Cardinality(Deciders \cup G) = Cardinality(Deciders) + Cardinality(G) - Cardinality(Deciders \cap G)
  <2>. HIDE DEF G
  <2>. QED BY <1>7, FS_Union
<1>10. Cardinality(Deciders \cup G) <= Cardinality(Admin)
  <2>. HIDE DEF G
  <2>. QED BY <1>6, <1>7, FS_Subset
<1>11. /\ Cardinality(Hot(s)) \in Nat /\ Cardinality(Deciders) \in Nat /\ Cardinality(G) \in Nat
       /\ Cardinality(Deciders \cap G) = 0 /\ Cardinality(Admin) \in Nat
  <2>. HIDE DEF G
  <2>. QED BY <1>6, <1>7, <1>8, FS_CardinalityType, FS_EmptySet
<1>. HIDE DEF G, f
<1>12. Cardinality(Hot(s)) + Cardinality(G) <= Cardinality(Admin)
  BY <1>8, <1>9, <1>10, <1>11
<1>. QED BY <1>12 DEF G

LEMMA CrowdStep == ASSUME OpenIInv, [InsightsNext]_insightvars PROVE OpenIInv'
<1>0. InsightTyped /\ \A s \in Signal : Crowd(s)
  BY DEF OpenIInv
<1>1. ASSUME UNCHANGED <<about, decision, deed>> PROVE OpenIInv'
  BY <1>0, <1>1 DEF OpenIInv, InsightTyped, Crowd, Hot, Generators, Deciders
<1>2. ASSUME NEW a \in Admin, GenerateRead(a) PROVE OpenIInv'
  <2>1. /\ deed[a].kind = "none" /\ UNCHANGED <<about, decision>>
        /\ deed' = [deed EXCEPT ![a] = Generating(OpenKeys)]
    BY <1>2 DEF GenerateRead, Idle
  <2>2. /\ deed'[a].kind = "generate" /\ deed'[a].open = OpenKeys
        /\ \A b \in Admin \ {a} : deed'[b] = deed[b]
        /\ deed' = [b \in Admin |-> deed'[b]]
    BY <1>0, <2>1 DEF InsightTyped, Generating
  <2>3. Deciders' = Deciders /\ a \notin Deciders
    BY <2>1, <2>2 DEF Deciders
  <2>4. \A b \in Deciders : deed'[b] = deed[b]
    BY <2>2, <2>3 DEF Deciders
  <2>5. InsightTyped'
    BY <1>0, <2>1, <2>2, <2>3, <2>4 DEF InsightTyped
  <2>6. ASSUME NEW s \in Signal PROVE Crowd(s)'
    <3>1. Hot(s)' = Hot(s)
      BY <2>1, <2>3, <2>4 DEF Hot
    <3>2. CASE s \in OpenKeys
      <4>1. Generators(s)' \subseteq Generators(s)
        BY <2>2, <3>2 DEF Generators
      <4>. QED BY <1>0, <3>1, <4>1, CrowdShrinks
    <3>3. CASE s \notin OpenKeys
      <4>1. Generators(s)' = Generators(s) \cup {a}
        BY <2>2, <3>3 DEF Generators
      <4>2. OpenOn(s) = {}
        BY <3>3 DEF OpenKeys
      <4>. QED BY <1>0, <2>1, <3>1, <4>1, <4>2, CrowdOfDeciders DEF Crowd
    <3>. QED BY <3>2, <3>3
  <2>. QED BY <2>5, <2>6 DEF OpenIInv
<1>3. ASSUME NEW a \in Admin, Generate(a) PROVE OpenIInv'
  <2>. DEFINE fresh == Signalled \ deed[a].open
  <2>1. deed[a].kind = "generate" /\ deed' = [deed EXCEPT ![a] = Idle]
    BY <1>3 DEF Generate
  <2>2. PICK id \in Injection(fresh, Unused) :
          /\ about' = [p \in Proposal |-> about[p] \cup {s \in fresh : id[s] = p}]
          /\ decision' = [p \in Proposal |->
                            IF \E s \in fresh : id[s] = p THEN "proposed" ELSE decision[p]]
    BY <1>3 DEF Generate, Propose
  <2>3. /\ \A s \in fresh : id[s] \in Unused
        /\ \A s, t \in fresh : id[s] = id[t] => s = t
    BY <2>2 DEF Injection, IsInjective
  <2>4. fresh \subseteq Signal
    BY DEF Signalled, Signal, ThemesShown, SkillsGap
  <2>5. /\ deed'[a].kind = "none" /\ \A b \in Admin \ {a} : deed'[b] = deed[b]
        /\ deed' = [b \in Admin |-> deed'[b]]
    BY <1>0, <2>1 DEF InsightTyped, Idle
  <2>6. Deciders' = Deciders /\ \A b \in Deciders : deed'[b] = deed[b]
    BY <2>1, <2>5 DEF Deciders
  <2>7. /\ \A s \in fresh : /\ id[s] \in Proposal /\ decision[id[s]] = "none" /\ about[id[s]] = {}
                            /\ about'[id[s]] = {s} /\ decision'[id[s]] = "proposed"
        /\ \A p \in Proposal : (\A s \in fresh : id[s] # p) =>
                                 about'[p] = about[p] /\ decision'[p] = decision[p]
    <3>. HIDE DEF fresh
    <3>. QED BY <1>0, <2>2, <2>3 DEF Unused, InsightTyped
  <2>8. InsightTyped'
    <3>1. about' \in [Proposal -> SUBSET Signal]
      <4>. HIDE DEF fresh
      <4>. QED BY <1>0, <2>2, <2>4 DEF InsightTyped
    <3>2. decision' \in [Proposal -> {"none", "proposed", "approved", "dismissed"}]
      <4>. HIDE DEF fresh
      <4>. QED BY <1>0, <2>2 DEF InsightTyped
    <3>3. \A p \in Proposal : decision'[p] = "none" => about'[p] = {}
      <4>. HIDE DEF fresh
      <4>. QED BY <1>0, <2>7 DEF InsightTyped
    <3>4. \A b \in Deciders' : /\ deed'[b].proposal \in Proposal /\ decision'[deed'[b].proposal] # "none"
                               /\ deed'[b].to \in {"approved", "dismissed"}
      <4>. HIDE DEF fresh
      <4>. QED BY <1>0, <2>6, <2>7 DEF InsightTyped
    <3>. QED BY <2>5, <3>1, <3>2, <3>3, <3>4 DEF InsightTyped
  <2>9. ASSUME NEW s \in Signal PROVE Crowd(s)'
    <3>1. CASE s \notin fresh
      <4>1. Hot(s)' \subseteq Hot(s)
        <5>. HIDE DEF fresh
        <5>. QED BY <2>6, <2>7, <3>1 DEF Hot
      <4>2. Generators(s)' \subseteq Generators(s)
        BY <2>5 DEF Generators
      <4>. QED BY <1>0, <4>1, <4>2, CrowdShrinks
    <3>2. CASE s \in fresh
      <4>1. Hot(s)' = Hot(s) \cup {id[s]} /\ id[s] \notin Hot(s)
        <5>. HIDE DEF fresh
        <5>. QED BY <2>3, <2>6, <2>7, <3>2 DEF Hot
      <4>2. Generators(s) = Generators(s)' \cup {a} /\ a \notin Generators(s)'
        BY <2>1, <2>5, <3>2 DEF Generators
      <4>. HIDE DEF fresh
      <4>3. /\ IsFiniteSet(Hot(s)') /\ Cardinality(Hot(s)') = Cardinality(Hot(s)) + 1
            /\ Cardinality(Hot(s)) \in Nat
        BY <1>0, <4>1, FS_AddElement, FS_CardinalityType DEF Crowd
      <4>4. /\ Cardinality(Generators(s)) = Cardinality(Generators(s)') + 1
            /\ Cardinality(Generators(s)') \in Nat /\ Cardinality(Admin) \in Nat
        <5>1. Generators(s)' \in SUBSET Admin /\ IsFiniteSet(Admin)
          BY InsightsAssumption DEF Generators
        <5>. QED BY <4>2, <5>1, OneMore
      <4>. QED BY <1>0, <4>3, <4>4 DEF Crowd
    <3>. QED BY <3>1, <3>2
  <2>. QED BY <2>8, <2>9 DEF OpenIInv
<1>4. ASSUME NEW a \in Admin, NEW p \in Proposal, NEW d \in {"approved", "dismissed"}, DecideRead(a, p, d)
      PROVE  OpenIInv'
  <2>1. /\ deed[a].kind = "none" /\ decision[p] = "proposed" /\ UNCHANGED <<about, decision>>
        /\ deed' = [deed EXCEPT ![a] = Deciding(p, d)]
    BY <1>4 DEF DecideRead, Idle
  <2>2. /\ deed'[a].kind = "decide" /\ deed'[a].proposal = p /\ deed'[a].to = d
        /\ \A b \in Admin \ {a} : deed'[b] = deed[b]
        /\ deed' = [b \in Admin |-> deed'[b]]
    BY <1>0, <2>1 DEF InsightTyped, Deciding
  <2>3. Deciders' = Deciders \cup {a} /\ \A b \in Deciders : deed'[b] = deed[b]
    BY <2>1, <2>2 DEF Deciders
  <2>4. InsightTyped'
    BY <1>0, <2>1, <2>2, <2>3 DEF InsightTyped
  <2>5. ASSUME NEW s \in Signal PROVE Crowd(s)'
    <3>1. Hot(s)' \subseteq Hot(s)
      BY <2>1, <2>2, <2>3 DEF Hot
    <3>2. Generators(s)' \subseteq Generators(s)
      BY <2>2 DEF Generators
    <3>. QED BY <1>0, <3>1, <3>2, CrowdShrinks
  <2>. QED BY <2>4, <2>5 DEF OpenIInv
<1>5. ASSUME NEW a \in Admin, Decide(a) PROVE OpenIInv'
  <2>. DEFINE p == deed[a].proposal
              to == deed[a].to
  <2>1. /\ a \in Deciders /\ decision' = [decision EXCEPT ![p] = to] /\ about' = about
        /\ deed' = [deed EXCEPT ![a] = Idle]
    BY <1>5 DEF Decide, Deciders
  <2>2. p \in Proposal /\ decision[p] # "none" /\ to \in {"approved", "dismissed"}
    BY <1>0, <2>1 DEF InsightTyped
  <2>3. /\ deed'[a].kind = "none" /\ \A b \in Admin \ {a} : deed'[b] = deed[b]
        /\ deed' = [b \in Admin |-> deed'[b]]
    BY <1>0, <2>1 DEF InsightTyped, Idle
  <2>4. Deciders' = Deciders \ {a} /\ \A b \in Deciders' : deed'[b] = deed[b]
    BY <2>3 DEF Deciders
  <2>5. InsightTyped'
    BY <1>0, <2>1, <2>2, <2>3, <2>4 DEF InsightTyped
  <2>6. ASSUME NEW s \in Signal PROVE Crowd(s)'
    <3>1. Hot(s)' \subseteq Hot(s)
      <4>1. ASSUME NEW q \in Proposal, q \in Hot(s)' PROVE q \in Hot(s)
        <5>1. CASE q = p
          BY <1>0, <2>1, <2>2, <2>4, <4>1, <5>1, ZenonT(40) DEF Hot, InsightTyped
        <5>2. CASE q # p
          BY <1>0, <2>1, <2>2, <2>4, <4>1, <5>2, SMTT(30) DEF Hot, InsightTyped
        <5>. QED BY <5>1, <5>2
      <4>. QED BY <4>1 DEF Hot
    <3>2. Generators(s)' \subseteq Generators(s)
      BY <2>3 DEF Generators
    <3>. QED BY <1>0, <3>1, <3>2, CrowdShrinks
  <2>. QED BY <2>5, <2>6 DEF OpenIInv
<1>6. CASE UNCHANGED insightvars
  BY <1>1, <1>6 DEF insightvars
<1>7. CASE UpdateSettings \/ (\E e \in Employee : RequireIntelligenceEnabled(e))
           \/ (\E e \in Employee, k \in Theme : SubmitPainPoint(e, k))
           \/ (\E c \in Course : Enrol(c) \/ Complete(c))
  BY <1>1, <1>7 DEF UpdateSettings, RequireIntelligenceEnabled, SubmitPainPoint, Enrol, Complete
<1>. QED BY <1>2, <1>3, <1>4, <1>5, <1>6, <1>7 DEF InsightsNext

(* However generations and decisions race, a signal has no more open       *)
(* proposals than administrators act at once (org/workflow-insights.ts).   *)
THEOREM ProposalsBounded == InsightsSpec => []OpenProposalsBounded
<1>1. InsightsSpec => []OpenIInv
  BY CrowdInit, CrowdStep, PTL DEF InsightsSpec
<1>2. ASSUME OpenIInv PROVE OpenProposalsBounded
  <2>1. ASSUME NEW s \in Signal PROVE Cardinality(OpenOn(s)) <= Cardinality(Admin)
    <3>1. Crowd(s) /\ OpenOn(s) \subseteq Hot(s)
      BY <1>2 DEF OpenIInv, OpenOn, Hot
    <3>2. /\ Cardinality(OpenOn(s)) <= Cardinality(Hot(s)) /\ Cardinality(OpenOn(s)) \in Nat
          /\ Cardinality(Hot(s)) \in Nat
      BY <3>1, FS_Subset, FS_CardinalityType DEF Crowd
    <3>. QED BY <3>1, <3>2, GeneratorsFinite DEF Crowd
  <2>. QED BY <2>1 DEF OpenProposalsBounded
<1>. QED BY <1>1, <1>2, PTL

-------------------------------------------------------------------------------
(* Types. *)

LEMMA SignInTyped == SignInSpec => []SignInTypeOK
<1>1. SignInInit => SignInTypeOK
  BY SignInAssumption DEF SignInInit, SignInTypeOK, NoSession, NoSecret
<1>2. SignInTypeOK /\ [SignInNext]_signvars => SignInTypeOK'
  <2>. SUFFICES ASSUME SignInTypeOK, [SignInNext]_signvars PROVE SignInTypeOK'
    OBVIOUS
  <2>. USE SignInAssumption DEF SignInTypeOK
  <2>1. CASE Hour \/ FailureAges
    <3>1. /\ hour' \in 0..MaxHour /\ wrong' \in Nat /\ turned' \in Nat
          /\ UNCHANGED <<signing, request, factor>>
      BY <2>1 DEF Hour, FailureAges
    <3>2. auth' \in [Token -> [state : {"none", "live", "revoked"}, expires : Nat,
                               absolute : Nat, fresh : BOOLEAN]]
      <4>1. ASSUME NEW t \in Token
            PROVE  [auth[t] EXCEPT !.fresh = FALSE]
                     \in [state : {"none", "live", "revoked"}, expires : Nat, absolute : Nat,
                          fresh : BOOLEAN]
        <5>1. auth[t] \in [state : {"none", "live", "revoked"}, expires : Nat, absolute : Nat,
                           fresh : BOOLEAN]
          OBVIOUS
        <5>. QED BY <5>1
      <4>2. CASE Hour
        <5>1. auth' = [t \in Token |-> [auth[t] EXCEPT !.fresh = FALSE]]
          BY <4>2 DEF Hour
        <5>. QED BY <4>1, <5>1, Zenon
      <4>3. CASE FailureAges
        BY <4>3 DEF FailureAges
      <4>. QED BY <2>1, <4>2, <4>3
    <3>. QED BY <3>1, <3>2
  <2>2. ASSUME NEW a \in Attempt, CountFailures(a) \/ TurnAway(a) \/ RejectPassword(a)
        PROVE  SignInTypeOK'
    BY <2>2 DEF CountFailures, TurnAway, RejectPassword
  <2>3. ASSUME NEW a \in Attempt, NEW t \in Token, AcceptPassword(a, t) PROVE SignInTypeOK'
    <3>1. [state |-> "live", expires |-> hour + SlidingTtl,
           absolute |-> hour + AbsoluteTtl, fresh |-> TRUE]
            \in [state : {"none", "live", "revoked"}, expires : Nat, absolute : Nat, fresh : BOOLEAN]
      OBVIOUS
    <3>. QED BY <2>3, <3>1 DEF AcceptPassword
  <2>4. ASSUME NEW t \in Token, NEW h \in Handler, RequireAuth(t, h) PROVE SignInTypeOK'
    <3>. DEFINE until == IF hour + SlidingTtl < auth[t].absolute
                           THEN hour + SlidingTtl ELSE auth[t].absolute
    <3>1. until \in Nat
      OBVIOUS
    <3>2. /\ request' = [request EXCEPT ![t] = h] /\ auth' = [auth EXCEPT ![t].expires = until]
          /\ UNCHANGED <<hour, wrong, turned, signing, factor>>
      BY <2>4 DEF RequireAuth
    <3>. HIDE DEF until
    <3>. QED BY <3>1, <3>2
  <2>5. ASSUME NEW t \in Token, Logout(t) \/ RevokeAll(t) \/ Export(t) PROVE SignInTypeOK'
    BY <2>5 DEF Logout, RevokeAll, Export, Done
  <2>6. ASSUME NEW t \in Token, StepUp(t) PROVE SignInTypeOK'
    BY <2>6 DEF StepUp, Done
  <2>7. ASSUME NEW t \in Token, EnrollTotp(t) \/ VerifyTotpRead(t) \/ VerifyTotpWrite(t)
        PROVE  SignInTypeOK'
    <3>1. UNCHANGED <<hour, wrong, turned, signing, auth>>
      BY <2>7 DEF EnrollTotp, VerifyTotpRead, VerifyTotpWrite
    <3>2. request' \in [Token -> {"none"} \cup Handler \cup {"verify:write"}]
      BY <2>7 DEF EnrollTotp, VerifyTotpRead, VerifyTotpWrite, Done
    <3>3. factor' \in [secret : SUBSET Secret, enrolled : BOOLEAN]
      <4>1. CASE EnrollTotp(t)
        <5>1. PICK s \in Secret : factor' = [secret |-> {s}, enrolled |-> FALSE]
          BY <4>1 DEF EnrollTotp
        <5>. QED BY <5>1
      <4>2. CASE VerifyTotpRead(t)
        BY <4>2 DEF VerifyTotpRead
      <4>3. CASE VerifyTotpWrite(t)
        BY <4>3 DEF VerifyTotpWrite
      <4>. QED BY <2>7, <4>1, <4>2, <4>3
    <3>. QED BY <3>1, <3>2, <3>3
  <2>8. CASE UNCHANGED signvars
    BY <2>8 DEF signvars
  <2>. QED BY <2>1, <2>2, <2>3, <2>4, <2>5, <2>6, <2>7, <2>8 DEF SignInNext
<1>. QED BY <1>1, <1>2, PTL DEF SignInSpec

Doings == {Free} \cup ToolAsk \cup ToolTurn \cup CopilotAsk \cup CopilotTurn

(* A request that moves on to something it may be doing. *)
LEMMA ToolsMoveTyped ==
  ASSUME ToolsTypeOK, ToolsIInv, NEW c \in ToolCaller, NEW next \in Doings, Becomes(c, next)
  PROVE  \A d \in ToolCaller : doing'[d] \in Doings
  BY Zenon DEF ToolsTypeOK, ToolsIInv, Becomes, Doings

LEMMA ToolsTyped == ASSUME ToolsTypeOK, ToolsIInv, [ToolsNext]_toolvars PROVE ToolsTypeOK'
<1>0. ToolsTypeOK
  OBVIOUS
<1>. USE DEF ToolsTypeOK
<1>1. Free \in Doings /\ [at |-> "prompted"] \in Doings
  BY DEF Doings, CopilotAsk
<1>2. ASSUME NEW c \in ToolCaller, doing[c].at \in {"asked", "missed", "locked"}
      PROVE  doing[c].key \in ToolKey /\ doing[c].plugin \in Plugin
  BY <1>2 DEF ToolsIInv, Holding
<1>3. ASSUME NEW next \in Doings, NEW c \in ToolCaller, Becomes(c, next),
             running' \in {"active", "paused", "closed"}, manifestLock' \subseteq ToolCaller,
             receipts' \in Seq(Receipt), turns' \in Seq(Nat), tokens' \in Nat
      PROVE  ToolsTypeOK'
  <2>1. \A d \in ToolCaller : doing'[d] \in Doings
    BY <1>0, <1>3, ToolsMoveTyped
  <2>. QED BY <1>3, <2>1 DEF Doings
<1>4. ASSUME NEW c \in ToolCaller, InvokeTool(c) PROVE ToolsTypeOK'
  <2>1. PICK k \in ToolKey, p \in Plugin : Becomes(c, [at |-> "asked", key |-> k, plugin |-> p])
    BY <1>4 DEF InvokeTool
  <2>2. [at |-> "asked", key |-> k, plugin |-> p] \in Doings
    BY DEF Doings, ToolAsk
  <2>. QED BY <1>3, <1>4, <2>1, <2>2 DEF InvokeTool
<1>5. ASSUME NEW c \in ToolCaller, LookUpReceipt(c) PROVE ToolsTypeOK'
  <2>1. doing[c].at = "asked"
    BY <1>5 DEF LookUpReceipt
  <2>2. doing[c] \in ToolAsk
    BY <2>1 DEF Free, ToolAsk, ToolTurn, CopilotAsk, CopilotTurn
  <2>3. [doing[c] EXCEPT !.at = "missed"] \in ToolAsk
    BY <2>2 DEF ToolAsk
  <2>4. [doing[c] EXCEPT !.at = "missed"] \in Doings
    BY <2>3 DEF Doings
  <2>5. Becomes(c, Free) \/ Becomes(c, [doing[c] EXCEPT !.at = "missed"])
    BY <1>5 DEF LookUpReceipt
  <2>. QED BY <1>1, <1>3, <1>5, <2>4, <2>5 DEF LookUpReceipt
<1>6. ASSUME NEW c \in ToolCaller, LockForTool(c) PROVE ToolsTypeOK'
  <2>. DEFINE next == [at |-> "locked", key |-> doing[c].key, plugin |-> doing[c].plugin,
                       open |-> CircuitOpen(doing[c].plugin)]
  <2>1. CircuitOpen(doing[c].plugin) \in BOOLEAN
    BY DEF CircuitOpen
  <2>2. next \in Doings
    BY <1>2, <1>6, <2>1 DEF LockForTool, Doings, ToolTurn
  <2>3. Becomes(c, next)
    BY <1>6 DEF LockForTool
  <2>. HIDE DEF next
  <2>. QED BY <1>3, <1>6, <2>2, <2>3 DEF LockForTool
<1>7. ASSUME NEW c \in ToolCaller, RefuseTool(c) \/ FailTool(c) \/ RefuseCopilot(c) \/ FailTurn(c)
      PROVE  ToolsTypeOK'
  BY <1>1, <1>3, <1>7 DEF RefuseTool, FailTool, RefuseCopilot, FailTurn
<1>8. ASSUME NEW c \in ToolCaller, RecordReceipt(c) PROVE ToolsTypeOK'
  <2>1. PICK status \in {"ok", "failed", "denied", "circuit_open"} :
          receipts' = Append(receipts, [key |-> doing[c].key, plugin |-> doing[c].plugin,
                                        status |-> status])
    BY <1>8 DEF RecordReceipt
  <2>2. [key |-> doing[c].key, plugin |-> doing[c].plugin, status |-> status] \in Receipt
    BY <1>2, <1>8 DEF RecordReceipt, Receipt
  <2>3. receipts' \in Seq(Receipt)
    BY <2>1, <2>2
  <2>. QED BY <1>1, <1>3, <1>8, <2>3 DEF RecordReceipt
<1>9. ASSUME NEW c \in ToolCaller, Prompt(c) PROVE ToolsTypeOK'
  BY <1>1, <1>3, <1>9 DEF Prompt
<1>10. ASSUME NEW c \in ToolCaller, LockForCopilot(c) PROVE ToolsTypeOK'
  <2>1. [at |-> "prompting", no |-> Len(turns) + 1] \in Doings
    BY DEF Doings, CopilotTurn
  <2>. QED BY <1>3, <1>10, <2>1 DEF LockForCopilot
<1>11. ASSUME NEW c \in ToolCaller, RecordTurn(c) PROVE ToolsTypeOK'
  <2>1. doing[c].no \in Nat
    BY <1>11 DEF RecordTurn, ToolsIInv, Holding
  <2>2. tokens' \in Nat
    BY <1>11, ToolsAssumption DEF RecordTurn
  <2>. QED BY <1>1, <1>3, <1>11, <2>1, <2>2 DEF RecordTurn
<1>12. CASE MoveSession \/ UNCHANGED toolvars
  BY <1>12 DEF MoveSession, toolvars
<1>. QED
  BY <1>4, <1>5, <1>6, <1>7, <1>8, <1>9, <1>10, <1>11, <1>12 DEF ToolsNext

(* Each reissue uses up an identity that was fresh. *)
ReissueIInv ==
  /\ HiringTypeOK
  /\ reissues + Cardinality(Fresh) <= MaxInvite

LEMMA FreshFinite == /\ IsFiniteSet(Fresh) /\ Cardinality(Fresh) \in Nat
                     /\ Cardinality(Fresh) <= MaxInvite
<1>1. IsFiniteSet(Invite) /\ Cardinality(Invite) = MaxInvite
  BY HiringAssumption, FS_Interval DEF Invite
<1>2. Fresh \in SUBSET Invite
  BY DEF Fresh
<1>. QED BY <1>1, <1>2, FS_Subset, FS_CardinalityType

LEMMA ReissueInit == ASSUME HiringInit PROVE ReissueIInv
<1>1. HiringTypeOK
  BY HiringAssumption DEF HiringInit, HiringTypeOK, Away, Blank
<1>. QED BY <1>1, FreshFinite, HiringAssumption DEF HiringInit, ReissueIInv

(* A step that gives out no identity, or gives one out without a reissue.  *)
LEMMA ReissueKept ==
  ASSUME ReissueIInv, HiringTypeOK', reissues' = reissues, Fresh' \subseteq Fresh
  PROVE  ReissueIInv'
<1>1. Cardinality(Fresh') <= Cardinality(Fresh) /\ Cardinality(Fresh') \in Nat
  BY FreshFinite, FS_Subset, FS_CardinalityType
<1>. QED BY <1>1, FreshFinite, HiringAssumption DEF ReissueIInv, HiringTypeOK

LEMMA ReissueStep == ASSUME PlanIInv, ReissueIInv, [HiringNext]_hiringvars, PlanIInv' PROVE ReissueIInv'
<1>0. HiringTypeOK /\ HiringTyped /\ HiringTyped'
  BY DEF ReissueIInv, PlanIInv
<1>1. ASSUME candidate' \in [Email -> {"absent", "created", "invited"}], routing' \subseteq Invite,
             reissues' \in 0..MaxInvite
      PROVE  HiringTypeOK'
  BY <1>0, <1>1 DEF HiringTypeOK, HiringTyped
<1>2. ASSUME UNCHANGED <<invite, reissues, routing>>,
             candidate' \in [Email -> {"absent", "created", "invited"}]
      PROVE  ReissueIInv'
  <2>1. HiringTypeOK' /\ Fresh' = Fresh
    BY <1>0, <1>1, <1>2 DEF HiringTypeOK, Fresh
  <2>. QED BY <1>2, <2>1, ReissueKept
<1>3. ASSUME NEW e \in Email, CreateCandidate(e) PROVE ReissueIInv'
  BY <1>0, <1>2, <1>3 DEF CreateCandidate, HiringTypeOK
<1>4. ASSUME NEW k \in Clerk, FinishImport(k) PROVE ReissueIInv'
  BY <1>0, <1>2, <1>4 DEF FinishImport, HiringTypeOK
<1>5. ASSUME NEW k \in Clerk,
             \/ BeginImport(k) \/ Abandon(k)
             \/ \E e \in Email : LookForRow(k, e) \/ InsertRow(k, e) \/ BeginIssue(k, e)
      PROVE  ReissueIInv'
  <2>1. UNCHANGED <<candidate, invite, reissues, routing>>
    BY <1>5 DEF BeginImport, Abandon, LookForRow, InsertRow, BeginIssue
  <2>. QED BY <1>0, <1>2, <2>1 DEF HiringTypeOK
<1>6. ASSUME NEW i \in Invite, ViewLanding(i) PROVE ReissueIInv'
  BY <1>0, <1>2, <1>6 DEF ViewLanding, HiringTypeOK
<1>7. ASSUME NEW l \in Limit \cup {NoLimit}, AssignPlan(l) PROVE ReissueIInv'
  BY <1>0, <1>2, <1>7 DEF AssignPlan, HiringTypeOK
<1>8. ASSUME NEW i \in Invite, InviteFallsDue(i) \/ MarkOpened(i) \/ AcceptInvite(i)
      PROVE  ReissueIInv'
  <2>1. UNCHANGED <<candidate, reissues, routing>>
    BY <1>8 DEF InviteFallsDue, MarkOpened, AcceptInvite
  <2>2. Fresh' \subseteq Fresh
    BY <1>0, <1>8 DEF InviteFallsDue, MarkOpened, AcceptInvite, Fresh, HiringTyped
  <2>. QED BY <1>0, <1>1, <2>1, <2>2, ReissueKept DEF HiringTypeOK
<1>9. ASSUME NEW k \in Clerk, CommitIssue(k) PROVE ReissueIInv'
  <2>. DEFINE j == CHOOSE m \in Fresh : \A f \in Fresh : m <= f
  <2>1. /\ invite' = [invite EXCEPT ![j].status = "sent"] /\ routing' = routing \cup {j}
        /\ reissues' = reissues /\ Fresh # {}
        /\ candidate' = [e \in Email |->
             IF e \in office[k].rows /\ candidate[e] = "created" THEN "invited" ELSE candidate[e]]
    BY <1>9 DEF CommitIssue
  <2>2. j \in Fresh
    BY <1>0, <2>1, FreshExists
  <2>. HIDE DEF j
  <2>3. Fresh' \subseteq Fresh /\ routing' \subseteq Invite
    BY <1>0, <2>1, <2>2 DEF Fresh, HiringTypeOK
  <2>4. candidate' \in [Email -> {"absent", "created", "invited"}]
    BY <1>0, <2>1 DEF HiringTypeOK
  <2>5. HiringTypeOK'
    BY <1>0, <1>1, <2>1, <2>3, <2>4 DEF HiringTypeOK
  <2>. QED BY <2>1, <2>3, <2>5, ReissueKept
<1>10. ASSUME NEW i \in Invite, ReissueInvite(i) PROVE ReissueIInv'
  <2>. DEFINE j == CHOOSE m \in Fresh : \A f \in Fresh : m <= f
  <2>1. /\ invite' = [invite EXCEPT ![i].status = "expired", ![j].status = "sent"]
        /\ routing' = (routing \cup {j}) \ {i}
        /\ reissues' = reissues + 1 /\ candidate' = candidate /\ Fresh # {}
    BY <1>10 DEF ReissueInvite
  <2>2. j \in Fresh
    BY <1>0, <2>1, FreshExists
  <2>. HIDE DEF j
  <2>3. Fresh' \subseteq Fresh \ {j} /\ routing' \subseteq Invite
    BY <1>0, <2>1, <2>2 DEF Fresh, HiringTypeOK
  <2>4. Cardinality(Fresh \ {j}) = Cardinality(Fresh) - 1 /\ IsFiniteSet(Fresh \ {j})
    BY <2>2, FreshFinite, FS_RemoveElement
  <2>5. Cardinality(Fresh') <= Cardinality(Fresh) - 1 /\ Cardinality(Fresh') \in Nat
    BY <2>3, <2>4, FS_Subset, FS_CardinalityType
  <2>6. reissues' + Cardinality(Fresh') <= MaxInvite /\ reissues' \in 0..MaxInvite
    BY <1>0, <2>1, <2>5, FreshFinite, HiringAssumption DEF ReissueIInv, HiringTypeOK
  <2>. QED BY <1>0, <1>1, <2>1, <2>3, <2>6 DEF ReissueIInv, HiringTypeOK
<1>11. CASE UNCHANGED hiringvars
  BY <1>0, <1>2, <1>11 DEF hiringvars, HiringTypeOK
<1>. QED BY <1>3, <1>4, <1>5, <1>6, <1>7, <1>8, <1>9, <1>10, <1>11 DEF HiringNext

LEMMA InsightsTyped == ASSUME InsightsTypeOK, OpenIInv, OpenIInv', [InsightsNext]_insightvars
                       PROVE  InsightsTypeOK'
<1>0. InsightsTypeOK /\ InsightTyped /\ InsightTyped'
  BY DEF OpenIInv
<1>1. ASSUME deed' \in [Admin -> Deed], UNCHANGED figures PROVE InsightsTypeOK'
  BY <1>0, <1>1 DEF InsightsTypeOK, InsightTyped, figures
<1>2. ASSUME UNCHANGED <<about, decision, deed>>,
             enabled' \in BOOLEAN, voice' \in [Employee -> BOOLEAN], reports' \in [Theme -> Nat],
             enrolled' \in [Course -> Nat], completed' \in [Course -> Nat]
      PROVE  InsightsTypeOK'
  BY <1>0, <1>2 DEF InsightsTypeOK
<1>3. Idle \in Deed
  BY DEF Deed
<1>4. CASE UpdateSettings \/ \E e \in Employee : RequireIntelligenceEnabled(e)
  BY <1>0, <1>2, <1>4 DEF UpdateSettings, RequireIntelligenceEnabled, InsightsTypeOK
<1>5. ASSUME NEW e \in Employee, NEW k \in Theme, SubmitPainPoint(e, k) PROVE InsightsTypeOK'
  BY <1>0, <1>2, <1>5 DEF SubmitPainPoint, InsightsTypeOK
<1>6. ASSUME NEW c \in Course, Enrol(c) \/ Complete(c) PROVE InsightsTypeOK'
  BY <1>0, <1>2, <1>6 DEF Enrol, Complete, InsightsTypeOK
<1>7. ASSUME NEW a \in Admin, GenerateRead(a) PROVE InsightsTypeOK'
  <2>1. Generating(OpenKeys) \in Deed
    BY DEF Deed, OpenKeys
  <2>. QED BY <1>0, <1>1, <1>7, <2>1 DEF GenerateRead, InsightsTypeOK
<1>8. ASSUME NEW a \in Admin, Generate(a) \/ Decide(a) PROVE InsightsTypeOK'
  BY <1>0, <1>1, <1>3, <1>8 DEF Generate, Decide, Propose, InsightsTypeOK
<1>9. ASSUME NEW a \in Admin, NEW p \in Proposal, NEW d \in {"approved", "dismissed"},
             DecideRead(a, p, d)
      PROVE  InsightsTypeOK'
  <2>1. Deciding(p, d) \in Deed
    BY DEF Deed
  <2>. QED BY <1>0, <1>1, <1>9, <2>1 DEF DecideRead, InsightsTypeOK
<1>10. CASE UNCHANGED insightvars
  BY <1>0, <1>2, <1>10 DEF insightvars, figures, InsightsTypeOK
<1>. QED BY <1>4, <1>5, <1>6, <1>7, <1>8, <1>9, <1>10 DEF InsightsNext

(* Every variable of what is bounded here keeps its type, for any number   *)
(* of requests at a time.  Of the reissues it says that there are never    *)
(* more than rows, since each takes an identity nobody had.                *)
THEOREM BoundsTyped ==
  /\ SignInSpec => []SignInTypeOK
  /\ AiSpec => []AiTypeOK
  /\ ToolsSpec => []ToolsTypeOK
  /\ HiringSpec => []HiringTypeOK
  /\ InsightsSpec => []InsightsTypeOK
<1>1. AiSpec => []AiTypeOK
  <2>1. SpendIInv => AiTypeOK
    BY DEF SpendIInv
  <2>. QED BY <2>1, SpendInit, SpendStep, PTL DEF AiSpec
<1>2. ToolsSpec => []ToolsTypeOK
  <2>1. ToolsInit => ToolsTypeOK
    BY DEF ToolsInit, ToolsTypeOK
  <2>. QED BY <2>1, ToolsInitial, ToolsStep, ToolsTyped, PTL DEF ToolsSpec
<1>3. HiringSpec => []HiringTypeOK
  <2>1. ReissueIInv => HiringTypeOK
    BY DEF ReissueIInv
  <2>. QED BY <2>1, PlanInit, PlanStep, ReissueInit, ReissueStep, PTL DEF HiringSpec
<1>4. InsightsSpec => []InsightsTypeOK
  <2>1. InsightsInit => InsightsTypeOK
    <3>1. Idle \in Deed
      BY DEF Deed
    <3>2. InsightsInit => deed \in [Admin -> Deed]
      BY <3>1 DEF InsightsInit
    <3>3. InsightsInit => /\ about \in [Proposal -> SUBSET Signal]
                          /\ decision \in [Proposal -> {"none", "proposed", "approved", "dismissed"}]
      BY DEF InsightsInit
    <3>4. InsightsInit => enabled \in BOOLEAN /\ voice \in [Employee -> BOOLEAN]
      BY Zenon DEF InsightsInit
    <3>5. InsightsInit => /\ reports \in [Theme -> Nat] /\ enrolled \in [Course -> Nat]
                          /\ completed \in [Course -> Nat]
      BY SMT DEF InsightsInit
    <3>. QED BY <3>2, <3>3, <3>4, <3>5 DEF InsightsTypeOK
  <2>. QED BY <2>1, CrowdInit, CrowdStep, InsightsTyped, PTL DEF InsightsSpec
<1>. QED BY <1>1, <1>2, <1>3, <1>4, SignInTyped

===============================================================================
