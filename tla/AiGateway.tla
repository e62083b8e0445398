------------------------------- MODULE AiGateway -------------------------------
(***************************************************************************)
(* The model gateway (org/ai-gateway.ts, packages/ai-gateway): reviewers   *)
(* ask for a suggestion, each in one transaction that reads today's usage, *)
(* checks the budget against an estimate, calls the provider up to three   *)
(* times and writes what the call cost.  Nothing locks the usage: calls    *)
(* that run together read it before any of them has been charged.  One     *)
(* ledger stands for both budgets, tokens and cost, which the code reads   *)
(* and checks side by side.                                                *)
(***************************************************************************)
EXTENDS Integers, FiniteSets

CONSTANTS
  Requester,   \* requests that may run at a time
  DayBudget,   \* limits.tokensPerDay
  Estimate,    \* the prompt's tokens and the 512 kept for the answer
  MaxCharge,   \* the most tokens a provider reports of one call
  MaxDay       \* bound on the days of a behaviour

ASSUME GatewayAssumption ==
  /\ DayBudget \in Nat /\ Estimate \in Nat /\ MaxCharge \in Nat /\ MaxDay \in Nat \ {0}
  /\ Estimate <= DayBudget
  /\ IsFiniteSet(Requester)

VARIABLES
  aiEnabled,  \* org_ai_settings.enabled
  aiDay,      \* the day the clock shows
  charged,    \* day -> tokens of its successful invocations
  assist,     \* caller -> its request: where it is, its day, attempts left
  answered    \* the outcome of the last reply

aivars == <<aiEnabled, aiDay, charged, assist, answered>>

MaxAttempts == 3
NoAssist == [at |-> "idle", day |-> 1, left |-> MaxAttempts, cost |-> 0]

AiTypeOK ==
  /\ aiEnabled \in BOOLEAN /\ aiDay \in 1..MaxDay
  /\ charged \in [1..MaxDay -> Nat]
  /\ assist \in [Requester -> [at : {"idle", "admitted", "calling", "logged"},
                            day : 1..MaxDay, left : 0..MaxAttempts,
                            cost : 0..MaxCharge]]
  /\ answered \in {"none", "suggestion", "AI_NOT_ENABLED", "AI_BUDGET_EXHAUSTED",
                   "AI_REQUEST_FAILED"}

AiInit ==
  /\ aiEnabled = FALSE /\ aiDay = 1
  /\ charged = [d \in 1..MaxDay |-> 0]
  /\ assist = [c \in Requester |-> NoAssist]
  /\ answered = "none"

UpdateAiSettings(on) ==
  /\ aiEnabled # on
  /\ aiEnabled' = on
  /\ UNCHANGED <<aiDay, charged, assist, answered>>

Midnight ==
  /\ aiDay < MaxDay /\ aiDay' = aiDay + 1
  /\ UNCHANGED <<aiEnabled, charged, assist, answered>>

(* The guard reads the setting in a transaction of its own. *)
RequireAiEnabled(c) ==
  /\ assist[c].at = "idle"
  /\ IF aiEnabled
       THEN /\ assist' = [assist EXCEPT ![c].at = "admitted"]
            /\ UNCHANGED answered
       ELSE /\ answered' = "AI_NOT_ENABLED"
            /\ UNCHANGED assist
  /\ UNCHANGED <<aiEnabled, aiDay, charged>>

(* Wrong on purpose: the estimate is left out, as for a prompt of no text. *)
BudgetAvailableUnestimated(day) == charged[day] <= DayBudget

(* now() is when the transaction began, for what it reads and for what it  *)
(* writes; here it begins as it reads.                                     *)
BudgetAvailable(day) == charged[day] + Estimate <= DayBudget

(* assertNotKilled is given orgEnabled: true, so only the guard's earlier  *)
(* read of the setting counts; a refusal is logged with no tokens.         *)
CheckBudget(c) ==
  /\ assist[c].at = "admitted"
  /\ \/ /\ BudgetAvailable(aiDay)
        /\ assist' = [assist EXCEPT ![c].at = "calling", ![c].day = aiDay]
        /\ UNCHANGED answered
     \/ /\ ~BudgetAvailable(aiDay)
        /\ assist' = [assist EXCEPT ![c] = NoAssist]
        /\ answered' = "AI_BUDGET_EXHAUSTED"
  /\ UNCHANGED <<aiEnabled, aiDay, charged>>

(* An attempt that fails or times out leaves no cost behind, whatever the  *)
(* provider bills.                                                         *)
AttemptFails(c) ==
  /\ assist[c].at = "calling"
  /\ \/ /\ assist[c].left > 1
        /\ assist' = [assist EXCEPT ![c].left = @ - 1]
        /\ UNCHANGED answered
     \/ /\ assist[c].left = 1
        /\ assist' = [assist EXCEPT ![c] = NoAssist]
        /\ answered' = "AI_REQUEST_FAILED"
  /\ UNCHANGED <<aiEnabled, aiDay, charged>>

AttemptAnswers(c) ==
  /\ assist[c].at = "calling"
  /\ \E cost \in 0..MaxCharge :
       assist' = [assist EXCEPT ![c].at = "logged", ![c].cost = cost]
  /\ UNCHANGED <<aiEnabled, aiDay, charged, answered>>

(* The commit, and the reply only after it. *)
CommitInvocation(c) ==
  /\ assist[c].at = "logged"
  /\ charged' = [charged EXCEPT ![assist[c].day] = @ + assist[c].cost]
  /\ assist' = [assist EXCEPT ![c] = NoAssist]
  /\ answered' = "suggestion"
  /\ UNCHANGED <<aiEnabled, aiDay>>

AiNext ==
  \/ \E on \in BOOLEAN : UpdateAiSettings(on)
  \/ Midnight
  \/ \E c \in Requester :
       \/ RequireAiEnabled(c) \/ CheckBudget(c)
       \/ AttemptFails(c) \/ AttemptAnswers(c) \/ CommitInvocation(c)

AiSpec == AiInit /\ [][AiNext]_aivars

-------------------------------------------------------------------------------
(* A day's calls overrun its budget by no more than what the requests in   *)
(* the air may cost: one that was let in by a stale reading is one of them *)
(* and every later one reads the charge (org/ai-gateway.ts:300,            *)
(* budget.ts:20).                                                          *)
SpendBounded ==
  \A d \in 1..MaxDay :
    charged[d] + Estimate <= DayBudget + Cardinality(Requester) * MaxCharge
===============================================================================
