----------------------------- MODULE SessionTools -----------------------------
(***************************************************************************)
(* What a candidate uses while his session is active: the tool broker      *)
(* (v2/tool-broker.ts), whose receipts are budgeted and circuit-broken per *)
(* plugin, and the copilot (v2/copilot.ts), whose turns and tokens are     *)
(* budgeted per session.  Requests run side by side; both handlers lock    *)
(* the manifest row, as the submission does, and count under the lock what *)
(* is committed.  The broker answers a replayed key before it locks.       *)
(***************************************************************************)
EXTENDS Integers, Sequences, FiniteSets

CONSTANTS
  ToolCaller,        \* requests in flight at a time
  ToolKey,           \* Idempotency-Keys
  Plugin,            \* the plugins of the manifest
  MaxInvocations,    \* a plugin's maxInvocations
  CIRCUIT_THRESHOLD, \* 3 in the code
  MAX_TURNS,         \* MAX_TURNS_PER_SESSION, 60
  TokenBudget,       \* SESSION_TOKEN_BUDGET
  TurnTokens         \* what one turn may cost

ASSUME ToolsAssumption ==
  /\ MaxInvocations \in Nat /\ CIRCUIT_THRESHOLD \in Nat \ {0}
  /\ MAX_TURNS \in Nat /\ TokenBudget \in Nat
  /\ TurnTokens \subseteq Nat \ {0}

VARIABLES
  running,    \* session_manifests.state_v2: "active", "paused" or "closed"
  manifestLock, \* the caller that holds the manifest row, a set of one at most
  doing,      \* caller -> what it asks and how far it has come
  receipts,   \* tool_receipts, by started_at
  turns,      \* ai_interactions: the turn numbers, one for two rows
  tokens      \* their tokens

toolvars == <<running, manifestLock, doing, receipts, turns, tokens>>

Free == [at |-> "idle"]
ToolAsk == [at : {"asked", "missed"}, key : ToolKey, plugin : Plugin]
ToolTurn == [at : {"locked"}, key : ToolKey, plugin : Plugin, open : BOOLEAN]
CopilotAsk == [at : {"prompted"}]
CopilotTurn == [at : {"prompting"}, no : Nat]
Receipt == [key : ToolKey, plugin : Plugin, status : {"ok", "failed", "denied", "circuit_open"}]

ToolsTypeOK ==
  /\ running \in {"active", "paused", "closed"}
  /\ manifestLock \subseteq ToolCaller
  /\ \A c \in ToolCaller : doing[c] \in {Free} \cup ToolAsk \cup ToolTurn \cup CopilotAsk \cup CopilotTurn
  /\ receipts \in Seq(Receipt)
  /\ turns \in Seq(Nat) /\ tokens \in Nat

ToolsInit ==
  /\ running = "active" /\ manifestLock = {}
  /\ doing = [c \in ToolCaller |-> Free]
  /\ receipts = <<>> /\ turns = <<>> /\ tokens = 0

(* Submission, expiry, withdrawal and pauses lock the row as well. *)
MoveSession ==
  /\ manifestLock = {}
  /\ \/ running = "active" /\ running' \in {"paused", "closed"}
     \/ running = "paused" /\ running' \in {"active", "closed"}
  /\ UNCHANGED <<manifestLock, doing, receipts, turns, tokens>>

Becomes(c, next) == doing' = [doing EXCEPT ![c] = next]

InvokeTool(c) ==
  /\ doing[c] = Free
  /\ \E k \in ToolKey, p \in Plugin : Becomes(c, [at |-> "asked", key |-> k, plugin |-> p])
  /\ UNCHANGED <<running, manifestLock, receipts, turns, tokens>>

HasReceipt(k) == \E i \in DOMAIN receipts : receipts[i].key = k

(* "Idempotent replay": the receipt is read without a lock. *)
LookUpReceipt(c) ==
  /\ doing[c].at = "asked"
  /\ Becomes(c, IF HasReceipt(doing[c].key) THEN Free ELSE [doing[c] EXCEPT !.at = "missed"])
  /\ UNCHANGED <<running, manifestLock, receipts, turns, tokens>>

Of(p) == SelectSeq(receipts, LAMBDA r : r.plugin = p)

(* The plugin's receipts, which are counted. *)
Invocations(p) == {i \in DOMAIN receipts : receipts[i].plugin = p}

(* A receipt of a circuit that was open is no failure: the next call runs. *)
CircuitOpen(p) ==
  LET mine == Of(p) IN
    /\ Len(mine) >= CIRCUIT_THRESHOLD
    /\ \A i \in Len(mine) - CIRCUIT_THRESHOLD + 1 .. Len(mine) : mine[i].status = "failed"

(* Wrong on purpose: the manifest is read without FOR UPDATE. *)
LockForToolShared(c) ==
  /\ doing[c].at = "missed"
  /\ running = "active" /\ Cardinality(Invocations(doing[c].plugin)) < MaxInvocations
  /\ Becomes(c, [at |-> "locked", key |-> doing[c].key, plugin |-> doing[c].plugin,
                 open |-> CircuitOpen(doing[c].plugin)])
  /\ UNCHANGED <<running, manifestLock, receipts, turns, tokens>>

LockForTool(c) ==
  /\ doing[c].at = "missed" /\ manifestLock = {}
  /\ running = "active" /\ Cardinality(Invocations(doing[c].plugin)) < MaxInvocations
  /\ manifestLock' = {c}
  /\ Becomes(c, [at |-> "locked", key |-> doing[c].key, plugin |-> doing[c].plugin,
                 open |-> CircuitOpen(doing[c].plugin)])
  /\ UNCHANGED <<running, receipts, turns, tokens>>

(* 409, 429, or 428: a proposal of the assistant that nobody confirmed. *)
RefuseTool(c) ==
  /\ doing[c].at = "missed" /\ manifestLock = {}
  /\ Becomes(c, Free)
  /\ UNCHANGED <<running, manifestLock, receipts, turns, tokens>>

RecordReceipt(c) ==
  /\ doing[c].at = "locked" /\ ~HasReceipt(doing[c].key)
  /\ \E status \in IF doing[c].open THEN {"circuit_open"} ELSE {"ok", "failed", "denied"} :
       receipts' = Append(receipts, [key |-> doing[c].key, plugin |-> doing[c].plugin, status |-> status])
  /\ manifestLock' = manifestLock \ {c}
  /\ Becomes(c, Free)
  /\ UNCHANGED <<running, turns, tokens>>

(* UNIQUE (session_id, idempotency_key): a retry that raced its original   *)
(* is answered with 500; so is a call whose transaction fails.             *)
FailTool(c) ==
  /\ doing[c].at = "locked"
  /\ manifestLock' = manifestLock \ {c}
  /\ Becomes(c, Free)
  /\ UNCHANGED <<running, receipts, turns, tokens>>

Prompt(c) ==
  /\ doing[c] = Free /\ Becomes(c, [at |-> "prompted"])
  /\ UNCHANGED <<running, manifestLock, receipts, turns, tokens>>

WithinBudget == running = "active" /\ Len(turns) < MAX_TURNS /\ tokens < TokenBudget

(* Wrong on purpose: turns are counted before the manifest is locked. *)
LockForCopilotShared(c) ==
  /\ doing[c].at = "prompted" /\ WithinBudget
  /\ Becomes(c, [at |-> "prompting", no |-> Len(turns) + 1])
  /\ UNCHANGED <<running, manifestLock, receipts, turns, tokens>>

LockForCopilot(c) ==
  /\ doing[c].at = "prompted" /\ manifestLock = {} /\ WithinBudget
  /\ manifestLock' = {c}
  /\ Becomes(c, [at |-> "prompting", no |-> Len(turns) + 1])
  /\ UNCHANGED <<running, receipts, turns, tokens>>

RefuseCopilot(c) ==
  /\ doing[c].at = "prompted" /\ manifestLock = {} /\ ~WithinBudget
  /\ Becomes(c, Free)
  /\ UNCHANGED <<running, manifestLock, receipts, turns, tokens>>

(* The tokens of the turn itself are not asked about beforehand. *)
RecordTurn(c) ==
  /\ doing[c].at = "prompting"
  /\ turns' = Append(turns, doing[c].no)
  /\ \E n \in TurnTokens : tokens' = tokens + n
  /\ manifestLock' = manifestLock \ {c}
  /\ Becomes(c, Free)
  /\ UNCHANGED <<running, receipts>>

FailTurn(c) ==
  /\ doing[c].at = "prompting"
  /\ manifestLock' = manifestLock \ {c}
  /\ Becomes(c, Free)
  /\ UNCHANGED <<running, receipts, turns, tokens>>

ToolsNext ==
  \/ MoveSession
  \/ \E c \in ToolCaller :
       \/ InvokeTool(c) \/ LookUpReceipt(c) \/ LockForTool(c) \/ RefuseTool(c)
       \/ RecordReceipt(c) \/ FailTool(c)
       \/ Prompt(c) \/ LockForCopilot(c) \/ RefuseCopilot(c) \/ RecordTurn(c) \/ FailTurn(c)

ToolsSpec == ToolsInit /\ [][ToolsNext]_toolvars

-------------------------------------------------------------------------------
(* Properties. *)

(* Requests sent side by side do not spend a budget twice: no plugin has   *)
(* more receipts than the manifest allows, and the turns of the copilot    *)
(* are numbered without a gap or a repetition up to their limit.           *)
BudgetsKept ==
  /\ \A p \in Plugin : Cardinality(Invocations(p)) <= MaxInvocations
  /\ Len(turns) <= MAX_TURNS
  /\ \A i \in DOMAIN turns : turns[i] = i

(* What the receipt of the submission counted stays so: a tool call or a   *)
(* turn begun while the session was active leaves nothing behind once it   *)
(* is paused or closed.                                                    *)
NothingAfterActive ==
  [][running # "active" => receipts' = receipts /\ turns' = turns]_toolvars

===============================================================================
