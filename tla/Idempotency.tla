----------------------------- MODULE Idempotency -----------------------------
(***************************************************************************)
(* runIdempotent (modules/idempotency.ts), as the handlers that take an    *)
(* Idempotency-Key use it (candidate import and invitation in              *)
(* org/hiring.ts, data-rights requests in candidate/portal.ts): inside a   *)
(* transaction at READ COMMITTED, answered after its COMMIT.               *)
(***************************************************************************)
EXTENDS Integers, FiniteSets

CONSTANTS
  Call,       \* requests that carry the same scope, actor and key
  Body,       \* the bodies they carry
  Unanswered  \* no response

ASSUME IdempotencyAssumption == Unanswered \notin Call

VARIABLES
  body,       \* call -> its request body
  at,         \* call -> how far its transaction has come
  keyRow,     \* idempotency_keys, committed: the call that wrote it, if any
  keyHeld,    \* uncommitted inserts of that key: the unique index admits one
  effects,    \* the calls whose work is committed
  answer      \* call -> the call whose outcome it was answered with

idemvars == <<body, at, keyRow, keyHeld, effects, answer>>

Stage == {"new", "missed", "worked", "stored", "committed", "answered", "refused", "failed"}

IdemTypeOK ==
  /\ body \in [Call -> Body] /\ at \in [Call -> Stage]
  /\ keyRow \subseteq Call /\ keyHeld \subseteq Call /\ effects \subseteq Call
  /\ answer \in [Call -> Call \cup {Unanswered}]

IdemInit ==
  /\ body \in [Call -> Body]
  /\ at = [c \in Call |-> "new"]
  /\ keyRow = {} /\ keyHeld = {} /\ effects = {}
  /\ answer = [c \in Call |-> Unanswered]

Advance(c, stage) == at' = [at EXCEPT ![c] = stage]

FindsKey(c) ==
  /\ at[c] = "new"
  /\ \E w \in keyRow :
       \/ /\ body[w] = body[c]
          /\ answer' = [answer EXCEPT ![c] = w] /\ Advance(c, "answered")
       \/ body[w] # body[c] /\ Advance(c, "refused") /\ UNCHANGED answer
  /\ UNCHANGED <<body, keyRow, keyHeld, effects>>

MissesKey(c) ==
  /\ at[c] = "new" /\ keyRow = {}
  /\ Advance(c, "missed")
  /\ UNCHANGED <<body, keyRow, keyHeld, effects, answer>>

RunHandler(c) ==
  /\ at[c] = "missed" /\ Advance(c, "worked")
  /\ UNCHANGED <<body, keyRow, keyHeld, effects, answer>>

(* An insert waits while another of the same key is uncommitted. *)
StoreKey(c) ==
  /\ at[c] = "worked" /\ keyHeld = {} /\ keyRow = {}
  /\ keyHeld' = {c} /\ Advance(c, "stored")
  /\ UNCHANGED <<body, keyRow, effects, answer>>

(* Wrong on purpose: the loser answers with the winner's row, as it was    *)
(* meant to, and its own transaction commits.                              *)
LoseRaceQuietly(c) ==
  /\ at[c] = "worked" /\ keyRow # {}
  /\ effects' = effects \cup {c}
  /\ Advance(c, "answered")
  /\ answer' = [answer EXCEPT ![c] = CHOOSE w \in keyRow : TRUE]
  /\ UNCHANGED <<body, keyRow, keyHeld>>

(* 23505 has aborted the transaction: the read of the winner's row is      *)
(* refused with 25P02, which nothing catches.  Rolled back, answered 500.  *)
LoseRace(c) ==
  /\ at[c] = "worked" /\ keyRow # {}
  /\ Advance(c, "failed")
  /\ UNCHANGED <<body, keyRow, keyHeld, effects, answer>>

CommitCall(c) ==
  /\ at[c] = "stored"
  /\ keyRow' = {c} /\ keyHeld' = {} /\ effects' = effects \cup {c}
  /\ Advance(c, "committed")
  /\ UNCHANGED <<body, answer>>

(* The answer follows the COMMIT, and may be lost. *)
AnswerCall(c) ==
  /\ at[c] = "committed"
  /\ Advance(c, "answered")
  /\ answer' = [answer EXCEPT ![c] = c]
  /\ UNCHANGED <<body, keyRow, keyHeld, effects>>

(* A handler throws, the process dies or the connection is lost. *)
FailCall(c) ==
  /\ at[c] \in {"missed", "worked", "stored", "committed"}
  /\ keyHeld' = keyHeld \ {c}
  /\ Advance(c, "failed")
  /\ UNCHANGED <<body, keyRow, effects, answer>>

(* The caller sends the same request again. *)
RetryCall(c) ==
  /\ at[c] = "failed" /\ Advance(c, "new")
  /\ UNCHANGED <<body, keyRow, keyHeld, effects, answer>>

IdemNext ==
  \E c \in Call : \/ FindsKey(c) \/ MissesKey(c) \/ RunHandler(c) \/ StoreKey(c)
                  \/ LoseRace(c) \/ CommitCall(c) \/ AnswerCall(c)
                  \/ FailCall(c) \/ RetryCall(c)

IdemSpec == IdemInit /\ [][IdemNext]_idemvars

-------------------------------------------------------------------------------
(* Properties. *)

(* "No re-execution, no duplicate row": the work of one key is committed   *)
(* once, however requests with it race, fail after their COMMIT and are    *)
(* retried, and every success answered is that one's.                      *)
OneEffectPerKey ==
  /\ Cardinality(effects) <= 1
  /\ \A c \in Call : answer[c] # Unanswered => answer[c] \in effects

(* "Every caller sees the same result": no request with the key is         *)
(* answered with a failure because another one won.                        *)
EveryCallerSeesTheResult ==
  [][\A c \in Call : at[c] = "worked" /\ keyRow # {} /\ at'[c] # at[c] => at'[c] = "answered"]_idemvars

===============================================================================
