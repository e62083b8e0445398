------------------------------ MODULE AuditChain ------------------------------
(***************************************************************************)
(* The audit log (db/audit.ts) under transactions that append to it, each  *)
(* as often as it likes, and commit or roll back (db/pool.ts).  Each       *)
(* append is three statements: the advisory lock, which is held until the  *)
(* transaction ends, the read of the last entry, and the insert.  The hash *)
(* of an entry stands for the entry: it is its id.                         *)
(***************************************************************************)
EXTENDS Integers, Sequences, FiniteSets, SequencesExt

CONSTANTS
  Tx,        \* transactions that may be open at a time
  MaxEntry   \* bound on the ids given out

ASSUME AuditAssumption == MaxEntry \in Nat

Genesis == 0

VARIABLES
  log,       \* the committed entries
  lastId,    \* the identity sequence, which no rollback takes back
  chainLock, \* who holds 'cpf_audit_chain': a set of one at most
  writing    \* transaction -> where it is, what it read and has inserted

auditvars == <<log, lastId, chainLock, writing>>

Entry == [id : 1..MaxEntry, prev : 0..MaxEntry]
Untouched == [at |-> "open", prev |-> Genesis, rows |-> {}]

AuditTypeOK ==
  /\ log \subseteq Entry
  /\ lastId \in 0..MaxEntry
  /\ chainLock \subseteq Tx
  /\ writing \in [Tx -> [at : {"open", "locked", "read"}, prev : 0..MaxEntry,
                         rows : SUBSET Entry]]

AuditInit ==
  /\ log = {} /\ lastId = 0 /\ chainLock = {}
  /\ writing = [t \in Tx |-> Untouched]

(* A second append of a transaction takes the lock it already has. *)
LockChain(t) ==
  /\ writing[t].at = "open"
  /\ chainLock \subseteq {t}
  /\ chainLock' = {t}
  /\ writing' = [writing EXCEPT ![t].at = "locked"]
  /\ UNCHANGED <<log, lastId>>

(* ORDER BY id DESC LIMIT 1, over what is committed and its own. *)
LastHash(rows) ==
  IF rows = {} THEN Genesis
  ELSE (CHOOSE e \in rows : \A f \in rows : f.id <= e.id).id

ReadPrevious(t) ==
  /\ writing[t].at = "locked"
  /\ writing' = [writing EXCEPT ![t].at = "read",
                                ![t].prev = LastHash(log \cup writing[t].rows)]
  /\ UNCHANGED <<log, lastId, chainLock>>

(* Wrong on purpose: a lock of the session's, given back after the insert. *)
InsertEntryUnlocking(t) ==
  /\ writing[t].at = "read" /\ lastId < MaxEntry
  /\ lastId' = lastId + 1
  /\ writing' = [writing EXCEPT ![t] =
       [at |-> "open", prev |-> Genesis,
        rows |-> @.rows \cup {[id |-> lastId', prev |-> @.prev]}]]
  /\ chainLock' = {}
  /\ UNCHANGED log

InsertEntry(t) ==
  /\ writing[t].at = "read" /\ lastId < MaxEntry
  /\ lastId' = lastId + 1
  /\ writing' = [writing EXCEPT ![t] =
       [at |-> "open", prev |-> Genesis,
        rows |-> @.rows \cup {[id |-> lastId', prev |-> @.prev]}]]
  /\ UNCHANGED <<log, chainLock>>

CommitTx(t) ==
  /\ writing[t].at = "open" /\ writing[t].rows # {}
  /\ log' = log \cup writing[t].rows
  /\ chainLock' = chainLock \ {t}
  /\ writing' = [writing EXCEPT ![t] = Untouched]
  /\ UNCHANGED lastId

(* A throw, anywhere, or a lost connection. *)
RollbackTx(t) ==
  /\ writing[t] # Untouched
  /\ chainLock' = chainLock \ {t}
  /\ writing' = [writing EXCEPT ![t] = Untouched]
  /\ UNCHANGED <<log, lastId>>

AuditNext ==
  \E t \in Tx : \/ LockChain(t) \/ ReadPrevious(t) \/ InsertEntry(t)
                \/ CommitTx(t) \/ RollbackTx(t)

AuditSpec == AuditInit /\ [][AuditNext]_auditvars

-------------------------------------------------------------------------------
(* Properties. *)

(* verifyAuditChain finds no break, at any moment: in the order of the ids *)
(* every committed entry names the one before it, though transactions      *)
(* commit in any order, append several times and roll back.                *)
ChainVerifies ==
  \A e \in log : e.prev = LastHash({f \in log : f.id < e.id})

===============================================================================
