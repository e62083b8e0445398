---------------------------- MODULE MechanismProofs ----------------------------
(***************************************************************************)
(* Theorems about the mechanisms under every handler: the audit chain,     *)
(* idempotency keys, activation tokens, an organisation's administrators,  *)
(* outbound mail, the behaviour log.  They hold for any number of          *)
(* transactions, requests, people, messages, runs of the job and batches.  *)
(***************************************************************************)
EXTENDS AuditChain, Idempotency, Tenancy, Outbox, BehaviourEvents,
        FiniteSetTheorems, WellFoundedInduction, TLAPS

-------------------------------------------------------------------------------
(* A set of bounded positive numbers that is not empty has a greatest one. *)
LEMMA MaxExists ==
  ASSUME NEW N \in Nat, NEW S \in SUBSET (1..N), S # {}
  PROVE  \E m \in S : \A n \in S : n <= m
<1>. DEFINE T == {k \in Nat : \E n \in S : k = N - n}
           R == OpToRel(<, Nat)
<1>1. T \subseteq Nat /\ T # {}
  <2>1. PICK n \in S : TRUE
    OBVIOUS
  <2>2. N - n \in T
    BY <2>1
  <2>. QED BY <2>2
<1>2. IsWellFoundedOn(R, Nat)
  BY NatLessThanWellFounded
<1>3. PICK k \in T : \A j \in T : ~(<<j, k>> \in R)
  <2>. HIDE DEF T, R
  <2>. QED BY <1>1, <1>2, WFMin
<1>4. \A j \in T : ~(j < k)
  BY <1>1, <1>3 DEF OpToRel
<1>5. PICK m \in S : k = N - m
  BY <1>3
<1>6. ASSUME NEW n \in S PROVE n <= m
  <2>1. N - n \in T
    OBVIOUS
  <2>2. ~(N - n < N - m)
    BY <1>4, <1>5, <2>1
  <2>. QED BY <2>2
<1>. QED BY <1>6

(* The audit chain. *)

(* The hash read is Genesis's or the last entry's. *)
LEMMA LastHashBounded ==
  ASSUME NEW rows \in SUBSET Entry PROVE LastHash(rows) \in 0..MaxEntry
<1>1. CASE rows = {}
  BY <1>1, AuditAssumption DEF LastHash, Genesis
<1>2. CASE rows # {}
  <2>. DEFINE ids == {i \in 1..MaxEntry : \E e \in rows : e.id = i}
  <2>1. ids # {} /\ ids \in SUBSET (1..MaxEntry)
    BY <1>2 DEF Entry
  <2>2. PICK m \in ids : \A i \in ids : i <= m
    <3>. HIDE DEF ids
    <3>. QED BY <2>1, MaxExists, AuditAssumption
  <2>3. PICK e \in rows : e.id = m
    BY <2>2
  <2>4. \A f \in rows : f.id <= e.id
    BY <2>2, <2>3 DEF Entry
  <2>5. (CHOOSE d \in rows : \A f \in rows : f.id <= d.id) \in rows
    BY <2>3, <2>4
  <2>. QED BY <1>2, <2>5 DEF LastHash, Entry
<1>. QED BY <1>1, <1>2

(* A transaction's uncommitted entries, and the one it is about to insert, *)
(* follow the log it read; the lock keeps every other transaction away     *)
(* from the log's end for as long as that matters.                         *)
Appends(t) == writing[t].at # "open" \/ writing[t].rows # {}

Chained(t) ==
  /\ Appends(t) => chainLock = {t}
  /\ writing[t].at = "read" => writing[t].prev = LastHash(log \cup writing[t].rows)
  /\ \A e \in writing[t].rows :
       /\ e.prev = LastHash({f \in log \cup writing[t].rows : f.id < e.id})
       /\ \A f \in log : f.id < e.id

IdsGivenOut ==
  /\ lastId \in Nat
  /\ \A e \in log : e.id \in Nat /\ e.id <= lastId
  /\ \A t \in Tx : \A e \in writing[t].rows : e.id \in Nat /\ e.id <= lastId

ChainIInv == AuditTypeOK /\ IdsGivenOut /\ ChainVerifies /\ \A t \in Tx : Chained(t)

LEMMA UntouchedTyped ==
  Untouched \in [at : {"open", "locked", "read"}, prev : 0..MaxEntry, rows : SUBSET Entry]
  BY AuditAssumption DEF Untouched, Genesis

LEMMA ChainInit == ASSUME AuditInit PROVE ChainIInv
  BY AuditAssumption
  DEF AuditInit, ChainIInv, AuditTypeOK, IdsGivenOut, ChainVerifies, Chained, Appends,
      Untouched, Genesis

(* What a statement of a transaction does to its own row of "writing". *)
LEMMA LockKeepsChain == ASSUME ChainIInv, NEW t \in Tx, LockChain(t) PROVE ChainIInv'
<1>1. /\ writing' = [writing EXCEPT ![t].at = "locked"] /\ chainLock' = {t}
      /\ chainLock \subseteq {t} /\ log' = log /\ lastId' = lastId
  BY DEF LockChain
<1>2. /\ writing'[t].at = "locked" /\ writing'[t].rows = writing[t].rows
      /\ \A u \in Tx \ {t} : writing'[u] = writing[u]
      /\ AuditTypeOK'
  BY <1>1 DEF ChainIInv, AuditTypeOK
<1>3. \A u \in Tx \ {t} : ~Appends(u)
  BY <1>1 DEF ChainIInv, Chained
<1>4. IdsGivenOut' /\ ChainVerifies'
  BY <1>1, <1>2 DEF ChainIInv, IdsGivenOut, ChainVerifies
<1>5. Chained(t)'
  BY <1>1, <1>2 DEF ChainIInv, Chained
<1>6. ASSUME NEW u \in Tx \ {t} PROVE Chained(u)'
  BY <1>1, <1>2, <1>3 DEF ChainIInv, Chained, Appends
<1>. QED BY <1>2, <1>4, <1>5, <1>6 DEF ChainIInv

LEMMA ReadKeepsChain == ASSUME ChainIInv, NEW t \in Tx, ReadPrevious(t) PROVE ChainIInv'
<1>1. /\ writing[t].at = "locked" /\ chainLock' = chainLock /\ log' = log /\ lastId' = lastId
      /\ writing' = [writing EXCEPT ![t].at = "read",
                                    ![t].prev = LastHash(log \cup writing[t].rows)]
  BY DEF ReadPrevious
<1>2. /\ writing'[t].at = "read" /\ writing'[t].rows = writing[t].rows
      /\ writing'[t].prev = LastHash(log \cup writing[t].rows)
      /\ \A u \in Tx \ {t} : writing'[u] = writing[u]
      /\ AuditTypeOK'
  <2>. DEFINE p == LastHash(log \cup writing[t].rows)
  <2>1. log \cup writing[t].rows \in SUBSET Entry
    BY DEF ChainIInv, AuditTypeOK
  <2>2. p \in 0..MaxEntry
    BY <2>1, LastHashBounded
  <2>. HIDE DEF p
  <2>3. writing' = [writing EXCEPT ![t].at = "read", ![t].prev = p]
    BY <1>1 DEF p
  <2>. QED BY <1>1, <2>2, <2>3 DEF ChainIInv, AuditTypeOK, p
<1>3. IdsGivenOut' /\ ChainVerifies'
  BY <1>1, <1>2 DEF ChainIInv, IdsGivenOut, ChainVerifies
<1>4. Chained(t)'
  BY <1>1, <1>2 DEF ChainIInv, Chained, Appends
<1>5. ASSUME NEW u \in Tx \ {t} PROVE Chained(u)'
  BY <1>1, <1>2 DEF ChainIInv, Chained, Appends
<1>. QED BY <1>2, <1>3, <1>4, <1>5 DEF ChainIInv

(* The new entry's id is above every other, so what is below an older      *)
(* entry does not change and what is below the new one is all of it.       *)
LEMMA InsertKeepsChain == ASSUME ChainIInv, NEW t \in Tx, InsertEntry(t) PROVE ChainIInv'
<1>. DEFINE new == [id |-> lastId + 1, prev |-> writing[t].prev]
            rows == writing[t].rows
<1>1. /\ writing[t].at = "read" /\ chainLock' = chainLock /\ log' = log /\ lastId' = lastId + 1
      /\ writing' = [writing EXCEPT ![t] =
           [at |-> "open", prev |-> Genesis, rows |-> rows \cup {new}]]
  BY DEF InsertEntry, ChainIInv, AuditTypeOK
<1>2. /\ writing'[t].at = "open" /\ writing'[t].rows = rows \cup {new}
      /\ \A u \in Tx \ {t} : writing'[u] = writing[u]
      /\ AuditTypeOK'
  <2>1. new \in Entry /\ lastId' \in 0..MaxEntry
    BY <1>1, AuditAssumption DEF ChainIInv, AuditTypeOK, Entry, InsertEntry
  <2>2. rows \cup {new} \in SUBSET Entry
    BY <2>1 DEF ChainIInv, AuditTypeOK
  <2>3. [at |-> "open", prev |-> Genesis, rows |-> rows \cup {new}]
        \in [at : {"open", "locked", "read"}, prev : 0..MaxEntry, rows : SUBSET Entry]
    BY <2>2, AuditAssumption DEF Genesis
  <2>. HIDE DEF new, rows
  <2>. QED BY <1>1, <2>1, <2>3 DEF ChainIInv, AuditTypeOK
<1>3. /\ lastId \in Nat
      /\ \A e \in log \cup rows : e.id \in Nat /\ e.id <= lastId /\ e.id < new.id /\ ~(new.id < e.id)
      /\ ~(new.id < new.id) /\ new.id \in Nat
  BY DEF ChainIInv, IdsGivenOut
<1>4. IdsGivenOut' /\ ChainVerifies'
  <2>1. ASSUME NEW u \in Tx, NEW e \in writing'[u].rows PROVE e.id \in Nat /\ e.id <= lastId'
    <3>1. CASE u = t
      BY <1>1, <1>2, <1>3, <2>1, <3>1
    <3>2. CASE u # t
      BY <1>1, <1>2, <1>3, <2>1, <3>2 DEF ChainIInv, IdsGivenOut
    <3>. QED BY <3>1, <3>2
  <2>. QED BY <1>1, <1>3, <2>1 DEF ChainIInv, IdsGivenOut, ChainVerifies
<1>5. Chained(t)'
  <2>1. {f \in log \cup (rows \cup {new}) : f.id < new.id} = log \cup rows
    BY <1>3
  <2>2. \A e \in rows : {f \in log \cup (rows \cup {new}) : f.id < e.id}
                      = {f \in log \cup rows : f.id < e.id}
    BY <1>3
  <2>3. new.prev = LastHash(log \cup rows) /\ chainLock = {t}
    BY <1>1 DEF ChainIInv, Chained, Appends
  <2>4. ASSUME NEW e \in rows \cup {new}
        PROVE  /\ e.prev = LastHash({f \in log \cup (rows \cup {new}) : f.id < e.id})
               /\ \A f \in log : f.id < e.id
    <3>1. CASE e = new
      BY <1>3, <2>1, <2>3, <3>1
    <3>2. CASE e \in rows
      BY <2>2, <3>2 DEF ChainIInv, Chained
    <3>. QED BY <3>1, <3>2
  <2>. HIDE DEF new, rows
  <2>. QED BY <1>1, <1>2, <2>3, <2>4 DEF Chained
<1>6. ASSUME NEW u \in Tx \ {t} PROVE Chained(u)'
  BY <1>1, <1>2 DEF ChainIInv, Chained, Appends
<1>. QED BY <1>2, <1>4, <1>5, <1>6 DEF ChainIInv

(* The committed entries are those above the log: below an entry of the    *)
(* log there is what there was.                                            *)
LEMMA CommitKeepsChain == ASSUME ChainIInv, NEW t \in Tx, CommitTx(t) PROVE ChainIInv'
<1>. DEFINE rows == writing[t].rows
<1>1. /\ writing' = [writing EXCEPT ![t] = Untouched] /\ chainLock' = chainLock \ {t}
      /\ rows # {} /\ log' = log \cup rows /\ lastId' = lastId
  BY DEF CommitTx
<1>2. /\ writing'[t] = Untouched
      /\ \A u \in Tx \ {t} : writing'[u] = writing[u]
      /\ AuditTypeOK'
  <2>1. writing[t].rows \in SUBSET Entry
    BY DEF ChainIInv, AuditTypeOK
  <2>. QED BY <1>1, <2>1, UntouchedTyped DEF ChainIInv, AuditTypeOK
<1>3. \A u \in Tx \ {t} : ~Appends(u)
  BY <1>1 DEF ChainIInv, Chained, Appends
<1>4. IdsGivenOut'
  <2>1. ASSUME NEW u \in Tx, NEW e \in writing'[u].rows PROVE e.id \in Nat /\ e.id <= lastId'
    BY <1>1, <1>2, <2>1 DEF ChainIInv, IdsGivenOut, Untouched
  <2>. QED BY <1>1, <2>1 DEF ChainIInv, IdsGivenOut
<1>5. ChainVerifies'
  <2>1. ASSUME NEW e \in log PROVE e.prev = LastHash({f \in log \cup rows : f.id < e.id})
    <3>1. {f \in log \cup rows : f.id < e.id} = {f \in log : f.id < e.id}
      <4>1. ASSUME NEW f \in rows PROVE ~(f.id < e.id)
        <5>1. e.id < f.id
          BY DEF ChainIInv, Chained
        <5>2. e.id \in Nat /\ f.id \in Nat
          BY DEF ChainIInv, IdsGivenOut
        <5>. QED BY <5>1, <5>2
      <4>. QED BY <4>1
    <3>. QED BY <3>1 DEF ChainIInv, ChainVerifies
  <2>2. ASSUME NEW e \in rows PROVE e.prev = LastHash({f \in log \cup rows : f.id < e.id})
    BY DEF ChainIInv, Chained
  <2>. QED BY <1>1, <2>1, <2>2 DEF ChainVerifies
<1>6. ASSUME NEW u \in Tx PROVE Chained(u)'
  <2>1. ~Appends(u)' /\ writing'[u].at = "open" /\ writing'[u].rows = {}
    BY <1>2, <1>3 DEF Appends, Untouched
  <2>. QED BY <2>1 DEF Chained
<1>. QED BY <1>2, <1>4, <1>5, <1>6 DEF ChainIInv

LEMMA RollbackKeepsChain == ASSUME ChainIInv, NEW t \in Tx, RollbackTx(t) PROVE ChainIInv'
<1>1. /\ writing' = [writing EXCEPT ![t] = Untouched] /\ chainLock' = chainLock \ {t}
      /\ log' = log /\ lastId' = lastId
  BY DEF RollbackTx
<1>2. /\ writing'[t] = Untouched
      /\ \A u \in Tx \ {t} : writing'[u] = writing[u]
      /\ AuditTypeOK'
  <2>1. writing[t].rows \in SUBSET Entry
    BY DEF ChainIInv, AuditTypeOK
  <2>. QED BY <1>1, <2>1, UntouchedTyped DEF ChainIInv, AuditTypeOK
<1>3. IdsGivenOut' /\ ChainVerifies'
  BY <1>1, <1>2 DEF ChainIInv, IdsGivenOut, ChainVerifies, Untouched
<1>4. Chained(t)'
  BY <1>2 DEF Chained, Appends, Untouched
<1>5. ASSUME NEW u \in Tx \ {t} PROVE Chained(u)'
  <2>1. writing'[u] = writing[u] /\ (chainLock = {u} => chainLock' = {u})
    BY <1>1, <1>2
  <2>. QED BY <1>1, <2>1 DEF ChainIInv, Chained, Appends
<1>. QED BY <1>2, <1>3, <1>4, <1>5 DEF ChainIInv

LEMMA ChainStep == ASSUME ChainIInv, [AuditNext]_auditvars PROVE ChainIInv'
<1>1. CASE AuditNext
  BY <1>1, LockKeepsChain, ReadKeepsChain, InsertKeepsChain, CommitKeepsChain, RollbackKeepsChain
  DEF AuditNext
<1>2. CASE UNCHANGED auditvars
  BY <1>2 DEF auditvars, ChainIInv, AuditTypeOK, IdsGivenOut, ChainVerifies, Chained, Appends
<1>. QED BY <1>1, <1>2

(* Every committed entry of the audit log names the one before it, however *)
(* many transactions append, commit and roll back, in any order            *)
(* (db/audit.ts: the advisory lock is held to the transaction's end).      *)
THEOREM AuditChainVerifies == AuditSpec => []ChainVerifies
<1>1. AuditSpec => []ChainIInv
  BY ChainInit, ChainStep, PTL DEF AuditSpec
<1>2. ChainIInv => ChainVerifies
  BY DEF ChainIInv
<1>. QED BY <1>1, <1>2, PTL

-------------------------------------------------------------------------------
(* Idempotency keys. *)

(* The work committed under the key is that of the call whose row is       *)
(* committed, and only one call at a time is between its insert and its    *)
(* end.                                                                    *)
KeyIInv ==
  /\ IdemTypeOK
  /\ effects = keyRow
  /\ \A c, d \in keyRow : c = d
  /\ \A c \in Call : at[c] = "stored" <=> c \in keyHeld
  /\ \A c, d \in keyHeld : c = d
  /\ keyHeld # {} => keyRow = {}
  /\ \A c \in Call : at[c] = "committed" => c \in keyRow
  /\ \A c \in Call : answer[c] # Unanswered => answer[c] \in keyRow

LEMMA KeyInit == ASSUME IdemInit PROVE KeyIInv
  BY DEF IdemInit, KeyIInv, IdemTypeOK, Stage

LEMMA KeyStep == ASSUME KeyIInv, [IdemNext]_idemvars PROVE KeyIInv'
<1>. USE DEF KeyIInv, IdemTypeOK, Stage, Advance
<1>1. ASSUME NEW c \in Call, FindsKey(c) PROVE KeyIInv'
  BY <1>1, IdempotencyAssumption DEF FindsKey
<1>2. ASSUME NEW c \in Call, MissesKey(c) \/ RunHandler(c) PROVE KeyIInv'
  BY <1>2 DEF MissesKey, RunHandler
<1>3. ASSUME NEW c \in Call, StoreKey(c) PROVE KeyIInv'
  BY <1>3 DEF StoreKey
<1>4. ASSUME NEW c \in Call, LoseRace(c) \/ RetryCall(c) PROVE KeyIInv'
  BY <1>4 DEF LoseRace, RetryCall
<1>5. ASSUME NEW c \in Call, CommitCall(c) PROVE KeyIInv'
  BY <1>5 DEF CommitCall
<1>6. ASSUME NEW c \in Call, AnswerCall(c) PROVE KeyIInv'
  BY <1>6 DEF AnswerCall
<1>7. ASSUME NEW c \in Call, FailCall(c) PROVE KeyIInv'
  BY <1>7 DEF FailCall
<1>8. CASE UNCHANGED idemvars
  BY <1>8 DEF idemvars
<1>. QED BY <1>1, <1>2, <1>3, <1>4, <1>5, <1>6, <1>7, <1>8 DEF IdemNext

(* Requests with one key may race, fail on either side of their COMMIT and *)
(* be sent again: what they ask for is done once at most, and a success    *)
(* answers with what was done (modules/idempotency.ts, runIdempotent).     *)
THEOREM KeyActsOnce == IdemSpec => []OneEffectPerKey
<1>1. IdemSpec => []KeyIInv
  BY KeyInit, KeyStep, PTL DEF IdemSpec
<1>2. ASSUME KeyIInv PROVE OneEffectPerKey
  <2>1. Cardinality(effects) <= 1
    <3>1. CASE effects = {}
      BY <3>1, FS_EmptySet
    <3>2. CASE effects # {}
      <4>1. PICK c \in effects : effects = {c}
        BY <1>2, <3>2 DEF KeyIInv
      <4>. QED BY <4>1, FS_Singleton, SMTT(30)
    <3>. QED BY <3>1, <3>2
  <2>. QED BY <1>2, <2>1 DEF KeyIInv, OneEffectPerKey
<1>. QED BY <1>1, <1>2, PTL

-------------------------------------------------------------------------------
(* Activation tokens. *)

(* A token in a transaction's hands is live and in no other's; it is used  *)
(* once exactly when it is used up.                                        *)
ActivationIInv ==
  /\ activation \in [Activation -> [state : {"none", "live", "used", "expired"},
                                    of : SUBSET User]]
  /\ activating \in [Caller -> SUBSET Activation]
  /\ uses = [a \in Activation |-> IF activation[a].state = "used" THEN 1 ELSE 0]
  /\ \A c \in Caller : \A a \in activating[c] :
       /\ activation[a].state = "live"
       /\ \A d \in Caller : a \in activating[d] => d = c

LEMMA ActivationInit == ASSUME TenancyInit PROVE ActivationIInv
  BY DEF TenancyInit, ActivationIInv

LEMMA InviteKeepsActivations ==
  ASSUME ActivationIInv, NEW u \in User, NEW r, InviteUser(u, r), UNCHANGED <<activating, uses>>
  PROVE  ActivationIInv'
  BY DEF ActivationIInv, InviteUser

LEMMA ActivationStep == ASSUME ActivationIInv, [TenancyNext]_tenancyvars, TenancyTypeOK PROVE ActivationIInv'
<1>1. ASSUME NEW u \in User, CreateOrganisation(u) PROVE ActivationIInv'
  BY <1>1, InviteKeepsActivations DEF CreateOrganisation
<1>2. ASSUME NEW u \in User, PostUser(u) PROVE ActivationIInv'
  <2>1. PICK p \in task[u].on : InviteUser(p[1], p[2])
    BY <1>2 DEF PostUser
  <2>2. p[1] \in User
    BY DEF TenancyTypeOK, Removal
  <2>. QED BY <1>2, <2>1, <2>2, InviteKeepsActivations DEF PostUser
<1>3. ASSUME NEW a \in Activation, ActivationExpires(a) PROVE ActivationIInv'
  BY <1>3 DEF ActivationExpires, ActivationIInv
<1>4. ASSUME NEW a \in Activation, NEW c \in Caller, LockActivation(c, a) PROVE ActivationIInv'
  BY <1>4 DEF LockActivation, ActivationIInv
<1>5. ASSUME NEW c \in Caller, CommitActivation(c) PROVE ActivationIInv'
  <2>1. PICK a \in activating[c] :
          /\ activation' = [activation EXCEPT ![a].state = "used"]
          /\ uses' = [uses EXCEPT ![a] = @ + 1]
          /\ activating' = [activating EXCEPT ![c] = {}]
    BY <1>5 DEF CommitActivation
  <2>2. a \in Activation /\ activation[a].state = "live"
    BY DEF ActivationIInv
  <2>. QED BY <2>1, <2>2, SMTT(30) DEF ActivationIInv
<1>6. ASSUME NEW c \in Caller, AbortActivation(c) PROVE ActivationIInv'
  BY <1>6 DEF AbortActivation, ActivationIInv
<1>7. ASSUME UNCHANGED <<activation, activating, uses>> PROVE ActivationIInv'
  BY <1>7 DEF ActivationIInv
<1>. QED
  BY <1>1, <1>2, <1>3, <1>4, <1>5, <1>6, <1>7
  DEF TenancyNext, tenancyvars, people, platform, SignIn, RequireOrgRole, CountOtherAdmins, DeleteRole,
      ApproveSupport, AssignPlan, SetSuspended, SupportExpires, RequestSupport, PutFlag

(* Every row has its columns' type. *)
Task == [op : {"none", "invite", "approve", "remove", "delete"}, on : SUBSET Removal]

LEMMA TaskTyped ==
  ASSUME task \in [User -> Task], NEW u \in User
  PROVE  /\ Answer(u) => task' \in [User -> Task]
         /\ task' = [task EXCEPT ![u].op = "delete"] => task' \in [User -> Task]
<1>1. NoTask \in Task
  BY DEF NoTask, Task
<1>2. Answer(u) => task' \in [User -> Task]
  BY <1>1 DEF Answer
<1>3. task' = [task EXCEPT ![u].op = "delete"] => task' \in [User -> Task]
  BY DEF Task
<1>. QED BY <1>2, <1>3

LEMMA TenancyTyped == ASSUME TenancyTypeOK, [TenancyNext]_tenancyvars PROVE TenancyTypeOK'
<1>. USE DEF TenancyTypeOK
<1>1. ASSUME NEW u \in User, NEW r \in Role, InviteUser(u, r)
      PROVE  /\ account' \in [User -> {"none", "invited", "active"}]
             /\ member' \subseteq Removal
             /\ activation' \in [Activation -> [state : {"none", "live", "used", "expired"},
                                                of : SUBSET User]]
  BY <1>1 DEF InviteUser, Removal
<1>2. ASSUME NEW u \in User, CreateOrganisation(u) PROVE TenancyTypeOK'
  <2>1. InviteUser(u, "org_admin")
    BY <1>2 DEF CreateOrganisation
  <2>2. InviteUser(u, "org_admin") =>
          /\ account' \in [User -> {"none", "invited", "active"}]
          /\ member' \subseteq Removal
          /\ activation' \in [Activation -> [state : {"none", "live", "used", "expired"},
                                             of : SUBSET User]]
    BY <1>1, TenancyAssumption
  <2>. QED BY <1>2, <2>1, <2>2 DEF CreateOrganisation, platform
<1>3. ASSUME NEW u \in User, PostUser(u) PROVE TenancyTypeOK'
  <2>1. PICK p \in task[u].on : InviteUser(p[1], p[2])
    BY <1>3 DEF PostUser
  <2>2. p[1] \in User /\ p[2] \in Role
    BY DEF Removal
  <2>3. /\ account' \in [User -> {"none", "invited", "active"}]
        /\ member' \subseteq Removal
        /\ activation' \in [Activation -> [state : {"none", "live", "used", "expired"},
                                           of : SUBSET User]]
    BY <1>1, <2>1, <2>2
  <2>4. task' \in [User -> Task]
    BY <1>3, TaskTyped DEF PostUser, Task
  <2>. QED BY <1>3, <2>3, <2>4 DEF PostUser, platform, Task
<1>4. ASSUME NEW u \in User, SignIn(u) \/ RequireOrgRole(u) PROVE TenancyTypeOK'
  BY <1>4, SMTT(30) DEF SignIn, RequireOrgRole, people, platform, Removal
<1>5. ASSUME NEW u \in User, CountOtherAdmins(u) PROVE TenancyTypeOK'
  <2>1. task' \in [User -> Task]
    BY <1>5, TaskTyped DEF CountOtherAdmins, Task
  <2>. QED BY <1>5, <2>1 DEF CountOtherAdmins, Task, platform
<1>6. ASSUME NEW u \in User, DeleteRole(u) \/ ApproveSupport(u) PROVE TenancyTypeOK'
  <2>1. task' \in [User -> Task]
    BY <1>6, TaskTyped DEF DeleteRole, ApproveSupport, Task
  <2>2. CASE DeleteRole(u)
    BY <2>1, <2>2 DEF DeleteRole, Task, platform
  <2>3. CASE ApproveSupport(u)
    BY <2>1, <2>3 DEF ApproveSupport, Task
  <2>. QED BY <1>6, <2>2, <2>3
<1>7. ASSUME NEW c \in Caller, CommitActivation(c) \/ AbortActivation(c) PROVE TenancyTypeOK'
  <2>1. CASE CommitActivation(c)
    <3>1. PICK a \in activating[c] :
            /\ activation' = [activation EXCEPT ![a].state = "used"]
            /\ account' = [u \in User |-> IF u \in activation[a].of THEN "active" ELSE account[u]]
            /\ uses' = [uses EXCEPT ![a] = @ + 1]
      BY <2>1 DEF CommitActivation
    <3>2. account' \in [User -> {"none", "invited", "active"}] /\ uses' \in [Activation -> Nat]
      BY <3>1
    <3>3. activation' \in [Activation -> [state : {"none", "live", "used", "expired"},
                                          of : SUBSET User]]
      BY <3>1
    <3>. QED BY <2>1, <3>2, <3>3 DEF CommitActivation, platform
  <2>2. CASE AbortActivation(c)
    BY <2>2 DEF AbortActivation, platform
  <2>. QED BY <1>7, <2>1, <2>2
<1>8. ASSUME NEW a \in Activation, ActivationExpires(a) \/ \E c \in Caller : LockActivation(c, a)
      PROVE  TenancyTypeOK'
  <2>1. CASE ActivationExpires(a)
    <3>1. activation' \in [Activation -> [state : {"none", "live", "used", "expired"},
                                          of : SUBSET User]]
      BY <2>1 DEF ActivationExpires
    <3>. QED BY <2>1, <3>1 DEF ActivationExpires, platform
  <2>2. CASE \E c \in Caller : LockActivation(c, a)
    BY <2>2 DEF LockActivation, platform
  <2>. QED BY <1>8, <2>1, <2>2
<1>9. ASSUME AssignPlan \/ \E to \in {"active", "suspended"} : SetSuspended(to) PROVE TenancyTypeOK'
  BY <1>9 DEF AssignPlan, SetSuspended, people
<1>10. ASSUME NEW g \in Grant, SupportExpires(g) \/ \E b \in BOOLEAN : RequestSupport(g, b)
       PROVE  TenancyTypeOK'
  BY <1>10 DEF SupportExpires, RequestSupport, people
<1>11. ASSUME NEW on \in BOOLEAN, PutFlag(on) PROVE TenancyTypeOK'
  BY <1>11 DEF PutFlag, people
<1>12. CASE UNCHANGED tenancyvars
  BY <1>12 DEF tenancyvars
<1>. QED
  BY <1>2, <1>3, <1>4, <1>5, <1>6, <1>7, <1>8, <1>9, <1>10, <1>11, <1>12 DEF TenancyNext

LEMMA TenancyAlwaysTyped == TenancySpec => []TenancyTypeOK
<1>1. ASSUME TenancyInit PROVE TenancyTypeOK
  <2>1. NoTask \in Task
    BY DEF NoTask, Task
  <2>2. task \in [User -> Task]
    BY <1>1, <2>1 DEF TenancyInit
  <2>. QED BY <1>1, <2>2 DEF TenancyInit, TenancyTypeOK, Task
<1>. QED BY <1>1, TenancyTyped, PTL DEF TenancySpec

(* An activation token sets one password, though several requests present  *)
(* it at the same moment (platform/routes.ts: the row is locked while it   *)
(* is still unused).                                                       *)
THEOREM ActivatesOnce == TenancySpec => []TokenUsedOnce
<1>1. TenancySpec => []ActivationIInv
  BY TenancyAlwaysTyped, ActivationInit, ActivationStep, PTL DEF TenancySpec
<1>2. ActivationIInv => TokenUsedOnce
  BY DEF ActivationIInv, TokenUsedOnce
<1>. QED BY <1>1, <1>2, PTL

-------------------------------------------------------------------------------
(* The last administrator. *)

(* No two requests are between their count of the administrators and their *)
(* DELETE, as they would not be if the handler locked the organisation's   *)
(* row (platform/routes.ts:204).                                           *)
OneRemoval == \A u, v \in User : task[u].op = "delete" /\ task[v].op = "delete" => u = v

(* Nobody is anything in an organisation that does not exist. *)
BeforeCreation == org = "none" => member = {} /\ \A u \in User : task[u] = NoTask

(* A DELETE that is to come names one role; if it is an administrator's,   *)
(* there is another one.                                                   *)
RemovalSafe ==
  \A u \in User : task[u].op \in {"remove", "delete"} =>
    \E p \in Removal :
      /\ task[u].on = {p}
      /\ task[u].op = "delete" /\ p[2] = "org_admin" => OtherAdmins(p[1]) # {}

AdminIInv == BeforeCreation /\ AnAdminRemains /\ RemovalSafe

(* Who gains a role takes none from anybody. *)
LEMMA MembersAdded ==
  ASSUME AdminIInv, member \subseteq member', UNCHANGED <<org, task>>, org # "none"
  PROVE  AdminIInv'
<1>1. \A v : OtherAdmins(v) \subseteq OtherAdmins(v)'
  BY DEF OtherAdmins
<1>2. RemovalSafe'
  <2>. SUFFICES ASSUME NEW u \in User, task[u].op \in {"remove", "delete"}
                PROVE  \E p \in Removal :
                         /\ task[u].on = {p}
                         /\ task[u].op = "delete" /\ p[2] = "org_admin" => OtherAdmins(p[1])' # {}
    BY DEF RemovalSafe
  <2>1. PICK p \in Removal : /\ task[u].on = {p}
                             /\ task[u].op = "delete" /\ p[2] = "org_admin" => OtherAdmins(p[1]) # {}
    BY DEF AdminIInv, RemovalSafe
  <2>. QED BY <1>1, <2>1
<1>. QED BY <1>2 DEF AdminIInv, BeforeCreation, AnAdminRemains

(* The task of one administrator moves on, and no membership. *)
LEMMA TaskMoves ==
  ASSUME AdminIInv, UNCHANGED <<org, member>>, org # "none", NEW u \in User, NEW t,
         task' = [task EXCEPT ![u] = t], TenancyTypeOK,
         t.op \in {"remove", "delete"} =>
           \E p \in Removal :
             /\ t.on = {p}
             /\ t.op = "delete" /\ p[2] = "org_admin" => OtherAdmins(p[1]) # {}
  PROVE  AdminIInv'
<1>1. \A v : OtherAdmins(v)' = OtherAdmins(v)
  BY DEF OtherAdmins
<1>2. task'[u] = t /\ \A v \in User \ {u} : task'[v] = task[v]
  BY DEF TenancyTypeOK
<1>3. RemovalSafe'
  <2>. SUFFICES ASSUME NEW v \in User, task'[v].op \in {"remove", "delete"}
                PROVE  \E p \in Removal :
                         /\ task'[v].on = {p}
                         /\ task'[v].op = "delete" /\ p[2] = "org_admin" => OtherAdmins(p[1])' # {}
    BY DEF RemovalSafe
  <2>1. CASE v = u
    BY <1>1, <1>2, <2>1
  <2>2. CASE v # u
    <3>1. PICK p \in Removal : /\ task[v].on = {p}
                               /\ task[v].op = "delete" /\ p[2] = "org_admin" => OtherAdmins(p[1]) # {}
      BY <1>2, <2>2 DEF AdminIInv, RemovalSafe
    <3>. QED BY <1>1, <1>2, <2>2, <3>1
  <2>. QED BY <2>1, <2>2
<1>. QED BY <1>3 DEF AdminIInv, BeforeCreation, AnAdminRemains

(* The only removal under way has counted the administrator it leaves. *)
LEMMA DeletionLeavesOne ==
  ASSUME AdminIInv, TenancyTypeOK, OneRemoval, NEW u \in User, DeleteRole(u)
  PROVE  AdminIInv'
<1>1. PICK p \in Removal : /\ task[u].on = {p}
                           /\ p[2] = "org_admin" => OtherAdmins(p[1]) # {}
  BY DEF DeleteRole, AdminIInv, RemovalSafe
<1>2. org # "none" /\ org' = org /\ member' = member \ {p}
  BY <1>1 DEF DeleteRole, AdminIInv, BeforeCreation, NoTask
<1>3. task'[u] = NoTask /\ \A v \in User \ {u} : task'[v] = task[v] /\ task[v].op # "delete"
  BY DEF DeleteRole, Answer, TenancyTypeOK, OneRemoval
<1>4. AnAdminRemains'
  <2>1. CASE p[2] = "org_admin"
    <3>1. PICK w \in User \ {p[1]} : <<w, "org_admin">> \in member
      BY <1>1, <2>1 DEF OtherAdmins
    <3>2. <<w, "org_admin">> # p
      BY <3>1
    <3>. QED BY <1>2, <3>1, <3>2 DEF AnAdminRemains
  <2>2. CASE p[2] # "org_admin"
    <3>1. PICK w \in User : <<w, "org_admin">> \in member
      BY <1>2 DEF AdminIInv, AnAdminRemains
    <3>2. <<w, "org_admin">> # p
      BY <2>2
    <3>. QED BY <1>2, <3>1, <3>2 DEF AnAdminRemains
  <2>. QED BY <2>1, <2>2
<1>5. RemovalSafe'
  <2>. SUFFICES ASSUME NEW v \in User, task'[v].op \in {"remove", "delete"}
                PROVE  \E q \in Removal : task'[v].on = {q} /\ task'[v].op # "delete"
    BY DEF RemovalSafe
  <2>1. v # u /\ task'[v] = task[v] /\ task[v].op # "delete"
    BY <1>3 DEF NoTask
  <2>. QED BY <2>1 DEF AdminIInv, RemovalSafe
<1>. QED BY <1>2, <1>4, <1>5 DEF AdminIInv, BeforeCreation

LEMMA AdminStep ==
  ASSUME AdminIInv, TenancyTypeOK, OneRemoval, [TenancyNext]_tenancyvars
  PROVE  AdminIInv'
<1>1. ASSUME NEW u \in User, CreateOrganisation(u) PROVE AdminIInv'
  <2>1. org' # "none" /\ <<u, "org_admin">> \in member' /\ task' = task
    BY <1>1 DEF CreateOrganisation, InviteUser
  <2>2. \A v \in User : task[v].op = "none"
    BY <1>1 DEF CreateOrganisation, AdminIInv, BeforeCreation, NoTask
  <2>. QED BY <2>1, <2>2 DEF AdminIInv, BeforeCreation, AnAdminRemains, RemovalSafe
<1>2. ASSUME NEW u \in User, RequireOrgRole(u) PROVE AdminIInv'
  <2>1. org # "none" /\ UNCHANGED <<org, member>>
    BY <1>2 DEF RequireOrgRole, HasOrgRole
  <2>2. CASE task' = [task EXCEPT ![u].op = "approve"]
    <3>. DEFINE t == [task[u] EXCEPT !.op = "approve"]
    <3>1. task' = [task EXCEPT ![u] = t] /\ t.op = "approve"
      BY <2>2 DEF TenancyTypeOK
    <3>. HIDE DEF t
    <3>. QED BY <2>1, <3>1, TaskMoves
  <2>3. ASSUME NEW op \in {"invite", "remove"}, NEW p \in Removal,
               task' = [task EXCEPT ![u] = [op |-> op, on |-> {p}]]
        PROVE  AdminIInv'
    BY <2>1, <2>3, TaskMoves
  <2>. QED BY <1>2, <2>2, <2>3 DEF RequireOrgRole
<1>3. ASSUME NEW u \in User, PostUser(u) PROVE AdminIInv'
  <2>1. org # "none" /\ UNCHANGED org /\ member \subseteq member'
    BY <1>3 DEF PostUser, InviteUser, AdminIInv, BeforeCreation, NoTask
  <2>2. AdminIInv /\ task' = [task EXCEPT ![u] = NoTask]
    BY <1>3 DEF PostUser, Answer
  <2>3. \A v \in User : task'[v] = IF v = u THEN NoTask ELSE task[v]
    BY <2>2 DEF TenancyTypeOK
  <2>4. \A v : OtherAdmins(v) \subseteq OtherAdmins(v)'
    BY <2>1 DEF OtherAdmins
  <2>5. RemovalSafe'
    <3>. SUFFICES ASSUME NEW v \in User, task'[v].op \in {"remove", "delete"}
                  PROVE  \E p \in Removal :
                           /\ task'[v].on = {p}
                           /\ task'[v].op = "delete" /\ p[2] = "org_admin" => OtherAdmins(p[1])' # {}
      BY DEF RemovalSafe
    <3>1. task'[v] = task[v]
      BY <2>3 DEF NoTask
    <3>2. PICK p \in Removal :
            /\ task[v].on = {p}
            /\ task[v].op = "delete" /\ p[2] = "org_admin" => OtherAdmins(p[1]) # {}
      BY <3>1 DEF AdminIInv, RemovalSafe
    <3>. QED BY <2>4, <3>1, <3>2
  <2>. QED BY <2>1, <2>5 DEF AdminIInv, BeforeCreation, AnAdminRemains
<1>4. ASSUME NEW u \in User, CountOtherAdmins(u) PROVE AdminIInv'
  <2>1. org # "none" /\ UNCHANGED <<org, member>>
    BY <1>4 DEF CountOtherAdmins, AdminIInv, BeforeCreation, NoTask
  <2>2. CASE Answer(u)
    BY <2>1, <2>2, TaskMoves DEF Answer, NoTask
  <2>3. CASE ~Answer(u)
    <3>1. PICK p \in Removal : task[u].on = {p}
      BY <1>4 DEF CountOtherAdmins, AdminIInv, RemovalSafe
    <3>. DEFINE t == [task[u] EXCEPT !.op = "delete"]
    <3>2. task' = [task EXCEPT ![u].op = "delete"] /\ (p[2] = "org_admin" => OtherAdmins(p[1]) # {})
      BY <1>4, <2>3, <3>1 DEF CountOtherAdmins
    <3>3. task' = [task EXCEPT ![u] = t] /\ t.op = "delete" /\ t.on = {p}
      BY <3>1, <3>2 DEF TenancyTypeOK
    <3>. HIDE DEF t
    <3>. QED BY <2>1, <3>2, <3>3, TaskMoves
  <2>. QED BY <2>2, <2>3
<1>5. ASSUME NEW u \in User, ApproveSupport(u) PROVE AdminIInv'
  <2>1. org # "none" /\ UNCHANGED <<org, member>>
    BY <1>5 DEF ApproveSupport, AdminIInv, BeforeCreation, NoTask
  <2>. QED BY <1>5, <2>1, TaskMoves DEF ApproveSupport, Answer, NoTask
<1>6. ASSUME NEW to \in {"active", "suspended"}, SetSuspended(to) PROVE AdminIInv'
  <2>1. org # "none" /\ org' # "none" /\ UNCHANGED <<member, task>>
    BY <1>6 DEF SetSuspended
  <2>. QED BY <2>1 DEF AdminIInv, BeforeCreation, AnAdminRemains, RemovalSafe, OtherAdmins
<1>7. ASSUME UNCHANGED <<org, member, task>> PROVE AdminIInv'
  BY <1>7 DEF AdminIInv, BeforeCreation, AnAdminRemains, RemovalSafe, OtherAdmins
<1>. QED
  BY <1>1, <1>2, <1>3, <1>4, <1>5, <1>6, <1>7, DeletionLeavesOne
  DEF TenancyNext, tenancyvars, people, platform, SignIn, LockActivation, ActivationExpires,
      CommitActivation, AbortActivation, AssignPlan, SupportExpires, RequestSupport, PutFlag

(* An organisation keeps an administrator for as long as no two removals   *)
(* overlap: the count itself is right, whoever invites, activates, signs   *)
(* in or is suspended between it and the DELETE.  That two of them may     *)
(* overlap is all that is missing (platform/routes.ts:203).                *)
THEOREM LastAdminKept == TenancySpec /\ []OneRemoval => []AnAdminRemains
<1>1. TenancyInit => AdminIInv
  BY DEF TenancyInit, AdminIInv, BeforeCreation, AnAdminRemains, RemovalSafe, NoTask
<1>2. TenancySpec => []TenancyTypeOK
  BY TenancyAlwaysTyped
<1>3. AdminIInv => AnAdminRemains
  BY DEF AdminIInv
<1>. QED BY <1>1, <1>2, <1>3, AdminStep, PTL DEF TenancySpec

-------------------------------------------------------------------------------
(* Outbound mail. *)

(* What a row may claim of a mail accepted "taken" times, refused "refused"*)
(* times.                                                                  *)
Truly(row, taken, refused) ==
  /\ row \in [status : MailState, attempts : Nat]
  /\ row.attempts <= refused
  /\ row.status = "sent" => taken > 0
  /\ row.status = "dead_letter" => refused >= MAX_ATTEMPTS

(* Neither a committed row claims more than happened, nor one that a run   *)
(* has written and not committed.                                          *)
MailIInv ==
  /\ DOMAIN mail = Message /\ mail = [m \in Message |-> mail[m]]
  /\ DOMAIN draft = Worker /\ draft = [w \in Worker |-> draft[w]]
  /\ mailed \in [Message -> Nat] /\ bounced \in [Message -> Nat]
  /\ \A m \in Message : Truly(mail[m], mailed[m], bounced[m])
  /\ \A w \in Worker : \A m \in DOMAIN draft[w] :
       m \in Message /\ Truly(draft[w][m], mailed[m], bounced[m])

LEMMA MailInit == ASSUME OutboxInit PROVE MailIInv
  BY OutboxAssumption DEF OutboxInit, MailIInv, Truly, MailState, NoDraft

(* A row that was true of its mail stays true: deliveries are only counted.*)
LEMMA TrulyStays ==
  ASSUME NEW row, NEW s \in Nat, NEW b \in Nat, NEW s2 \in Nat, NEW b2 \in Nat,
         s <= s2, b <= b2, Truly(row, s, b)
  PROVE  Truly(row, s2, b2)
  BY OutboxAssumption DEF Truly

(* Writing a row of the batch. *)
LEMMA DraftKept ==
  ASSUME MailIInv, NEW w \in Worker, NEW m \in Message,
         draft' = [draft EXCEPT ![w] = [n \in DOMAIN draft[w] \cup {m} |-> IF n = m THEN draft'[w][m] ELSE draft[w][n]]],
         Truly(draft'[w][m], mailed'[m], bounced'[m]), UNCHANGED mail,
         mailed' \in [Message -> Nat], bounced' \in [Message -> Nat],
         \A n \in Message : bounced[n] <= bounced'[n] /\ mailed[n] <= mailed'[n]
  PROVE  MailIInv'
<1>1. \A n \in Message : \A r : Truly(r, mailed[n], bounced[n]) => Truly(r, mailed'[n], bounced'[n])
  BY TrulyStays DEF MailIInv
<1>2. /\ DOMAIN draft' = Worker /\ draft' = [v \in Worker |-> draft'[v]]
      /\ DOMAIN draft'[w] = DOMAIN draft[w] \cup {m}
      /\ \A n \in DOMAIN draft[w] \ {m} : draft'[w][n] = draft[w][n]
      /\ \A v \in Worker \ {w} : draft'[v] = draft[v]
  BY DEF MailIInv
<1>3. ASSUME NEW v \in Worker, NEW n \in DOMAIN draft'[v]
      PROVE  n \in Message /\ Truly(draft'[v][n], mailed'[n], bounced'[n])
  <2>1. CASE v = w /\ n = m
    BY <1>2, <2>1
  <2>2. CASE ~(v = w /\ n = m)
    <3>1. n \in DOMAIN draft[v] /\ draft'[v][n] = draft[v][n]
      BY <1>2, <1>3, <2>2
    <3>2. n \in Message /\ Truly(draft[v][n], mailed[n], bounced[n])
      BY <3>1 DEF MailIInv
    <3>. QED BY <1>1, <3>1, <3>2
  <2>. QED BY <2>1, <2>2
<1>4. \A n \in Message : Truly(mail'[n], mailed'[n], bounced'[n])
  BY <1>1 DEF MailIInv
<1>. QED BY <1>2, <1>3, <1>4 DEF MailIInv

LEMMA DeliverKeepsMail ==
  ASSUME MailIInv, NEW w \in Worker, NEW m \in Message, Deliver(w, m) PROVE MailIInv'
<1>. DEFINE row == [mail[m] EXCEPT !.status = "sent"]
<1>1. /\ draft' = [draft EXCEPT ![w] =
             [n \in DOMAIN draft[w] \cup {m} |-> IF n = m THEN row ELSE draft[w][n]]]
      /\ UNCHANGED <<mail, bounced>>
      /\ mailed' = [mailed EXCEPT ![m] = @ + 1]
  BY DEF Deliver, Write, MailIInv
<1>2. /\ mailed' \in [Message -> Nat] /\ bounced' \in [Message -> Nat] /\ mailed'[m] > 0
      /\ \A n \in Message : bounced[n] <= bounced'[n] /\ mailed[n] <= mailed'[n]
  BY <1>1 DEF MailIInv
<1>3. Truly(row, mailed'[m], bounced'[m])
  BY <1>1, <1>2 DEF MailIInv, Truly, MailState
<1>. HIDE DEF row
<1>4. draft'[w][m] = row
  BY <1>1 DEF MailIInv
<1>. QED BY <1>1, <1>2, <1>3, <1>4, DraftKept

LEMMA BounceKeepsMail ==
  ASSUME MailIInv, NEW w \in Worker, NEW m \in Message, Bounce(w, m) PROVE MailIInv'
<1>. DEFINE row == [status |-> IF mail[m].attempts + 1 >= MAX_ATTEMPTS THEN "dead_letter" ELSE "failed",
                    attempts |-> mail[m].attempts + 1]
<1>1. /\ draft' = [draft EXCEPT ![w] =
             [n \in DOMAIN draft[w] \cup {m} |-> IF n = m THEN row ELSE draft[w][n]]]
      /\ UNCHANGED <<mail, mailed>>
      /\ bounced' = [bounced EXCEPT ![m] = @ + 1]
  BY DEF Bounce, Write, MailIInv
<1>2. /\ mailed' \in [Message -> Nat] /\ bounced' \in [Message -> Nat]
      /\ bounced'[m] = bounced[m] + 1 /\ bounced[m] \in Nat
      /\ \A n \in Message : bounced[n] <= bounced'[n] /\ mailed[n] <= mailed'[n]
  BY <1>1 DEF MailIInv
<1>3. mail[m].attempts \in Nat /\ mail[m].attempts <= bounced[m]
  BY DEF MailIInv, Truly
<1>4. Truly(row, mailed'[m], bounced'[m])
  BY <1>1, <1>2, <1>3, OutboxAssumption DEF Truly, MailState
<1>. HIDE DEF row
<1>5. draft'[w][m] = row
  BY <1>1 DEF MailIInv
<1>. QED BY <1>1, <1>2, <1>4, <1>5, DraftKept

LEMMA CommitKeepsMail ==
  ASSUME MailIInv, NEW w \in Worker, CommitBatch(w) PROVE MailIInv'
<1>1. /\ mail' = [m \in Message |-> IF m \in batch[w] THEN draft[w][m] ELSE mail[m]]
      /\ draft' = [draft EXCEPT ![w] = NoDraft]
      /\ UNCHANGED <<mailed, bounced>>
      /\ batch[w] \subseteq DOMAIN draft[w]
  BY DEF CommitBatch, Pending
<1>2. \A m \in Message : Truly(mail'[m], mailed[m], bounced[m])
  BY <1>1 DEF MailIInv
<1>3. \A v \in Worker : draft'[v] = draft[v] \/ DOMAIN draft'[v] = {}
  BY <1>1 DEF MailIInv, NoDraft
<1>. QED BY <1>1, <1>2, <1>3 DEF MailIInv

LEMMA LossKeepsMail ==
  ASSUME MailIInv, NEW w \in Worker, CrashWorker(w) \/ \E m \in Message : DeliverThenFail(w, m)
  PROVE  MailIInv'
<1>1. /\ mail' = mail /\ draft' = [draft EXCEPT ![w] = NoDraft]
      /\ mailed' \in [Message -> Nat] /\ bounced' = bounced
      /\ \A n \in Message : mailed[n] <= mailed'[n]
  BY DEF CrashWorker, DeliverThenFail, MailIInv
<1>2. \A n \in Message : \A r : Truly(r, mailed[n], bounced[n]) => Truly(r, mailed'[n], bounced[n])
  BY <1>1, TrulyStays DEF MailIInv
<1>3. \A v \in Worker : draft'[v] = draft[v] \/ DOMAIN draft'[v] = {}
  BY <1>1 DEF MailIInv, NoDraft
<1>. QED BY <1>1, <1>2, <1>3 DEF MailIInv

LEMMA MailStep == ASSUME MailIInv, [OutboxNext]_outboxvars PROVE MailIInv'
<1>1. ASSUME NEW m \in Message, Enqueue(m) PROVE MailIInv'
  <2>1. /\ mail' = [mail EXCEPT ![m].status = "queued"]
        /\ UNCHANGED <<draft, mailed, bounced>>
    BY <1>1 DEF Enqueue
  <2>2. \A n \in Message : Truly(mail'[n], mailed[n], bounced[n])
    BY <2>1 DEF MailIInv, Truly, MailState
  <2>. QED BY <2>1, <2>2 DEF MailIInv
<1>2. ASSUME UNCHANGED <<mail, draft, mailed, bounced>> PROVE MailIInv'
  BY <1>2 DEF MailIInv
<1>3. ASSUME NEW w \in Worker, TakeBatch(w) PROVE MailIInv'
  BY <1>2, <1>3 DEF TakeBatch
<1>4. ASSUME NEW m \in Message, BackoffElapses(m) PROVE MailIInv'
  BY <1>2, <1>4 DEF BackoffElapses
<1>5. UNCHANGED outboxvars => MailIInv'
  BY <1>2 DEF outboxvars
<1>. QED
  BY <1>1, <1>3, <1>4, <1>5, DeliverKeepsMail, BounceKeepsMail, CommitKeepsMail, LossKeepsMail
  DEF OutboxNext, Work

(* The status of a message is the truth about its mail: "sent" was         *)
(* accepted by the port, and one is given up only after MAX_ATTEMPTS       *)
(* refusals, over runs of the job that overlap, fail and die between the   *)
(* mail and the COMMIT (jobs/notify.ts).  Whether the job is run is not    *)
(* asked.                                                                  *)
THEOREM MailSettlesTruly == OutboxInit /\ [][OutboxNext]_outboxvars => []SettledTruly
<1>1. OutboxInit /\ [][OutboxNext]_outboxvars => []MailIInv
  BY MailInit, MailStep, PTL
<1>2. MailIInv => SettledTruly
  BY DEF MailIInv, Truly, SettledTruly
<1>. QED BY <1>1, <1>2, PTL

(* A delivery of the message is drafted, and not yet committed. *)
Drafted(m, drafts) == \E w \in Worker : m \in DOMAIN drafts[w] /\ drafts[w][m].status = "sent"

(* Runs hold different rows, and none of a message already settled: so it  *)
(* is delivered again only after a run that delivered it was lost.         *)
OnceIInv ==
  /\ DOMAIN batch = Worker /\ due \subseteq Message /\ crashes \in Nat
  /\ \A w \in Worker : DOMAIN draft[w] \subseteq batch[w] /\ batch[w] \subseteq Message
  /\ \A w, v \in Worker : w # v => batch[w] \cap batch[v] = {}
  /\ \A w \in Worker : \A m \in batch[w] : mail[m].status \in {"queued", "failed"}
  /\ DOMAIN audited = Message
  /\ \A m \in Message : audited[m] = IF mail[m].status = "sent" THEN 1 ELSE 0
  /\ \A m \in Message : /\ mailed[m] <= audited[m] + crashes + 1
                        /\ ~Drafted(m, draft) => mailed[m] <= audited[m] + crashes

LEMMA OnceInit == ASSUME OutboxInit PROVE OnceIInv
  BY DEF OutboxInit, OnceIInv, NoDraft, Drafted

LEMMA TakeOnce ==
  ASSUME MailIInv, OnceIInv, NEW w \in Worker, TakeBatch(w) PROVE OnceIInv'
<1>1. PICK taken \in SUBSET Waiting : batch' = [batch EXCEPT ![w] = taken]
  BY DEF TakeBatch
<1>2. UNCHANGED <<mail, due, draft, mailed, audited, crashes>> /\ batch[w] = {}
  BY DEF TakeBatch
<1>3. taken \subseteq Message /\ \A m \in taken : mail[m].status \in {"queued", "failed"}
  BY <1>1 DEF Waiting, OnceIInv
<1>4. \A v \in Worker : taken \cap batch[v] = {}
  BY <1>1 DEF Waiting, Locked
<1>5. batch'[w] = taken /\ DOMAIN batch' = Worker /\ \A v \in Worker \ {w} : batch'[v] = batch[v]
  BY <1>1 DEF OnceIInv
<1>. QED BY <1>2, <1>3, <1>4, <1>5 DEF OnceIInv, Drafted

(* An attempt made and written: one draft more, and one delivery if it says so. *)
LEMMA AttemptOnce ==
  ASSUME MailIInv, OnceIInv, NEW w \in Worker, NEW m \in Message, Deliver(w, m) \/ Bounce(w, m)
  PROVE  OnceIInv'
<1>1. /\ m \in batch[w] /\ m \notin DOMAIN draft[w]
      /\ UNCHANGED <<mail, due, batch, audited, crashes>>
  BY DEF Deliver, Bounce, Pending
<1>2. PICK row : draft' = [draft EXCEPT ![w] =
                   [n \in DOMAIN draft[w] \cup {m} |-> IF n = m THEN row ELSE draft[w][n]]]
  BY DEF Deliver, Bounce, Write
<1>3. /\ DOMAIN draft'[w] = DOMAIN draft[w] \cup {m}
      /\ \A n \in DOMAIN draft[w] : draft'[w][n] = draft[w][n]
      /\ \A v \in Worker \ {w} : draft'[v] = draft[v]
  BY <1>1, <1>2 DEF MailIInv
<1>4. \A v \in Worker : m \notin DOMAIN draft[v]
  BY <1>1 DEF OnceIInv
<1>5. mailed[m] <= audited[m] + crashes
  BY <1>4 DEF OnceIInv, Drafted
<1>6. \A n \in Message : Drafted(n, draft) => Drafted(n, draft')
  <2>. SUFFICES ASSUME NEW n \in Message, NEW v \in Worker, n \in DOMAIN draft[v],
                       draft[v][n].status = "sent"
                PROVE  n \in DOMAIN draft'[v] /\ draft'[v][n].status = "sent"
    BY DEF Drafted
  <2>. QED BY <1>3
<1>7. \/ /\ mailed' = [mailed EXCEPT ![m] = @ + 1] /\ Drafted(m, draft')
      \/ mailed' = mailed
  <2>1. CASE Deliver(w, m)
    <3>1. draft' = [draft EXCEPT ![w] =
            [n \in DOMAIN draft[w] \cup {m} |->
               IF n = m THEN [mail[m] EXCEPT !.status = "sent"] ELSE draft[w][n]]]
      BY <2>1 DEF Deliver, Write
    <3>2. draft'[w][m] = [mail[m] EXCEPT !.status = "sent"]
      BY <3>1 DEF MailIInv
    <3>3. draft'[w][m].status = "sent"
      BY <3>2 DEF MailIInv, Truly
    <3>. QED BY <1>3, <2>1, <3>3 DEF Deliver, Drafted
  <2>2. CASE Bounce(w, m)
    BY <2>2 DEF Bounce
  <2>. QED BY <2>1, <2>2
<1>8. \A v \in Worker : DOMAIN draft'[v] \subseteq batch[v]
  BY <1>1, <1>3 DEF OnceIInv
<1>9. \A n \in Message : /\ mailed'[n] <= audited[n] + crashes + 1
                         /\ ~Drafted(n, draft') => mailed'[n] <= audited[n] + crashes
  <2>. SUFFICES ASSUME NEW n \in Message
                PROVE  /\ mailed'[n] <= audited[n] + crashes + 1
                       /\ ~Drafted(n, draft') => mailed'[n] <= audited[n] + crashes
    OBVIOUS
  <2>1. /\ mailed[n] \in Nat /\ audited[n] \in Nat /\ crashes \in Nat
        /\ mailed[n] <= audited[n] + crashes + 1
        /\ ~Drafted(n, draft) => mailed[n] <= audited[n] + crashes
    BY DEF MailIInv, OnceIInv
  <2>2. CASE n = m
    BY <1>5, <1>6, <1>7, <2>1, <2>2 DEF MailIInv
  <2>3. CASE n # m
    BY <1>6, <1>7, <2>1, <2>3 DEF MailIInv
  <2>. QED BY <2>2, <2>3
<1>. QED BY <1>1, <1>8, <1>9 DEF OnceIInv

LEMMA CommitOnce ==
  ASSUME MailIInv, OnceIInv, NEW w \in Worker, CommitBatch(w) PROVE OnceIInv'
<1>1. /\ mail' = [m \in Message |-> IF m \in batch[w] THEN draft[w][m] ELSE mail[m]]
      /\ audited' = [m \in Message |->
           IF m \in batch[w] /\ draft[w][m].status = "sent" THEN audited[m] + 1 ELSE audited[m]]
      /\ batch' = [batch EXCEPT ![w] = {}] /\ draft' = [draft EXCEPT ![w] = NoDraft]
      /\ due' = due \ batch[w] /\ batch[w] \subseteq DOMAIN draft[w]
      /\ UNCHANGED <<mailed, crashes>>
  BY DEF CommitBatch, Pending
<1>2. /\ batch'[w] = {} /\ DOMAIN draft'[w] = {} /\ DOMAIN batch' = Worker
      /\ \A v \in Worker \ {w} : batch'[v] = batch[v] /\ draft'[v] = draft[v]
  BY <1>1 DEF MailIInv, OnceIInv, NoDraft
<1>3. \A v \in Worker : \A m \in batch'[v] : m \notin batch[w] /\ m \in batch[v]
  BY <1>2 DEF OnceIInv
<1>4. \A v \in Worker : \A m \in batch'[v] : mail'[m].status \in {"queued", "failed"}
  BY <1>1, <1>3 DEF OnceIInv
<1>5. \A m \in Message : audited'[m] = IF mail'[m].status = "sent" THEN 1 ELSE 0
  <2>1. \A m \in batch[w] : audited[m] = 0
    BY DEF OnceIInv
  <2>. QED BY <1>1, <2>1 DEF OnceIInv
<1>6. ASSUME NEW m \in Message
      PROVE  /\ mailed[m] <= audited'[m] + crashes + 1
             /\ ~Drafted(m, draft') => mailed[m] <= audited'[m] + crashes
  <2>1. /\ mailed[m] \in Nat /\ audited[m] \in Nat /\ crashes \in Nat
        /\ mailed[m] <= audited[m] + crashes + 1
        /\ ~Drafted(m, draft) => mailed[m] <= audited[m] + crashes
    BY DEF MailIInv, OnceIInv
  <2>2. CASE m \in batch[w] /\ draft[w][m].status = "sent"
    BY <1>1, <2>1, <2>2
  <2>3. CASE m \in batch[w] /\ draft[w][m].status # "sent"
    <3>1. ~Drafted(m, draft)
      BY <2>3 DEF Drafted, OnceIInv
    <3>. QED BY <1>1, <2>1, <2>3, <3>1
  <2>4. CASE m \notin batch[w]
    <3>1. Drafted(m, draft) => Drafted(m, draft')
      <4>. SUFFICES ASSUME NEW v \in Worker, m \in DOMAIN draft[v], draft[v][m].status = "sent"
                    PROVE  v # w
        BY <1>2 DEF Drafted
      <4>. QED BY <2>4 DEF OnceIInv
    <3>. QED BY <1>1, <2>1, <2>4, <3>1
  <2>. QED BY <2>2, <2>3, <2>4
<1>7. /\ \A v \in Worker : DOMAIN draft'[v] \subseteq batch'[v] /\ batch'[v] \subseteq Message
      /\ \A u, v \in Worker : u # v => batch'[u] \cap batch'[v] = {}
  BY <1>2 DEF OnceIInv
<1>. QED BY <1>1, <1>2, <1>4, <1>5, <1>6, <1>7 DEF OnceIInv

LEMMA LossOnce ==
  ASSUME MailIInv, OnceIInv, NEW w \in Worker, CrashWorker(w) \/ \E m \in Message : DeliverThenFail(w, m)
  PROVE  OnceIInv'
<1>1. /\ UNCHANGED <<mail, due, audited>> /\ crashes' = crashes + 1
      /\ batch' = [batch EXCEPT ![w] = {}] /\ draft' = [draft EXCEPT ![w] = NoDraft]
  BY DEF CrashWorker, DeliverThenFail
<1>2. /\ batch'[w] = {} /\ DOMAIN draft'[w] = {} /\ DOMAIN batch' = Worker
      /\ \A v \in Worker \ {w} : batch'[v] = batch[v] /\ draft'[v] = draft[v]
  BY <1>1 DEF MailIInv, OnceIInv, NoDraft
<1>3. \/ mailed' = mailed
      \/ \E m \in Pending(w) \cap Message : mailed' = [mailed EXCEPT ![m] = @ + 1]
  BY DEF CrashWorker, DeliverThenFail
<1>4. ASSUME NEW m \in Message
      PROVE  mailed'[m] <= audited[m] + crashes + 1 /\ audited[m] \in Nat /\ mailed'[m] \in Nat
  <2>1. /\ mailed[m] \in Nat /\ audited[m] \in Nat /\ crashes \in Nat
        /\ mailed[m] <= audited[m] + crashes + 1
        /\ ~Drafted(m, draft) => mailed[m] <= audited[m] + crashes
    BY DEF MailIInv, OnceIInv
  <2>2. m \in Pending(w) => ~Drafted(m, draft)
    BY DEF Pending, Drafted, OnceIInv
  <2>. QED BY <1>3, <2>1, <2>2 DEF MailIInv
<1>5. crashes \in Nat /\ crashes' \in Nat
  BY <1>1 DEF OnceIInv
<1>6. \A m \in Message : /\ mailed'[m] <= audited'[m] + crashes' + 1
                         /\ mailed'[m] <= audited'[m] + crashes'
  BY <1>1, <1>4, <1>5
<1>. QED BY <1>1, <1>2, <1>5, <1>6 DEF OnceIInv

LEMMA OnceStep == ASSUME MailIInv, OnceIInv, [OutboxNext]_outboxvars PROVE OnceIInv'
<1>1. ASSUME NEW m \in Message, Enqueue(m) PROVE OnceIInv'
  <2>1. /\ mail' = [mail EXCEPT ![m].status = "queued"] /\ mail[m].status = "none"
        /\ due' = due \cup {m} /\ UNCHANGED <<batch, draft, mailed, audited, crashes>>
    BY <1>1 DEF Enqueue
  <2>2. mail'[m].status = "queued" /\ \A n \in Message \ {m} : mail'[n] = mail[n]
    BY <2>1 DEF MailIInv, Truly
  <2>3. \A w \in Worker : m \notin batch[w]
    BY <2>1 DEF OnceIInv
  <2>. QED BY <2>1, <2>2, <2>3 DEF OnceIInv, Drafted
<1>2. ASSUME UNCHANGED <<mail, batch, draft, mailed, audited, crashes>>, due' \subseteq Message
      PROVE  OnceIInv'
  BY <1>2 DEF OnceIInv, Drafted
<1>3. ASSUME NEW m \in Message, BackoffElapses(m) PROVE OnceIInv'
  BY <1>2, <1>3 DEF BackoffElapses, OnceIInv
<1>4. UNCHANGED outboxvars => OnceIInv'
  BY <1>2 DEF outboxvars, OnceIInv
<1>. QED BY <1>1, <1>3, <1>4, TakeOnce, AttemptOnce, CommitOnce, LossOnce DEF OutboxNext, Work

(* Deliveries exceed what one send and its audit row account for by one    *)
(* for each run lost, at most.                                             *)
OncePerLoss ==
  \A m \in Message : /\ mailed[m] <= 1 + crashes
                     /\ m \notin Locked => mailed[m] <= audited[m] + crashes

(* A mail reaches its recipient twice, or goes out with no audit row, only *)
(* by way of a run that was lost after the mail had gone, however the runs *)
(* overlap.  Sending before the COMMIT is the whole of the gap between     *)
(* "every send attempt is auditable" and the code (SendsAudited;           *)
(* notifications/queue.ts:69).                                             *)
THEOREM MailOncePerLoss == OutboxInit /\ [][OutboxNext]_outboxvars => []OncePerLoss
<1>1. OutboxInit /\ [][OutboxNext]_outboxvars => [](MailIInv /\ OnceIInv)
  BY MailInit, MailStep, OnceInit, OnceStep, PTL
<1>2. MailIInv /\ OnceIInv => OncePerLoss
  <2>. SUFFICES ASSUME MailIInv, OnceIInv, NEW m \in Message
                PROVE  /\ mailed[m] <= 1 + crashes
                       /\ m \notin Locked => mailed[m] <= audited[m] + crashes
    BY DEF OncePerLoss
  <2>1. /\ mailed[m] \in Nat /\ crashes \in Nat /\ audited[m] \in {0, 1}
        /\ mailed[m] <= audited[m] + crashes + 1
        /\ ~Drafted(m, draft) => mailed[m] <= audited[m] + crashes
    BY DEF MailIInv, OnceIInv
  <2>2. Drafted(m, draft) => m \in Locked /\ audited[m] = 0
    BY DEF Drafted, OnceIInv, Locked
  <2>. QED BY <2>1, <2>2
<1>. QED BY <1>1, <1>2, PTL

(* An attempt is left to whatever is not settled. *)
Limited(row) ==
  row \in MailRow /\ (row.status \notin {"sent", "dead_letter"} => row.attempts < MAX_ATTEMPTS)

LimitIInv ==
  /\ mail \in [Message -> MailRow] /\ \A m \in Message : Limited(mail[m])
  /\ \A w \in Worker : /\ draft[w] \in [DOMAIN draft[w] -> MailRow]
                       /\ \A m \in DOMAIN draft[w] : Limited(draft[w][m])
  /\ batch \in [Worker -> SUBSET Message]
  /\ audited \in [Message -> Nat] /\ crashes \in 0..MaxCrashes

LEMMA LimitInit == ASSUME OutboxInit PROVE LimitIInv
  BY OutboxAssumption DEF OutboxInit, LimitIInv, Limited, MailRow, MailState, NoDraft

LEMMA LimitStep ==
  ASSUME MailIInv, OnceIInv, LimitIInv, [OutboxNext]_outboxvars PROVE LimitIInv'
<1>. USE DEF LimitIInv
<1>1. ASSUME NEW m \in Message, Enqueue(m) PROVE LimitIInv'
  BY <1>1 DEF Enqueue, Limited, MailRow, MailState
<1>2. ASSUME NEW m \in Message, BackoffElapses(m) PROVE LimitIInv'
  BY <1>2 DEF BackoffElapses
<1>3. ASSUME NEW w \in Worker, TakeBatch(w) PROVE LimitIInv'
  <2>1. Waiting \subseteq Message
    BY DEF Waiting, OnceIInv
  <2>2. \E taken \in SUBSET Message : batch' = [batch EXCEPT ![w] = taken]
    BY <1>3, <2>1 DEF TakeBatch
  <2>. QED BY <1>3, <2>2 DEF TakeBatch
<1>4. ASSUME NEW w \in Worker, NEW m \in Message, Deliver(w, m) \/ Bounce(w, m) PROVE LimitIInv'
  <2>1. mail[m] \in MailRow /\ mail[m].attempts < MAX_ATTEMPTS /\ m \in batch[w]
    BY <1>4 DEF Deliver, Bounce, Pending, OnceIInv, Limited
  <2>2. PICK row : /\ Limited(row)
                   /\ draft' = [draft EXCEPT ![w] =
                        [n \in DOMAIN draft[w] \cup {m} |-> IF n = m THEN row ELSE draft[w][n]]]
    <3>1. CASE Deliver(w, m)
      <4>1. Limited([mail[m] EXCEPT !.status = "sent"])
        BY <2>1 DEF Limited, MailRow, MailState
      <4>. QED BY <3>1, <4>1 DEF Deliver, Write
    <3>2. CASE Bounce(w, m)
      <4>. DEFINE row == [status |-> IF mail[m].attempts + 1 >= MAX_ATTEMPTS THEN "dead_letter" ELSE "failed",
                          attempts |-> mail[m].attempts + 1]
      <4>1. Limited(row)
        BY <2>1, OutboxAssumption DEF Limited, MailRow, MailState
      <4>2. draft' = [draft EXCEPT ![w] =
                        [n \in DOMAIN draft[w] \cup {m} |-> IF n = m THEN row ELSE draft[w][n]]]
        BY <3>2 DEF Bounce, Write
      <4>. QED BY <4>1, <4>2
    <3>. QED BY <1>4, <3>1, <3>2
  <2>3. /\ \A v \in Worker \ {w} : draft'[v] = draft[v]
        /\ draft'[w] = [n \in DOMAIN draft[w] \cup {m} |-> IF n = m THEN row ELSE draft[w][n]]
    BY <2>2 DEF MailIInv
  <2>4. row \in MailRow
    BY <2>2 DEF Limited
  <2>5. ASSUME NEW v \in Worker
        PROVE  /\ draft'[v] \in [DOMAIN draft'[v] -> MailRow]
               /\ \A n \in DOMAIN draft'[v] : Limited(draft'[v][n])
    <3>1. CASE v = w
      BY <2>2, <2>3, <2>4, <3>1
    <3>2. CASE v # w
      BY <2>3, <3>2
    <3>. QED BY <3>1, <3>2
  <2>6. UNCHANGED <<mail, batch, audited, crashes>>
    BY <1>4 DEF Deliver, Bounce
  <2>. QED BY <2>5, <2>6
<1>5. ASSUME NEW w \in Worker, CommitBatch(w) PROVE LimitIInv'
  <2>1. /\ mail' = [m \in Message |-> IF m \in batch[w] THEN draft[w][m] ELSE mail[m]]
        /\ audited' = [m \in Message |->
             IF m \in batch[w] /\ draft[w][m].status = "sent" THEN audited[m] + 1 ELSE audited[m]]
        /\ batch' = [batch EXCEPT ![w] = {}] /\ draft' = [draft EXCEPT ![w] = NoDraft]
        /\ batch[w] \subseteq DOMAIN draft[w] /\ UNCHANGED crashes
    BY <1>5 DEF CommitBatch, Pending
  <2>2. mail' \in [Message -> MailRow] /\ \A m \in Message : Limited(mail'[m])
    BY <2>1
  <2>3. \A v \in Worker : draft'[v] = draft[v] \/ draft'[v] = NoDraft
    BY <2>1 DEF MailIInv
  <2>. QED BY <2>1, <2>2, <2>3 DEF NoDraft
<1>6. ASSUME NEW w \in Worker, CrashWorker(w) \/ \E m \in Message : DeliverThenFail(w, m)
      PROVE  LimitIInv'
  <2>1. /\ UNCHANGED <<mail, audited>> /\ crashes' = crashes + 1 /\ crashes < MaxCrashes
        /\ batch' = [batch EXCEPT ![w] = {}] /\ draft' = [draft EXCEPT ![w] = NoDraft]
    BY <1>6 DEF CrashWorker, DeliverThenFail
  <2>2. \A v \in Worker : draft'[v] = draft[v] \/ draft'[v] = NoDraft
    BY <2>1 DEF MailIInv
  <2>3. crashes' \in 0..MaxCrashes
    BY <2>1, OutboxAssumption
  <2>. QED BY <2>1, <2>2, <2>3 DEF NoDraft
<1>7. CASE UNCHANGED outboxvars
  BY <1>7 DEF outboxvars
<1>. QED BY <1>1, <1>2, <1>3, <1>4, <1>5, <1>6, <1>7 DEF OutboxNext, Work

LEMMA OutboxTyped == OutboxInit /\ [][OutboxNext]_outboxvars => []OutboxTypeOK
<1>1. MailIInv /\ OnceIInv /\ LimitIInv => OutboxTypeOK
  BY DEF MailIInv, OnceIInv, LimitIInv, OutboxTypeOK
<1>. QED
  BY <1>1, MailInit, MailStep, OnceInit, OnceStep, LimitInit, LimitStep, PTL

-------------------------------------------------------------------------------
(* The behaviour log. *)

(* No two batches are between reading the highest number and committing.   *)
OneBatch == \A b, c \in Batch : sending[b].at = "above" /\ sending[c].at = "above" => b = c

(* What was found to be above the stored numbers still is. *)
AboveStored ==
  /\ sending \in [Batch -> [at : {"idle", "sent", "above"}, numbers : SUBSET (1..MaxSequence)]]
  /\ \A b \in Batch : sending[b].at = "above" =>
       \A n \in sending[b].numbers : n > Highest(kept)

LEMMA EventsStep ==
  ASSUME AboveStored, OneBatch, [EventsNext]_eventvars
  PROVE  AboveStored' /\ \A n \in kept' \ kept : n > Highest(kept)
<1>. USE DEF AboveStored
<1>1. ASSUME NEW b \in Batch, SendBatch(b)
      PROVE  AboveStored' /\ kept' = kept
  BY <1>1 DEF SendBatch
<1>2. ASSUME NEW b \in Batch, ReadHighest(b)
      PROVE  AboveStored' /\ kept' = kept
  <2>1. CASE \A n \in sending[b].numbers : n > Highest(kept)
    <3>1. sending' = [sending EXCEPT ![b] = [sending[b] EXCEPT !.at = "above"]]
      BY <1>2, <2>1 DEF ReadHighest
    <3>. QED BY <1>2, <2>1, <3>1 DEF ReadHighest
  <2>2. CASE ~(\A n \in sending[b].numbers : n > Highest(kept))
    <3>1. sending' = [sending EXCEPT ![b] = NoBatch]
      BY <1>2, <2>2 DEF ReadHighest
    <3>. QED BY <1>2, <3>1 DEF ReadHighest, NoBatch
  <2>. QED BY <2>1, <2>2
<1>3. ASSUME NEW b \in Batch, RejectBatch(b)
      PROVE  AboveStored' /\ kept' = kept
  BY <1>3 DEF RejectBatch, NoBatch
<1>4. ASSUME NEW b \in Batch, CommitEvents(b)
      PROVE  AboveStored' /\ \A n \in kept' \ kept : n > Highest(kept)
  <2>1. /\ sending[b].at = "above" /\ kept' = kept \cup sending[b].numbers
        /\ sending' = [sending EXCEPT ![b] = NoBatch]
    BY <1>4 DEF CommitEvents
  <2>2. \A c \in Batch : sending'[c].at # "above"
    BY <2>1 DEF OneBatch, NoBatch
  <2>3. sending' \in [Batch -> [at : {"idle", "sent", "above"}, numbers : SUBSET (1..MaxSequence)]]
    BY <2>1 DEF NoBatch
  <2>. QED BY <2>1, <2>2, <2>3
<1>5. CASE TakeHead \/ UNCHANGED eventvars
  BY <1>5 DEF TakeHead, eventvars
<1>. QED BY <1>1, <1>2, <1>3, <1>4, <1>5 DEF EventsNext

(* "Incoming sequence must be strictly greater than stored sequence" holds *)
(* of every committed batch, refused and rolled back ones in between,      *)
(* unless two batches have read the highest number before either commits   *)
(* (candidate/runtime-v2.ts:261): nothing but a lock is missing.           *)
THEOREM SequenceGrows == EventsSpec /\ []OneBatch => IncomingAboveStored
<1>1. EventsInit => AboveStored
  BY DEF EventsInit, AboveStored, NoBatch
<1>2. AboveStored /\ OneBatch /\ [EventsNext]_eventvars =>
        AboveStored' /\ [\A n \in kept' \ kept : n > Highest(kept)]_eventvars
  BY EventsStep
<1>. QED BY <1>1, <1>2, PTL DEF EventsSpec, IncomingAboveStored

LEMMA EventsTyped == EventsSpec => []EventsTypeOK
<1>1. EventsInit => EventsTypeOK
  BY EventsAssumption DEF EventsInit, EventsTypeOK, NoBatch
<1>2. EventsTypeOK /\ [EventsNext]_eventvars => EventsTypeOK'
  <2>. SUFFICES ASSUME EventsTypeOK, [EventsNext]_eventvars PROVE EventsTypeOK'
    OBVIOUS
  <2>. USE DEF EventsTypeOK
  <2>1. ASSUME NEW b \in Batch, SendBatch(b) PROVE EventsTypeOK'
    BY <2>1 DEF SendBatch
  <2>2. ASSUME NEW b \in Batch, ReadHighest(b) PROVE EventsTypeOK'
    <3>1. CASE \A n \in sending[b].numbers : n > Highest(kept)
      <4>1. sending' = [sending EXCEPT ![b] = [sending[b] EXCEPT !.at = "above"]]
        BY <2>2, <3>1 DEF ReadHighest
      <4>2. [sending[b] EXCEPT !.at = "above"]
              \in [at : {"idle", "sent", "above"}, numbers : SUBSET (1..MaxSequence)]
        OBVIOUS
      <4>. QED BY <2>2, <4>1, <4>2 DEF ReadHighest
    <3>2. CASE ~(\A n \in sending[b].numbers : n > Highest(kept))
      <4>1. sending' = [sending EXCEPT ![b] = NoBatch]
        BY <2>2, <3>2 DEF ReadHighest
      <4>. QED BY <2>2, <4>1 DEF ReadHighest, NoBatch
    <3>. QED BY <3>1, <3>2
  <2>3. ASSUME NEW b \in Batch, RejectBatch(b) \/ CommitEvents(b) PROVE EventsTypeOK'
    <3>1. sending' = [sending EXCEPT ![b] = NoBatch] /\ eventHead' = eventHead
      BY <2>3 DEF RejectBatch, CommitEvents
    <3>2. sending[b].numbers \in SUBSET (1..MaxSequence)
      OBVIOUS
    <3>3. kept' = kept \/ kept' = kept \cup sending[b].numbers
      BY <2>3 DEF RejectBatch, CommitEvents
    <3>4. kept' \subseteq 1..MaxSequence
      BY <3>2, <3>3
    <3>. QED BY <3>1, <3>4 DEF NoBatch
  <2>4. CASE TakeHead
    <3>1. Highest(kept) \in 0..MaxSequence
      <4>1. CASE kept = {}
        BY <4>1, EventsAssumption DEF Highest
      <4>2. CASE kept # {}
        <5>1. PICK m \in kept : \A n \in kept : n <= m
          BY <4>2, MaxExists, EventsAssumption
        <5>2. Highest(kept) \in kept
          BY <4>2, <5>1, Zenon DEF Highest
        <5>3. Highest(kept) \in 1..MaxSequence
          BY <5>2
        <5>. QED BY <5>3, EventsAssumption
      <4>. QED BY <4>1, <4>2
    <3>. QED BY <2>4, <3>1 DEF TakeHead
  <2>5. CASE UNCHANGED eventvars
    BY <2>5 DEF eventvars
  <2>. QED BY <2>1, <2>2, <2>3, <2>4, <2>5 DEF EventsNext
<1>. QED BY <1>1, <1>2, PTL DEF EventsSpec

-------------------------------------------------------------------------------
(* Types. *)

(* Every variable of the mechanisms keeps its type.  That no message is    *)
(* tried more often than MAX_ATTEMPTS is part of it, and needs the rows    *)
(* that runs hold to be apart and unsettled.                               *)
THEOREM MechanismsTyped ==
  /\ AuditSpec => []AuditTypeOK
  /\ IdemSpec => []IdemTypeOK
  /\ TenancySpec => []TenancyTypeOK
  /\ OutboxInit /\ [][OutboxNext]_outboxvars => []OutboxTypeOK
  /\ EventsSpec => []EventsTypeOK
<1>1. AuditSpec => []AuditTypeOK
  <2>1. ChainIInv => AuditTypeOK
    BY DEF ChainIInv
  <2>. QED BY <2>1, ChainInit, ChainStep, PTL DEF AuditSpec
<1>2. IdemSpec => []IdemTypeOK
  <2>1. KeyIInv => IdemTypeOK
    BY DEF KeyIInv
  <2>. QED BY <2>1, KeyInit, KeyStep, PTL DEF IdemSpec
<1>. QED BY <1>1, <1>2, TenancyAlwaysTyped, OutboxTyped, EventsTyped, PTL

===============================================================================
