----------------------------- MODULE RetentionForm ------------------------------
(***************************************************************************)
(* The retention policy of an organisation (org/compliance.ts), which      *)
(* several administrators edit in the compliance console (apps/web         *)
(* CompliancePage), each in a form filled once from what he was shown.     *)
(* Each change is entered in the audit log, for which AuditChain stands:   *)
(* its entries are in the order the chain's lock was taken in.             *)
(***************************************************************************)
EXTENDS Naturals, Sequences

CONSTANTS
  Editor,     \* administrators with the console open
  Policy,     \* retention policies
  NoPolicy,   \* a form not filled yet
  MaxTold     \* bound on the entries about the policy

ASSUME RetentionFormAssumption == NoPolicy \notin Policy /\ MaxTold \in Nat

VARIABLES
  policy,     \* the organisation's row of retention_policies
  told,       \* the entries about it: the policy each tells of
  waiting,    \* PUTs that wait for the row
  putting,    \* the PUT that holds it: at most one
  form,       \* editor -> the values in his form
  updated     \* editor -> the policies his page says it has updated to

retentionvars == <<policy, told, waiting, putting, form, updated>>

Put == [by : Editor, to : Policy]

RetentionFormTypeOK ==
  /\ policy \in Policy /\ told \in Seq(Policy)
  /\ putting \subseteq Put /\ waiting \subseteq Put
  /\ \A p, q \in putting : p = q
  /\ form \in [Editor -> Policy \cup {NoPolicy}]
  /\ updated \in [Editor -> SUBSET Policy]

RetentionFormInit ==
  /\ policy \in Policy /\ told = <<>>
  /\ putting = {} /\ waiting = {}
  /\ form = [a \in Editor |-> NoPolicy] /\ updated = [a \in Editor |-> {}]

(* The form takes the values of the first answer, and of no later one.     *)
FillForm(a) ==
  /\ form[a] = NoPolicy /\ form' = [form EXCEPT ![a] = policy]
  /\ UNCHANGED <<policy, told, waiting, putting, updated>>

EditForm(a, p) ==
  /\ form[a] \notin {NoPolicy, p} /\ form' = [form EXCEPT ![a] = p]
  /\ UNCHANGED <<policy, told, waiting, putting, updated>>

SavePolicy(a) ==
  /\ form[a] # NoPolicy /\ \A p \in putting \cup waiting : p.by # a
  /\ waiting' = waiting \cup {[by |-> a, to |-> form[a]]}
  /\ updated' = [updated EXCEPT ![a] = {}]
  /\ UNCHANGED <<policy, told, putting, form>>

(* The UPDATE holds the row until its transaction ends.                    *)
UpdatePolicy(p) ==
  /\ putting = {} /\ p \in waiting
  /\ putting' = {p} /\ waiting' = waiting \ {p}
  /\ UNCHANGED <<policy, told, form, updated>>

(* Wrong on purpose: the entry is written when the row's transaction is    *)
(* over, if it is.                                                         *)
CommitPolicyAlone(p) ==
  /\ p \in putting /\ putting' = {}
  /\ policy' = p.to
  /\ told' \in {told, Append(told, p.to)}
  /\ updated' \in {updated, [updated EXCEPT ![p.by] = {p.to}]}
  /\ UNCHANGED <<waiting, form>>

(* The entry shares the transaction; the answer may be lost.               *)
CommitPolicy(p) ==
  /\ p \in putting /\ putting' = {} /\ Len(told) < MaxTold
  /\ policy' = p.to /\ told' = Append(told, p.to)
  /\ updated' \in {updated, [updated EXCEPT ![p.by] = {p.to}]}
  /\ UNCHANGED <<waiting, form>>

RollbackPolicy(p) ==
  /\ p \in putting /\ putting' = {}
  /\ UNCHANGED <<policy, told, waiting, form, updated>>

RetentionFormNext ==
  \/ \E a \in Editor : FillForm(a) \/ SavePolicy(a) \/ \E p \in Policy : EditForm(a, p)
  \/ \E p \in waiting : UpdatePolicy(p)
  \/ \E p \in putting : CommitPolicy(p) \/ RollbackPolicy(p)

RetentionFormSpec == RetentionFormInit /\ [][RetentionFormNext]_retentionvars

-------------------------------------------------------------------------------
(* Properties. *)

(* The last entry about the policy tells the policy in force, however the  *)
(* saves of several administrators cross, and what a page says it has set  *)
(* is there among them (compliance.ts:200-218, CompliancePage.tsx:227-235).*)
PolicyAsAudited ==
  /\ told # <<>> => policy = told[Len(told)]
  /\ \A a \in Editor : updated[a] \subseteq {told[i] : i \in DOMAIN told}

===============================================================================
