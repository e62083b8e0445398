---------------------------- MODULE BehaviourEvents ----------------------------
(***************************************************************************)
(* The behaviour log of a V2 session (candidate/runtime-v2.ts): batches of *)
(* numbered events, from the web runtime and the companion, each inserted  *)
(* by a transaction that first reads the highest number stored.  Nothing   *)
(* is locked, and the session's state is not asked for.  The receipt of    *)
(* the submission takes the event of the highest number for its head.      *)
(***************************************************************************)
EXTENDS Integers, FiniteSets

CONSTANTS
  Batch,        \* batches in flight at a time
  MaxSequence   \* bound on the sequence numbers

ASSUME EventsAssumption == MaxSequence \in Nat

VARIABLES
  kept,         \* committed sequence numbers
  sending,      \* batch -> its numbers and how far it has come
  eventHead     \* the head of the receipt, -1 before it

eventvars == <<kept, sending, eventHead>>

NoBatch == [at |-> "idle", numbers |-> {}]
Highest(S) == IF S = {} THEN 0 ELSE CHOOSE n \in S : \A k \in S : k <= n

EventsTypeOK ==
  /\ kept \subseteq 1..MaxSequence
  /\ sending \in [Batch -> [at : {"idle", "sent", "above"}, numbers : SUBSET (1..MaxSequence)]]
  /\ eventHead \in -1..MaxSequence

EventsInit ==
  /\ kept = {} /\ sending = [b \in Batch |-> NoBatch] /\ eventHead = -1

(* Duplicates within a batch are refused before the transaction. *)
SendBatch(b) ==
  /\ sending[b].at = "idle"
  /\ \E S \in SUBSET (1..MaxSequence) \ {{}} :
       sending' = [sending EXCEPT ![b] = [at |-> "sent", numbers |-> S]]
  /\ UNCHANGED <<kept, eventHead>>

(* The lowest number must be above max(sequence_no), or 409. *)
ReadHighest(b) ==
  /\ sending[b].at = "sent"
  /\ sending' = [sending EXCEPT ![b] =
       IF \A n \in @.numbers : n > Highest(kept) THEN [@ EXCEPT !.at = "above"] ELSE NoBatch]
  /\ UNCHANGED <<kept, eventHead>>

(* The unique index lets no number in twice: 23505 is answered with 409,   *)
(* and that, a deadlock of two batches or any failure rolls the batch back.*)
RejectBatch(b) ==
  /\ sending[b].at = "above"
  /\ sending' = [sending EXCEPT ![b] = NoBatch]
  /\ UNCHANGED <<kept, eventHead>>

CommitEvents(b) ==
  /\ sending[b].at = "above" /\ sending[b].numbers \cap kept = {}
  /\ kept' = kept \cup sending[b].numbers
  /\ sending' = [sending EXCEPT ![b] = NoBatch]
  /\ UNCHANGED eventHead

TakeHead ==
  /\ eventHead = -1 /\ eventHead' = Highest(kept)
  /\ UNCHANGED <<kept, sending>>

EventsNext ==
  \/ \E b \in Batch : SendBatch(b) \/ ReadHighest(b) \/ RejectBatch(b) \/ CommitEvents(b)
  \/ TakeHead

EventsSpec == EventsInit /\ [][EventsNext]_eventvars

-------------------------------------------------------------------------------
(* Properties. *)

(* "Incoming sequence must be strictly greater than stored sequence."      *)
IncomingAboveStored ==
  [][\A n \in kept' \ kept : n > Highest(kept)]_eventvars

===============================================================================
