-------------------------------- MODULE Outbox --------------------------------
(***************************************************************************)
(* Outbound mail: messages enqueued in the transactions that cause them    *)
(* (notifications/queue.ts) and sent by the notification job               *)
(* (jobs/notify.ts), which an operator's scheduler runs again and again    *)
(* and which may overlap itself.  A run sends its whole batch inside one   *)
(* transaction of the organisation.                                        *)
(***************************************************************************)
EXTENDS Integers, FiniteSets

CONSTANTS
  Message,      \* outbound_messages rows
  Worker,       \* runs of the job at a time
  BatchSize,
  MAX_ATTEMPTS, \* 5 in the code
  MaxCrashes    \* bound on the transactions that fail

ASSUME OutboxAssumption ==
  /\ MAX_ATTEMPTS \in Nat \ {0} /\ BatchSize \in Nat \ {0} /\ MaxCrashes \in Nat
  /\ IsFiniteSet(Message)

VARIABLES
  mail,       \* message -> its committed status and attempts
  due,        \* messages whose next_attempt_at has come
  batch,      \* worker -> the rows it has locked
  draft,      \* worker -> the rows it has updated, not committed
  mailed,     \* history: deliveries the mail port has accepted
  bounced,    \* history: deliveries it has refused
  audited,    \* committed notification.sent rows
  crashes

outboxvars == <<mail, due, batch, draft, mailed, bounced, audited, crashes>>

MailState == {"none", "queued", "failed", "sent", "dead_letter"}
MailRow == [status : MailState, attempts : 0..MAX_ATTEMPTS]

OutboxTypeOK ==
  /\ mail \in [Message -> MailRow]
  /\ due \subseteq Message
  /\ batch \in [Worker -> SUBSET Message]
  /\ \A w \in Worker : draft[w] \in [DOMAIN draft[w] -> MailRow] /\ DOMAIN draft[w] \subseteq batch[w]
  /\ mailed \in [Message -> Nat] /\ bounced \in [Message -> Nat]
  /\ audited \in [Message -> Nat]
  /\ crashes \in 0..MaxCrashes

NoDraft == [m \in {} |-> [status |-> "none", attempts |-> 0]]

OutboxInit ==
  /\ mail = [m \in Message |-> [status |-> "none", attempts |-> 0]]
  /\ due = {}
  /\ batch = [w \in Worker |-> {}] /\ draft = [w \in Worker |-> NoDraft]
  /\ mailed = [m \in Message |-> 0] /\ bounced = [m \in Message |-> 0]
  /\ audited = [m \in Message |-> 0]
  /\ crashes = 0

Enqueue(m) ==
  /\ mail[m].status = "none"
  /\ mail' = [mail EXCEPT ![m].status = "queued"]
  /\ due' = due \cup {m}
  /\ UNCHANGED <<batch, draft, mailed, bounced, audited, crashes>>

BackoffElapses(m) ==
  /\ mail[m].status = "failed" /\ m \notin due
  /\ due' = due \cup {m}
  /\ UNCHANGED <<mail, batch, draft, mailed, bounced, audited, crashes>>

(* FOR UPDATE SKIP LOCKED: rows another run holds are passed over. *)
Locked == UNION {batch[w] : w \in Worker}

(* Wrong on purpose: a delivery that failed is not taken up again. *)
WaitingNew == {m \in due : mail[m].status = "queued"} \ Locked

Waiting == {m \in due : mail[m].status \in {"queued", "failed"}} \ Locked

TakeBatch(w) ==
  /\ batch[w] = {} /\ Waiting # {}
  /\ \E taken \in SUBSET Waiting :
       /\ Cardinality(taken) =
            IF Cardinality(Waiting) < BatchSize THEN Cardinality(Waiting) ELSE BatchSize
       /\ batch' = [batch EXCEPT ![w] = taken]
  /\ UNCHANGED <<mail, due, draft, mailed, bounced, audited, crashes>>

Pending(w) == batch[w] \ DOMAIN draft[w]

Write(w, m, row) ==
  draft' = [draft EXCEPT ![w] = [n \in DOMAIN @ \cup {m} |-> IF n = m THEN row ELSE @[n]]]

Deliver(w, m) ==
  /\ m \in Pending(w)
  /\ mailed' = [mailed EXCEPT ![m] = @ + 1]
  /\ Write(w, m, [mail[m] EXCEPT !.status = "sent"])
  /\ UNCHANGED <<mail, due, batch, bounced, audited, crashes>>

(* Wrong on purpose: the attempt that dead-letters is counted from one. *)
BounceEarly(w, m) ==
  /\ m \in Pending(w)
  /\ bounced' = [bounced EXCEPT ![m] = @ + 1]
  /\ Write(w, m, [status |-> IF mail[m].attempts + 2 >= MAX_ATTEMPTS THEN "dead_letter" ELSE "failed",
                  attempts |-> mail[m].attempts + 1])
  /\ UNCHANGED <<mail, due, batch, mailed, audited, crashes>>

Bounce(w, m) ==
  /\ m \in Pending(w)
  /\ bounced' = [bounced EXCEPT ![m] = @ + 1]
  /\ Write(w, m, [status |-> IF mail[m].attempts + 1 >= MAX_ATTEMPTS THEN "dead_letter" ELSE "failed",
                  attempts |-> mail[m].attempts + 1])
  /\ UNCHANGED <<mail, due, batch, mailed, audited, crashes>>

(* The mail has gone, and the update or the audit row after it fails: the  *)
(* catch runs its own UPDATE in the aborted transaction, which throws.     *)
DeliverThenFail(w, m) ==
  /\ m \in Pending(w) /\ crashes < MaxCrashes
  /\ mailed' = [mailed EXCEPT ![m] = @ + 1]
  /\ crashes' = crashes + 1
  /\ batch' = [batch EXCEPT ![w] = {}] /\ draft' = [draft EXCEPT ![w] = NoDraft]
  /\ UNCHANGED <<mail, due, bounced, audited>>

CommitBatch(w) ==
  /\ batch[w] # {} /\ Pending(w) = {}
  /\ mail' = [m \in Message |-> IF m \in batch[w] THEN draft[w][m] ELSE mail[m]]
  /\ due' = due \ batch[w]
  /\ audited' = [m \in Message |->
       IF m \in batch[w] /\ draft[w][m].status = "sent" THEN audited[m] + 1 ELSE audited[m]]
  /\ batch' = [batch EXCEPT ![w] = {}] /\ draft' = [draft EXCEPT ![w] = NoDraft]
  /\ UNCHANGED <<mailed, bounced, crashes>>

(* The process dies: the rows are as they were, the mails are not. *)
CrashWorker(w) ==
  /\ batch[w] # {} /\ crashes < MaxCrashes
  /\ crashes' = crashes + 1
  /\ batch' = [batch EXCEPT ![w] = {}] /\ draft' = [draft EXCEPT ![w] = NoDraft]
  /\ UNCHANGED <<mail, due, mailed, bounced, audited>>

Work(w) ==
  \/ TakeBatch(w) \/ CommitBatch(w)
  \/ \E m \in Message : Deliver(w, m) \/ Bounce(w, m)

OutboxNext ==
  \/ \E m \in Message : Enqueue(m) \/ BackoffElapses(m)
  \/ \E w \in Worker : \/ Work(w) \/ CrashWorker(w)
                       \/ \E m \in Message : DeliverThenFail(w, m)

(* The job is run again and again and its runs go on unless they crash;    *)
(* time passes.  Nothing is assumed of the mail server.                    *)
OutboxFairness ==
  /\ \A m \in Message : WF_outboxvars(BackoffElapses(m))
  /\ \A w \in Worker : WF_outboxvars(Work(w))

OutboxSpec == OutboxInit /\ [][OutboxNext]_outboxvars /\ OutboxFairness

-------------------------------------------------------------------------------
(* Properties. *)

(* A row's status is the truth about its mail, over failed runs and        *)
(* retries: "sent" was accepted by the port, and a message is given up     *)
(* only after MAX_ATTEMPTS deliveries of it were refused.                  *)
SettledTruly ==
  \A m \in Message :
    /\ mail[m].status = "sent" => mailed[m] > 0
    /\ mail[m].status = "dead_letter" => bounced[m] >= MAX_ATTEMPTS

(* No message is "silently lost": each is sent in the end, or ends in the  *)
(* dead letters, whatever the mail server answers and whichever run of the *)
(* job held it when it failed.                                             *)
MessageSettles ==
  \A m \in Message :
    mail[m].status \in {"queued", "failed"} ~> mail[m].status \in {"sent", "dead_letter"}

(* "Every send attempt is auditable": a mail that was accepted has its     *)
(* audit row once no run is about to write it.                             *)
SendsAudited ==
  \A m \in Message : m \notin Locked => mailed[m] <= audited[m]

===============================================================================
