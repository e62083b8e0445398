------------------------------ MODULE AuditExplorer ------------------------------
(***************************************************************************)
(* The audit explorer of the compliance console (apps/web CompliancePage,  *)
(* org/compliance.ts): it reads the log newest first, a page at a time,    *)
(* while entries are appended to it.  The log itself is AuditChain's; here *)
(* an entry is a place in it and what the filter looks at.                 *)
(***************************************************************************)
EXTENDS Naturals, Sequences, FiniteSets

CONSTANTS
  Kind,       \* the actions and entity types a filter may name
  AnyKind,    \* no filter
  PageRows,   \* entries on a page
  MaxAsked,   \* bound on the searches on their way
  MaxTrail    \* bound on the entries

ASSUME AuditExplorerAssumption ==
  /\ AnyKind \notin Kind /\ PageRows \in Nat \ {0}
  /\ MaxAsked \in Nat /\ MaxTrail \in Nat

VARIABLES
  trail,      \* audit_log, oldest first
  sought,     \* the filter typed
  offset,     \* in entries
  querying,   \* the searches on their way
  shownPage,  \* the search whose rows are shown, with them and the total
  walk,       \* history: the entries that matched at the first page
  readSoFar,  \* history: the entries shown since
  orderly     \* history: each page was shown before the next was asked for

explorervars == <<trail, sought, offset, querying, shownPage, walk, readSoFar, orderly>>

Filter == Kind \cup {AnyKind}
Search == [filter : Filter, offset : Nat]

AuditExplorerTypeOK ==
  /\ trail \in Seq(Kind)
  /\ sought \in Filter /\ offset \in Nat
  /\ querying \subseteq Search
  /\ \A s \in shownPage : [filter |-> s.filter, offset |-> s.offset] \in Search
  /\ walk \cup readSoFar \subseteq 1..Len(trail) /\ orderly \in BOOLEAN

Matching(f) == {i \in DOMAIN trail : f \in {AnyKind, trail[i]}}

(* ORDER BY occurred_at DESC LIMIT limit OFFSET offset: occurred_at is     *)
(* taken under the chain's lock, so it is the order of the chain; entries  *)
(* of one millisecond, which have none, are taken to be of two.            *)
RowsOf(q) ==
  {i \in Matching(q.filter) :
     Cardinality({j \in Matching(q.filter) : j > i}) \in q.offset..(q.offset + PageRows - 1)}

AuditExplorerInit ==
  /\ trail = <<>>
  /\ sought = AnyKind /\ offset = 0
  /\ querying = {[filter |-> AnyKind, offset |-> 0]} /\ shownPage = {}
  /\ walk = {} /\ readSoFar = {} /\ orderly = TRUE

Ask(f, o) ==
  /\ Cardinality(querying) < MaxAsked   \* Bound
  /\ sought' = f /\ offset' = o
  /\ querying' = querying \cup {[filter |-> f, offset |-> o]}

(* Every answer is shown, in the order the answers come.                   *)
SearchAnswered(q) ==
  /\ q \in querying /\ querying' = querying \ {q}
  /\ shownPage' = {[filter |-> q.filter, offset |-> q.offset, rows |-> RowsOf(q),
                    total |-> Cardinality(Matching(q.filter))]}
  /\ IF q = [filter |-> sought, offset |-> 0] /\ offset = 0
     THEN walk' = Matching(q.filter) /\ readSoFar' = RowsOf(q) /\ orderly' = TRUE
     ELSE walk' = walk /\ readSoFar' = readSoFar \cup RowsOf(q) /\ orderly' = orderly
  /\ UNCHANGED <<trail, sought, offset>>

SearchFails(q) ==
  /\ q \in querying /\ querying' = querying \ {q} /\ orderly' = FALSE
  /\ UNCHANGED <<trail, sought, offset, shownPage, walk, readSoFar>>

InStep == querying = {} /\ \E s \in shownPage : s.filter = sought /\ s.offset = offset

(* Typing a filter asks at once, and leaves the offset where it is.        *)
TypeFilter(f) ==
  /\ f # sought /\ Ask(f, offset) /\ orderly' = FALSE
  /\ UNCHANGED <<trail, shownPage, walk, readSoFar>>

(* "Apply filters": from the first page, whatever the filter.              *)
ApplyFilters ==
  /\ Ask(sought, 0) /\ orderly' = FALSE
  /\ UNCHANGED <<trail, shownPage, walk, readSoFar>>

(* Wrong on purpose: the next page begins one entry late.                  *)
NextPageLate ==
  /\ \E s \in shownPage : s.rows # {} /\ offset + PageRows < s.total
  /\ Ask(sought, offset + PageRows + 1) /\ orderly' = (orderly /\ InStep)
  /\ UNCHANGED <<trail, shownPage, walk, readSoFar>>

(* By the total of the page shown, which the page asked for may not be.    *)
NextPage ==
  /\ \E s \in shownPage : s.rows # {} /\ offset + PageRows < s.total
  /\ Ask(sought, offset + PageRows) /\ orderly' = (orderly /\ InStep)
  /\ UNCHANGED <<trail, shownPage, walk, readSoFar>>

PreviousPage ==
  /\ offset > 0 /\ \E s \in shownPage : s.rows # {}
  /\ Ask(sought, IF offset > PageRows THEN offset - PageRows ELSE 0)
  /\ orderly' = FALSE
  /\ UNCHANGED <<trail, shownPage, walk, readSoFar>>

(* An export, and all that others do. *)
AppendEntry(k) ==
  /\ Len(trail) < MaxTrail /\ trail' = Append(trail, k)
  /\ UNCHANGED <<sought, offset, querying, shownPage, walk, readSoFar, orderly>>

AuditExplorerNext ==
  \/ \E q \in querying : SearchAnswered(q) \/ SearchFails(q)
  \/ \E f \in Filter : TypeFilter(f)
  \/ \E k \in Kind : AppendEntry(k)
  \/ ApplyFilters \/ NextPage \/ PreviousPage

AuditExplorerSpec == AuditExplorerInit /\ [][AuditExplorerNext]_explorervars

-------------------------------------------------------------------------------
(* Properties. *)

(* Who reads the log from the first page to the last, waiting for each,    *)
(* has seen every entry there was when he began, whatever was appended     *)
(* meanwhile (CompliancePage.tsx:160-176, compliance.ts:75-89): entries    *)
(* come on top, so a page may repeat one but not leave one out.            *)
WalkMissesNothing ==
  orderly /\ InStep => \A s \in shownPage : offset + PageRows >= s.total => walk \subseteq readSoFar

===============================================================================
