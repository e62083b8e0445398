SPECIFICATION ServicesSpec
CONSTANTS
  Message = {m1, m2}
  Worker = {w1, w2}
  BatchSize = 2
  MAX_ATTEMPTS = 2
  MaxCrashes = 1
  Tx = {t1, t2, t3}
  MaxEntry = 5
  Call = {q1, q2, q3}
  Body = {b1, b2}
  Unanswered = unanswered
  ToolCaller = {c1, c2}
  ToolKey = {k1, k2}
  Plugin = {p1}
  MaxInvocations = 1
  CIRCUIT_THRESHOLD = 1
  MAX_TURNS = 1
  TokenBudget = 2
  TurnTokens = {1, 2}
  Batch = {b1, b2}
  MaxSequence = 2
  Requester = {a1, a2}
  DayBudget = 2
  Estimate = 1
  MaxCharge = 2
  MaxDay = 2
  Attempt = {a1, a2}
  Token = {t1}
  Secret = {s1, s2}
  LOCKOUT_THRESHOLD = 2
  SlidingTtl = 1
  AbsoluteTtl = 2
  MaxHour = 2
  User = {u1, u2}
  Role = {"org_admin"}
  Activation = {t1, t2}
  Caller = {c1, c2}
  Grant = {g1}
  DeliverableSlot = {d1}
  Text = {none, one}
  NoText = none
  Put = {p1}
  MaxVersion = 2
  MaxOutage = 1
  Response = {r1, r2}
  Words = {none, one}
  NoWords = none
  Absent = absent
  SaveCall = {p1}
  MaxRevision = 3
  MaxFailure = 1
  Item = {i1}
  Grade = {3}
  Remark = {none, one}
  NoRemark = none
  LedgerRow = {k1}
  Aspect = {a1, a2}
  Rationale = {r1, r2}
  NoRationale = none
  Typed = {none, one, two}
  NothingTyped = none
  Notice = {n1, n2}
  MaxPost = 2
  Confirmation = {n1, n2}
  Check = {k1, k2}
  Admin = {a1, a2}
  Employee = {u1}
  Theme = {k1}
  Course = {c1}
  Proposal = {p1, p2, p3}
  MIN_COHORT_FOR_CELL = 1
  MaxCohort = 1
INVARIANTS
  ChainVerifies
  OneEffectPerKey
  SettledTruly
  BudgetsKept
  SpendBounded
  GuessesBounded
  TokenUsedOnce
  ShownSavedIsStored
  CandidateToldTruly
  OpenProposalsBounded
PROPERTIES
  MessageSettles
  ResponsesNeverDropped
CHECK_DEADLOCK FALSE
