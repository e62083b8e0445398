SPECIFICATION RecordsSpec
CONSTANTS
  Reviewer = {ann, bob}
  Admin = {bob}
  Manager = {mia}
  Nobody = nobody
  Criterion = {c1}
  Score = {2, 4}
  VarianceTrigger = 2
  Evidence = {e1, e2}
  ClaimId = {k1}
  Dimension = {d1}
  Anchor = {0}
  MaxAppeals = 0
  Request = {r1}
  Hold = {h1, h2}
  Sitting = {s1}
  EventRow = {e1}
  ScoreRow = {k1}
  SweepCap = 1
  Clerk = {k1, k2}
  Email = {e1}
  Limit = {0, 1}
  NoLimit = nolimit
  MaxInvite = 3
  Author = {a1, a2}
  Learner = {l1}
  Chapter = {1}
  Place = {1, 2}
  Practice <- PracticeDef
  SetupCheck = {s1, s2}
  OwnCheck = {s1}
  WrittenCheck = {s2}
  MaxSetupPut = 2
  PackItem = {i1, i2}
  FileId = {f1}
  Happening = {e1}
  Remarks = {n1, none}
  NoRemarks = none
  Flag = {g1, noflag}
  NoFlag = noflag
  Untouched = untouched
  Builder = {b1, b2}
  Listing = {"modules", "pathway"}
  MaxLength = 2
  Person = {p1, p2}
  Sheet <- SheetDef
  NoOne = noone
  Kind = {g1, g2}
  AnyKind = anykind
  PageRows = 1
  MaxAsked = 2
  MaxTrail = 3
  Editor = {b1, b2}
  Policy = {q1, q2}
  NoPolicy = nopolicy
  MaxTold = 3
INVARIANTS
  VarianceAdjudicated
  DecidedByReview
  SweepSparesHeld
  FulfilledMeansErased
  PlanOvershootBounded
  LateWritesBounded
  SetupToldTruly
  PagesTellTruly
  PolicyAsAudited
PROPERTIES
  FinalisedReviewStands
CHECK_DEADLOCK FALSE
