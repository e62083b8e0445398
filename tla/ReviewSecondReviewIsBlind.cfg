SPECIFICATION Spec
CONSTANTS
  Reviewer = {ann, bob, chief}
  Admin = {chief}
  Nobody = nobody
  Dimension = {judgement, delivery}
  Anchor = {0, 1, 2}
  MaxAppeals = 1
SYMMETRY Interchangeable
INVARIANTS
  SecondReviewIsBlind
