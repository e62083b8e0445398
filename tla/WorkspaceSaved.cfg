SPECIFICATION PageSpec
CONSTANTS
  DeliverableSlot = {d1, d2}
  Text = {none, one}
  NoText = none
  Put = {p1}
  MaxVersion = 2
  MaxOutage = 0
INVARIANT SavedMeansSaved
CHECK_DEADLOCK FALSE
