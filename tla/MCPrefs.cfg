SPECIFICATION Spec
CONSTANTS
  w1 = w1
  w2 = w2
  o1 = o1
  o2 = o2
  o3 = o3
  None = None
  Fields <- MCItems
  Items <- MCItems
  CheckBoxes <- MCBoxes
  Initial <- MCZero
  Values <- MCValues
  Objects <- MCObjects
  Writers <- MCWriters
  MaxChanges = 2
  MaxBroadcasts = 1
INVARIANT TypeOK
INVARIANT ClickIsSafe
INVARIANT LoadingIsOutdated
INVARIANT OutdatedIsHidden
PROPERTY LoadingEnds
PROPERTY ShownConverges
