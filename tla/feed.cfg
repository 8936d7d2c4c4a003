SPECIFICATION FeedSpec
CONSTANTS
  Event = {e1, e2}
  Text = {t1, t2}
  Editor = {i1}
  MaxTime = 2
SYMMETRY Symmetry
INVARIANTS NotModifiedIsTrue
CHECK_DEADLOCK FALSE
