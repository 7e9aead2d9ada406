CONSTANTS
  MaxImages = 2
  Requests = {r1, r2}
  Products = {p1}
  MAX_QUANTITY = 2
  MaxRows = 2
  MaxChosen = 3
  Contexts = {"product", "direct"}
  Openers <- MCOpeners
  MaxThreads = 3
  MaxMessages = 2
  Items = {i1, i2, i3}
  NoItem = none
  MaxCalls = 2
  Sellers = {s1, s2}
  Viewers = {u1, u2, u3}
  SaleLines = {l1, l2}
  Lines <- MCLines
  Nobody = nobody
SPECIFICATION MCSpec
SYMMETRY RequestSymmetry
INVARIANTS
  ReviewedWasBought
  OnePrimaryAtRest
  PictureIsKept
  ChosenIsHeldOnce
  OneThreadUnlessCrossed
  RecipientIsTold
  RetryIsHarmless
  AnnouncedIffSettled
  OfferedIsAccepted
  EachMovesHisOwn
  DeadlockNeedsCrossing
CHECK_DEADLOCK FALSE
