CONSTANTS
  HttpCalls = {c1, c2}
  PAGE_SIZE = 1
  MaxMessages = 5
  FeedCalls = {1, 2, 3}
  Filters = {"home", "search"}
  LastPage <- MCLastPage
  PaymentCalls = {1, 2}
  MaxAttempts = 2
  Users = {"ann", "bob"}
  Products = {"lamp", "chair"}
  Nobody = nobody
SPECIFICATION MCSpec
SYMMETRY CallSymmetry
CONSTRAINT NothingIsExcused
INVARIANTS
  NothingIsSkipped
  FeedIsOneListing
  PendingIsPolled
  HeartsAreFavorites
CHECK_DEADLOCK FALSE
