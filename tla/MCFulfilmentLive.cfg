CONSTANTS
  Items = {i1}
  Workers = {t1, t2}
  Nobody = nobody
SPECIFICATION FairSpec
PROPERTY EveryCallEnds
CHECK_DEADLOCK FALSE
