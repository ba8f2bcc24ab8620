CONSTANTS
  t1 = t1  t2 = t2
  x1 = x1  x2 = x2  x3 = x3  x4 = x4
  NULL = NULL  Wild = Wild  Nobody = Nobody
  Threads <- MCThreads
  Items <- MCItems
  Capacity = 1
  MayFail = TRUE
SPECIFICATION FairSpec
INVARIANTS SlotsAreExclusive LookupFindsItem AssertionsHold IInv
PROPERTIES ImplementsSlotTable FailureIsFinal CallsReturn
\* after a failed realloc every thread may be blocked on the mutex for good
CHECK_DEADLOCK FALSE
