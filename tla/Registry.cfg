CONSTANTS
  s1 = s1  s2 = s2  s3 = s3  s4 = s4  s5 = s5
  w1 = w1
  NULL = NULL  Undefined = Undefined
  Services <- FiveServices
  KeyOf <- MCKeyOf
  HashOf <- MCHashOf
  Sizes <- MCSizes
  Workers <- OneWorker
SPECIFICATION FairSpec
INVARIANTS IInv EntriesAreFiled RegisteredIsFound
PROPERTY SearchesEnd
\* a memset of a wild address stops the program
CHECK_DEADLOCK FALSE
