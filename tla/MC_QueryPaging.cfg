CONSTANTS
  Ids = {1, 2, 3, 4, 5}
  MaxLimit = 2
  NoCursor = NoCursor
  NoLimit = NoLimit
SPECIFICATION Spec
INVARIANTS
  PageCorrect
  PagingExact
  PagingInv
