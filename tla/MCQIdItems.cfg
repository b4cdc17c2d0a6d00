SPECIFICATION Spec
CONSTANTS
  v1 = v1
  v2 = v2
  c1 = c1
  c2 = c2
  VUs <- TwoUsers
  Conversations <- TwoConversations
  Items <- ItemsOf
  PageSize = 2
  MaxObjects = 3
  MaxErrors = 1
INVARIANTS
  QIdItemsInv
  EmptyMeansPaged
PROPERTIES
  EntryIsReplaced
CHECK_DEADLOCK FALSE
