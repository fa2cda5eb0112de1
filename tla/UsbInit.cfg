SPECIFICATION FairSpec
CONSTANTS
  NoThread = NoThread
  Controllers = {c1}
  Users = {}
  NumInterfaces = 1
PROPERTY InitializeReturns
CHECK_DEADLOCK FALSE
