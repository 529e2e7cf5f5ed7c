SPECIFICATION Spec
CONSTANTS
  k = k
  l = l
  pause = pause
  dismiss = dismiss
  Keys = {k, l}
  Requests <- MCRequests
  LiveReference = {TRUE, FALSE}
  MaxSequence = 3
  Undecided = Undecided
  NoRequest = NoRequest
INVARIANTS
  TypeOK
  OneEffect
  OneAnswer
  StoreKeepsUp
PROPERTIES
  Promise
CHECK_DEADLOCK FALSE
