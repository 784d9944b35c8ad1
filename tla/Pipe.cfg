CONSTANTS
  Workers = {w1, w2}
  None = None
  Ids = {7}
  Ops = {"hello", "query", "page", "free", "subscribe",
         "unsubscribe", "status", "badhello"}
  Args = {0, 1}
  QueueCap = 1
  MaxResults = 1
  OutCap = 1
  MaxRequests = 3
SPECIFICATION FairClientSpec
INVARIANTS
  TypeOK
  AnsweredOnce
  SupersededIsCancelled
  CancelReaches
  ResourcesBounded
PROPERTIES
  RequestsAnswered
  ConnectionEnds
