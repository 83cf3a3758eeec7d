SPECIFICATION FairSpec
CONSTANTS
  c1 = c1
  c2 = c2
  c3 = c3
  Calls = {c1, c2}
  Requests <- TaintRequests
  Workloads = {"w1", "w2"}
  Sessions = {"s"}
  Verdict <- MCVerdict
  MaxRestarts = 0
  NoRequest = NoRequest
INVARIANT TaintBeforeContent
PROPERTY EveryCallIsAnswered
CHECK_DEADLOCK FALSE
