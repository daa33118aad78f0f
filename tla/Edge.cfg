SPECIFICATION EdgeSpec
CONSTANTS
  Horizon = 4
  Requests = {r1, r2}
  Callers = {r1, r2}
  Buckets = {b1, b2}
  Lists = {"no", "black", "white"}
  TimeStep = 1
  Burst = 1
  Expiry = 2
  None = None
  Questions = {q1}
  Servers <- MCServers
  Answers <- MCAnswers
  DefaultTtl = 3
  Silence = Silence
  Lifetime = 2
  Renewal = 1
  Ahead = 1
  CookieKinds = {"client", "foreign", "malformed"}
  Setups <- MCSetups
INVARIANTS BucketHolds RateHeld FreshReplies CookieStaysGood
PROPERTIES EveryRequestReplied
CHECK_DEADLOCK FALSE
