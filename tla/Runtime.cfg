SPECIFICATION RuntimeFairSpec
CONSTANTS
  q1 = q1  q2 = q2  t1 = t1  t2 = t2  t3 = t3
  Lifespan = Lifespan  None = None
  Requests = {q1, q2}
  Tasks = {t1, t2, t3}
  OpenAttempts = 3
  MaxOutages = 3
  Starts = {"warmup", "serving"}
INVARIANTS OnePool HeldIsNotUnwound
PROPERTIES CallersAreReleased ReadyInTheEnd
