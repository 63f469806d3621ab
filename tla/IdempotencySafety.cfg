SPECIFICATION PostSpec
CONSTANTS
  r1 = r1  r2 = r2  r3 = r3  r4 = r4  r5 = r5  k1 = k1  k2 = k2
  Malformed = Malformed
  Posts <- FiveRequests
  PostKeys <- TwoKeys
  KeyOf <- FiveKeyOf
  MaxExpiries = 1
INVARIANTS WorkedOnce SameResult
SYMMETRY SameKeySymmetry
