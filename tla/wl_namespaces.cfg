CONSTANTS
  w1 = w1
  w2 = w2
  s1 = s1
  s2 = s2
  Workload = {w1, w2}
  Slot = {s1}
  MaxGen = 1
  Replicas = {0, 1}
  Mix <- AnyMix
  NsOf <- InAAndB
  NsList <- TwoNs
  Flags <- AllFlags
  ApiMayFail = TRUE
SPECIFICATION Spec
INVARIANTS
  TypeOK
PROPERTIES
  KeepsPromise
