CONSTANTS
  w1 = w1
  w2 = w2
  s1 = s1
  s2 = s2
  Workload = {w1}
  Slot = {s1, s2}
  MaxGen = 2
  Replicas = {0, 1, 2}
  Mix <- AnyMix
  NsOf <- InA
  NsList <- OneNs
  Flags <- Roomy
  ApiMayFail = FALSE
SPECIFICATION FairSpec
PROPERTIES
  GivenUpOnlyAtTimeout
