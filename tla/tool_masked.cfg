CONSTANTS
  d1 = d1
  t1 = t1
  v1 = v1
  s1 = s1
  Workload = {d1, t1}
  Slot = {s1}
  MaxGen = 1
  Replicas = {0, 1}
  Mix <- OneOfEach
  NsOf <- InAAndB
  Service = {}
  SvcNsOf <- OfNothing
  Ports <- OfNothing
  Backs <- OfNothing
  NsList <- TwoNs
  Flags <- Roomy
  ApiMayFail = FALSE
SPECIFICATION Spec
INVARIANTS
  ExitZeroMeansSeenUp
